---------------------------- MODULE RouterProofs ----------------------------
(***************************************************************************)
(* Theorems about the packet handler, for every set of addresses,          *)
(* descriptors and packets, and every bound.                               *)
(***************************************************************************)
EXTENDS RouterFabric, RouterContract, FiniteSetTheorems, TLAPS

-----------------------------------------------------------------------------
(* Types.                                                                  *)

\* A table of contexts over some of the addresses.
IsTable(t) == Known(t) \subseteq Addr /\ t \in [Known(t) -> Context]

\* Replacing one context of a table.
LEMMA SetContext ==
    ASSUME NEW t, IsTable(t), NEW a \in Known(t), NEW c \in Context
    PROVE  /\ IsTable([t EXCEPT ![a] = c])
           /\ Known([t EXCEPT ![a] = c]) = Known(t)
BY DEF IsTable, Known

\* Making room for an address leaves a table, and the other contexts as they are.
LEMMA WithContextTable ==
    ASSUME NEW t, IsTable(t), NEW a \in Addr
    PROVE  /\ IsTable(WithContext(t, a))
           /\ Known(WithContext(t, a)) = Known(t) \cup {a}
           /\ \A x \in Known(t) : WithContext(t, a)[x] = t[x]
           /\ a \notin Known(t) => WithContext(t, a)[a] = NewContext
<1>1. NewContext \in Context
  BY DEF NewContext, Context, Policy, Unbound
<1> QED
  BY <1>1 DEF IsTable, WithContext, Known

\* Binding an address leaves a well-formed table.
LEMMA BindTable ==
    ASSUME NEW t, IsTable(t), NEW a \in Addr, NEW fd \in Fd
    PROVE  /\ IsTable(Bind(t, a, fd))
           /\ Known(Bind(t, a, fd)) = Known(t) \cup {a}
<1> DEFINE w == WithContext(t, a)
           c == [w[a] EXCEPT !.bound_fd = fd]
<1>1. IsTable(w) /\ a \in Known(w) /\ Known(w) = Known(t) \cup {a}
  BY WithContextTable
<1>2. w[a] \in Context
  BY <1>1 DEF IsTable, Known
<1>3. c \in Context
  BY <1>2 DEF Context
<1>4. Bind(t, a, fd) = [w EXCEPT ![a] = c]
  BY DEF Bind
<1> HIDE DEF w, c
<1>5. IsTable([w EXCEPT ![a] = c]) /\ Known([w EXCEPT ![a] = c]) = Known(w)
  BY <1>1, <1>3, SetContext
<1> QED
  BY <1>1, <1>4, <1>5

\* So does a new link,
LEMMA LinkTable ==
    ASSUME NEW t, IsTable(t), NEW s \in Addr, NEW d \in Addr
    PROVE  /\ IsTable(Link(t, s, d))
           /\ Known(Link(t, s, d)) = Known(t) \cup {s}
<1> DEFINE w == WithContext(t, s)
           c == [w[s] EXCEPT !.forward = Append(@, d)]
<1>1. IsTable(w) /\ s \in Known(w) /\ Known(w) = Known(t) \cup {s}
  BY WithContextTable
<1>2. w[s] \in Context
  BY <1>1 DEF IsTable, Known
<1>3. Append(w[s].forward, d) \in Seq(Addr)
  BY <1>2 DEF Context
<1>4. c \in Context
  BY <1>2, <1>3 DEF Context
<1>5. Link(t, s, d) = [w EXCEPT ![s] = c]
  BY DEF Link
<1> HIDE DEF w, c
<1>6. IsTable([w EXCEPT ![s] = c]) /\ Known([w EXCEPT ![s] = c]) = Known(w)
  BY <1>1, <1>4, SetContext
<1> QED
  BY <1>1, <1>5, <1>6

\* a new policy,
LEMMA SetPolicyTable ==
    ASSUME NEW t, IsTable(t), NEW a \in Known(t), NEW p \in Policy
    PROVE  /\ IsTable(WithPolicy(t, a, p))
           /\ Known(WithPolicy(t, a, p)) = Known(t)
<1> DEFINE c == [t[a] EXCEPT !.forward_policy = p]
<1>1. c \in Context
  BY DEF Context, IsTable, Known
<1>2. WithPolicy(t, a, p) = [t EXCEPT ![a] = c]
  BY DEF WithPolicy
<1> HIDE DEF c
<1>3. IsTable([t EXCEPT ![a] = c]) /\ Known([t EXCEPT ![a] = c]) = Known(t)
  BY <1>1, SetContext
<1> QED
  BY <1>2, <1>3

\* and a packet counted in.
LEMMA CountInTable ==
    ASSUME NEW t, IsTable(t), NEW s \in Known(t)
    PROVE  /\ IsTable(CountIn(t, s))
           /\ Known(CountIn(t, s)) = Known(t)
<1> DEFINE c == [t[s] EXCEPT !.packets_in = @ + 1]
<1>1. t[s] \in Context
  BY DEF IsTable, Known
<1>2. c \in Context
  BY <1>1 DEF Context
<1>3. CountIn(t, s) = [t EXCEPT ![s] = c]
  BY DEF CountIn
<1> HIDE DEF c
<1>4. IsTable([t EXCEPT ![s] = c]) /\ Known([t EXCEPT ![s] = c]) = Known(t)
  BY <1>2, SetContext
<1> QED
  BY <1>3, <1>4

\* A remainder is less than what is divided by.
LEMMA Remainder ==
    ASSUME NEW n \in Nat, NEW k \in Nat, k # 0
    PROVE  (n % k) + 1 \in 1..k
OBVIOUS

\* A list of edges is not empty once something is appended.
LEMMA AppendNotEmpty ==
    ASSUME NEW S, NEW f \in Seq(S), NEW d \in S
    PROVE  Append(f, d) # <<>>
OBVIOUS

\* The edges a policy selects are edges of the source, when there is one to
\* select.
LEMMA SelectionsAreEdges ==
    ASSUME NEW ctx \in Context, NEW n \in Nat,
           Divides(ctx) => ctx.forward # <<>>,
           NEW chosen \in Selections(ctx, n)
    PROVE  chosen \subseteq DOMAIN ctx.forward
<1> DEFINE k == Len(ctx.forward)
<1>1. ctx.forward \in Seq(Addr) /\ k \in Nat /\ DOMAIN ctx.forward = 1..k
  BY DEF Context
<1>2. CASE ctx.forward_policy = "roundrobin"
  <2>1. k # 0
    BY <1>1, <1>2 DEF Divides
  <2>2. (n % k) + 1 \in 1..k
    BY <1>1, <2>1, Remainder
  <2>3. chosen = {(n % k) + 1}
    BY <1>2 DEF Selections
  <2> QED
    BY <1>1, <2>2, <2>3
<1>3. CASE ctx.forward_policy # "roundrobin"
  BY <1>3 DEF Selections, Context, Policy
<1> QED
  BY <1>2, <1>3

\* Packets counted out leave a well-formed table.
LEMMA CountOutTable ==
    ASSUME NEW t, IsTable(t), NEW s \in Known(t),
           NEW sent \in SUBSET (DOMAIN t[s].forward)
    PROVE  /\ IsTable(CountOut(t, s, sent))
           /\ Known(CountOut(t, s, sent)) = Known(t)
<1>1. t[s].forward \in Seq(Addr)
  BY DEF IsTable, Known, Context
<1>2. ASSUME NEW a \in Known(t)
      PROVE  Cardinality({i \in sent : t[s].forward[i] = a}) \in Nat
  <2>1. DOMAIN t[s].forward = 1..Len(t[s].forward) /\ Len(t[s].forward) \in Nat
    BY <1>1
  <2>2. IsFiniteSet(1..Len(t[s].forward))
    BY <2>1, FS_Interval
  <2>3. IsFiniteSet({i \in sent : t[s].forward[i] = a})
    BY <2>1, <2>2, FS_Subset
  <2> QED
    BY <2>3, FS_CardinalityType
<1>3. ASSUME NEW ctx \in Context, NEW n \in Nat
      PROVE  [ctx EXCEPT !.packets_out = @ + n] \in Context
  BY DEF Context
<1>4. ASSUME NEW a \in Known(t)
      PROVE  [t[a] EXCEPT !.packets_out =
                @ + Cardinality({i \in sent : t[s].forward[i] = a})] \in Context
  <2>1. t[a] \in Context
    BY DEF IsTable, Known
  <2> QED
    BY <1>2, <1>3, <2>1
<1> QED
  BY <1>4 DEF CountOut, IsTable, Known

\* Copies along live edges are emissions.
LEMMA CopiesAreEmissions ==
    ASSUME NEW t, IsTable(t), NEW s \in Known(t),
           NEW chosen \in SUBSET (DOMAIN t[s].forward)
    PROVE  Copies(t, s, Live(t, s, chosen)) \subseteq Emission
<1>1. t[s].forward \in Seq(Addr) /\ s \in Addr
  BY DEF IsTable, Known, Context
<1>2. ASSUME NEW i \in Live(t, s, chosen)
      PROVE  [fd |-> t[t[s].forward[i]].bound_fd, from |-> s,
              to |-> t[s].forward[i], edge |-> i] \in Emission
  <2>1. i \in DOMAIN t[s].forward /\ t[s].forward[i] \in Known(t)
    BY <1>2 DEF Live
  <2>2. i \in Nat /\ t[s].forward[i] \in Addr
    BY <1>1, <2>1
  <2>3. t[t[s].forward[i]] \in Context
    BY <2>1 DEF IsTable, Known
  <2>4. t[t[s].forward[i]].bound_fd \in Fd \cup {Unbound}
    BY <2>3 DEF Context
  <2> QED
    BY <1>1, <2>2, <2>4 DEF Emission
<1> QED
  BY <1>2 DEF Copies

\* What Forward does to the table, and what it writes, is well formed.
LEMMA ForwardTypes ==
    ASSUME TypeOK, NEW p \in Packet, Forward(p)
    PROVE  IsTable(address_table') /\ emitted' \subseteq Emission
<1> DEFINE s == p.source
           t == CountIn(address_table, s)
<1>1. IsTable(address_table) /\ s \in Known(address_table)
  BY DEF Forward, TypeOK, IsTable
<1>2. IsTable(t) /\ Known(t) = Known(address_table)
  BY <1>1, CountInTable
<1>3. t[s] \in Context /\ t[s].packets_in \in Nat
  BY <1>1, <1>2 DEF IsTable, Known, Context
<1>4. /\ t[s].forward_policy = address_table[s].forward_policy
      /\ t[s].forward = address_table[s].forward
  <2>1. address_table[s] \in Context
    BY <1>1 DEF IsTable, Known
  <2>2. t[s] = [address_table[s] EXCEPT !.packets_in = @ + 1]
    BY <1>1 DEF CountIn, Known
  <2> QED
    BY <2>1, <2>2 DEF Context
<1>5. Divides(t[s]) => t[s].forward # <<>>
  BY <1>4 DEF Forward, Divides
<1>6. PICK chosen \in Selections(t[s], t[s].packets_in) :
        /\ address_table' = CountOut(t, s, Live(t, s, chosen))
        /\ Written(Copies(t, s, Live(t, s, chosen)))
  BY DEF Forward
<1>7. chosen \subseteq DOMAIN t[s].forward
  BY <1>3, <1>5, <1>6, SelectionsAreEdges
<1>8. Live(t, s, chosen) \subseteq DOMAIN t[s].forward
  BY <1>7 DEF Live
<1> HIDE DEF t, s
<1>9. IsTable(address_table')
  BY <1>1, <1>2, <1>6, <1>8, CountOutTable
<1>10. Copies(t, s, Live(t, s, chosen)) \subseteq Emission
  BY <1>1, <1>2, <1>7, CopiesAreEmissions
<1> QED
  BY <1>6, <1>9, <1>10 DEF Written

\* The edge that round robin records is a number.
LEMMA ForwardPicks ==
    ASSUME TypeOK, NEW p \in Packet, Forward(p)
    PROVE  picks' \in [Addr -> Seq(Nat)]
<1> DEFINE s == p.source
           t == CountIn(address_table, s)
<1>1. s \in Known(address_table) /\ s \in Addr
  BY DEF Forward, TypeOK
<1>2. IsTable(address_table) /\ IsTable(t) /\ s \in Known(t)
  BY <1>1, CountInTable DEF TypeOK, IsTable
<1>3. t[s] \in Context
  BY <1>2 DEF IsTable, Known
<1>4. address_table[s] \in Context
  BY <1>1, <1>2 DEF IsTable, Known
<1>5. t[s] = [address_table[s] EXCEPT !.packets_in = @ + 1]
  BY <1>1 DEF CountIn, Known
<1>6. Divides(t[s]) => t[s].forward # <<>>
  BY <1>4, <1>5 DEF Forward, Divides, Context
<1>7. PICK chosen \in Selections(t[s], t[s].packets_in) :
        picks' = IF t[s].forward_policy = "roundrobin"
                 THEN [picks EXCEPT ![s] = Append(@, CHOOSE i \in chosen : TRUE)]
                 ELSE picks
  BY DEF Forward
<1>8. CASE t[s].forward_policy = "roundrobin"
  <2>1. chosen = {(t[s].packets_in % Len(t[s].forward)) + 1}
    BY <1>7, <1>8 DEF Selections
  <2>2. chosen \subseteq DOMAIN t[s].forward
    BY <1>3, <1>6, <1>7, SelectionsAreEdges DEF Context
  <2>3. DOMAIN t[s].forward \subseteq Nat
    BY <1>3 DEF Context
  <2>4. (CHOOSE i \in chosen : TRUE) \in Nat
    BY <2>1, <2>2, <2>3
  <2> HIDE DEF t, s
  <2> QED
    BY <1>1, <1>7, <1>8, <2>4 DEF TypeOK
<1>9. CASE t[s].forward_policy # "roundrobin"
  BY <1>7, <1>9 DEF TypeOK
<1> QED
  BY <1>8, <1>9

\* A packet is of one of the kinds that the handler tells apart.
LEMMA PacketKinds ==
    ASSUME NEW p \in Packet
    PROVE  /\ p.kind = "new_address" => p.address \in Addr \cup {AnyAddress}
           /\ p.kind = "connect" => p.source \in Addr /\ p.target \in Addr
           /\ p.kind = "policy" => p.policy \in Policy /\ p.target \in Addr
           /\ p.kind = "data" => p.source \in Addr
BY DEF Packet, ClaimPacket, ConnectPacket, PolicyPacket, DataPacket, OtherPacket

\* Every step keeps the types,
LEMMA TypeStep ==
    ASSUME TypeOK, [Next]_vars
    PROVE  TypeOK'
<1> USE RouterAssumption
<1>1. ASSUME NEW fd \in Fd, NEW p \in Input, HandlePacket(fd, p)
      PROVE  TypeOK'
  <2>1. p \in Packet /\ handled' = p
    BY <1>1 DEF HandlePacket
  <2>2. IsTable(address_table)
    BY DEF TypeOK, IsTable
  <2> SUFFICES /\ IsTable(address_table')
               /\ emitted' \subseteq Emission
               /\ status' \in {"running"} \cup Fault
               /\ claims' \subseteq Fd \X Addr
               /\ picks' \in [Addr -> Seq(Nat)]
    BY <2>1 DEF TypeOK, IsTable
  <2>3. CASE NewAddress(fd, p)
    <3>1. PICK a \in Addr :
            /\ address_table' = Bind(address_table, a, fd)
            /\ claims' = claims \cup {<<fd, a>>}
            /\ Written({[fd |-> fd, from |-> a, to |-> a, edge |-> 0]})
      <4>1. (IF p.address = AnyAddress THEN RandomAddr ELSE {p.address})
                \subseteq Addr
        BY <2>1, <2>3, PacketKinds DEF NewAddress
      <4> QED
        BY <2>3, <4>1 DEF NewAddress
    <3>2. IsTable(address_table')
      BY <2>2, <3>1, BindTable
    <3>3. [fd |-> fd, from |-> a, to |-> a, edge |-> 0] \in Emission
      BY DEF Emission
    <3>4. emitted' \subseteq Emission /\ status' \in {"running"} \cup Fault
      BY <3>1, <3>3 DEF Written, Fault
    <3>5. claims' \subseteq Fd \X Addr
      BY <3>1 DEF TypeOK
    <3> QED
      BY <2>3, <3>2, <3>4, <3>5 DEF NewAddress, TypeOK
  <2>4. CASE Connect(p)
    <3>1. p.source \in Addr /\ p.target \in Addr
      BY <2>1, <2>4, PacketKinds DEF Connect
    <3>2. IsTable(address_table')
      BY <2>2, <2>4, <3>1, LinkTable DEF Connect
    <3> QED
      BY <2>4, <3>1, <3>2 DEF Connect, Written, Fault, TypeOK
  <2>5. CASE SetPolicy(p)
    <3>1. p.policy \in Policy /\ p.target \in Known(address_table)
      BY <2>1, <2>5, PacketKinds DEF SetPolicy
    <3>2. IsTable(address_table')
      BY <2>2, <2>5, <3>1, SetPolicyTable DEF SetPolicy
    <3> QED
      BY <2>5, <3>1, <3>2 DEF SetPolicy, Written, Fault, TypeOK
  <2>6. CASE Ignored(p)
    BY <2>2, <2>6 DEF Ignored, Written, Fault, TypeOK
  <2>7. CASE BadLookup(p)
    BY <2>2, <2>7 DEF BadLookup, Fault, TypeOK
  <2>8. CASE DivideByZero(p)
    <3>1. IsTable(address_table')
      BY <2>2, <2>8, CountInTable DEF DivideByZero
    <3> QED
      BY <2>8, <3>1 DEF DivideByZero, Fault, TypeOK
  <2>9. CASE Forward(p)
    <3>1. IsTable(address_table') /\ emitted' \subseteq Emission
      BY <2>1, <2>9, ForwardTypes
    <3>2. picks' \in [Addr -> Seq(Nat)]
      BY <2>1, <2>9, ForwardPicks
    <3> QED
      BY <2>9, <3>1, <3>2 DEF Forward, Written, Fault, TypeOK
  <2> QED
    BY <1>1, <2>3, <2>4, <2>5, <2>6, <2>7, <2>8, <2>9 DEF HandlePacket
<1>2. CASE AssertFails
  BY <1>2 DEF AssertFails, TypeOK, Fault, Known
<1>3. CASE UNCHANGED vars
  BY <1>3 DEF vars, TypeOK, Known
<1> QED
  BY <1>1, <1>2, <1>3 DEF Next

\* which hold at the start.
LEMMA TypeInit == Init => TypeOK
BY DEF Init, TypeOK, Known

(***************************************************************************)
(* The table always holds contexts of some of the addresses, with policies *)
(* and edges that are addresses, however packets are interleaved.          *)
(***************************************************************************)
THEOREM TypeCorrect == Spec => []TypeOK
BY TypeInit, TypeStep, PTL DEF Spec

-----------------------------------------------------------------------------
(* Counting changes no route.                                              *)

SameRoutes(t, u) ==
    /\ Known(u) = Known(t)
    /\ \A a \in Known(t) : /\ u[a].forward = t[a].forward
                           /\ u[a].forward_policy = t[a].forward_policy
                           /\ u[a].bound_fd = t[a].bound_fd

\* Counting a packet in changes no route.
LEMMA CountInRoutes ==
    ASSUME NEW t, IsTable(t), NEW s \in Known(t)
    PROVE  /\ SameRoutes(t, CountIn(t, s))
           /\ \A a \in Known(t) : CountIn(t, s)[a].packets_in =
                 IF a = s THEN t[a].packets_in + 1 ELSE t[a].packets_in
<1>1. ASSUME NEW a \in Known(t)
      PROVE  CountIn(t, s)[a] = IF a = s THEN [t[a] EXCEPT !.packets_in = @ + 1]
                                ELSE t[a]
  BY DEF CountIn, Known
<1>2. \A a \in Known(t) : t[a] \in Context
  BY DEF IsTable, Known
<1>3. Known(CountIn(t, s)) = Known(t)
  BY CountInTable
<1> QED
  BY <1>1, <1>2, <1>3 DEF SameRoutes, Context

\* Counting packets out changes no route.
LEMMA CountOutRoutes ==
    ASSUME NEW t, IsTable(t), NEW s \in Known(t), NEW sent
    PROVE  /\ SameRoutes(t, CountOut(t, s, sent))
           /\ \A a \in Known(t) :
                CountOut(t, s, sent)[a].packets_in = t[a].packets_in
<1>1. \A a \in Known(t) : t[a] \in Context
  BY DEF IsTable, Known
<1>2. ASSUME NEW a \in Known(t)
      PROVE  \E n : CountOut(t, s, sent)[a] = [t[a] EXCEPT !.packets_out = n]
  BY DEF CountOut
<1>3. Known(CountOut(t, s, sent)) = Known(t)
  BY DEF CountOut, Known
<1> QED
  BY <1>1, <1>2, <1>3 DEF SameRoutes, Context

(***************************************************************************)
(* A data packet that is forwarded changes counters only, and leaves along *)
(* the live edges of one selection of its source's policy.                 *)
(***************************************************************************)
LEMMA ForwardRoutes ==
    ASSUME TypeOK, NEW p \in Packet, Forward(p)
    PROVE  LET s   == p.source
               ctx == address_table[s]
               n   == ctx.packets_in + 1
           IN  /\ s \in Known(address_table)
               /\ SameRoutes(address_table, address_table')
               /\ \A a \in Known(address_table) :
                    address_table'[a].packets_in =
                        IF a = s THEN n ELSE address_table[a].packets_in
               /\ \E chosen \in Selections(ctx, n) :
                    /\ chosen \subseteq DOMAIN ctx.forward
                    /\ emitted' = Copies(address_table, s,
                                         Live(address_table, s, chosen))
                    /\ picks' = IF ctx.forward_policy = "roundrobin"
                                THEN [picks EXCEPT ![s] =
                                        Append(@, CHOOSE i \in chosen : TRUE)]
                                ELSE picks
<1> DEFINE s   == p.source
           ctx == address_table[s]
           n   == ctx.packets_in + 1
           t   == CountIn(address_table, s)
<1>1. IsTable(address_table) /\ s \in Known(address_table)
  BY DEF Forward, TypeOK, IsTable
<1>2. ctx \in Context
  BY <1>1 DEF IsTable, Known
<1>3. IsTable(t) /\ Known(t) = Known(address_table) /\ SameRoutes(address_table, t)
  BY <1>1, CountInTable, CountInRoutes
<1>4. /\ t[s].forward = ctx.forward
      /\ t[s].forward_policy = ctx.forward_policy
      /\ t[s].packets_in = n
  BY <1>1, <1>3, CountInRoutes DEF SameRoutes
<1>5. PICK chosen \in Selections(t[s], t[s].packets_in) :
        /\ address_table' = CountOut(t, s, Live(t, s, chosen))
        /\ Written(Copies(t, s, Live(t, s, chosen)))
        /\ picks' = IF t[s].forward_policy = "roundrobin"
                    THEN [picks EXCEPT ![s] =
                            Append(@, CHOOSE i \in chosen : TRUE)]
                    ELSE picks
  BY DEF Forward
<1>6. chosen \in Selections(ctx, n)
  BY <1>4, <1>5 DEF Selections
<1>7. chosen \subseteq DOMAIN ctx.forward
  <2>1. Divides(ctx) => ctx.forward # <<>>
    BY DEF Forward
  <2>2. n \in Nat
    BY <1>2 DEF Context
  <2> QED
    BY <1>2, <1>6, <2>1, <2>2, SelectionsAreEdges
<1>8. Live(t, s, chosen) = Live(address_table, s, chosen)
  BY <1>3, <1>4 DEF Live
<1>9. Copies(t, s, Live(t, s, chosen))
        = Copies(address_table, s, Live(address_table, s, chosen))
  BY <1>3, <1>4, <1>8 DEF Copies, Live, SameRoutes
<1>10. SameRoutes(t, address_table')
  BY <1>1, <1>3, <1>5, CountOutRoutes
<1>11. SameRoutes(address_table, address_table')
  BY <1>3, <1>10 DEF SameRoutes
<1>12. \A a \in Known(address_table) :
          address_table'[a].packets_in =
              IF a = s THEN n ELSE address_table[a].packets_in
  BY <1>1, <1>3, <1>5, CountInRoutes, CountOutRoutes
<1>13. emitted' = Copies(address_table, s, Live(address_table, s, chosen))
  BY <1>5, <1>9 DEF Written
<1>14. picks' = IF ctx.forward_policy = "roundrobin"
                THEN [picks EXCEPT ![s] =
                        Append(@, CHOOSE i \in chosen : TRUE)]
                ELSE picks
  BY <1>4, <1>5
<1> HIDE DEF t
<1> QED
  BY <1>1, <1>6, <1>7, <1>11, <1>12, <1>13, <1>14

-----------------------------------------------------------------------------
(* The contract.                                                           *)

\* What the commands do to the routes of the table.
LEMMA BindRoutes ==
    ASSUME NEW t, IsTable(t), NEW a \in Addr, NEW fd \in Fd,
           NEW u, u = Bind(t, a, fd)
    PROVE  /\ Known(u) = Known(t) \cup {a}
           /\ u[a].bound_fd = fd
           /\ \A x \in Known(t) :
                /\ u[x].forward = t[x].forward
                /\ u[x].forward_policy = t[x].forward_policy
                /\ u[x].packets_in = t[x].packets_in
                /\ x # a => u[x].bound_fd = t[x].bound_fd
           /\ a \notin Known(t) =>
                u[a].forward = <<>> /\ u[a].forward_policy = "broadcast"
<1> DEFINE w == WithContext(t, a)
<1>1. /\ IsTable(w) /\ Known(w) = Known(t) \cup {a}
      /\ \A x \in Known(t) : w[x] = t[x]
      /\ a \notin Known(t) => w[a] = NewContext
  BY WithContextTable
<1>2. \A x \in Known(w) : w[x] \in Context
  BY <1>1 DEF IsTable, Known
<1>3. \A x \in Known(w) : u[x] =
          IF x = a THEN [w[x] EXCEPT !.bound_fd = fd] ELSE w[x]
  BY DEF Bind, Known
<1>4. Known(u) = Known(t) \cup {a}
  BY BindTable
<1> HIDE DEF w
<1>5. ASSUME NEW x \in Known(w)
      PROVE  /\ u[x].forward = w[x].forward
             /\ u[x].forward_policy = w[x].forward_policy
             /\ u[x].packets_in = w[x].packets_in
             /\ u[x].bound_fd = IF x = a THEN fd ELSE w[x].bound_fd
  BY <1>2, <1>3 DEF Context
<1>6. a \in Known(w) /\ Known(t) \subseteq Known(w)
  BY <1>1
<1>7. NewContext.forward = <<>> /\ NewContext.forward_policy = "broadcast"
  BY DEF NewContext
<1> QED
  BY <1>1, <1>4, <1>5, <1>6, <1>7

\* A new link adds one edge to its source, and changes no other route.
LEMMA LinkRoutes ==
    ASSUME NEW t, IsTable(t), NEW s \in Addr, NEW d \in Addr,
           NEW u, u = Link(t, s, d)
    PROVE  /\ Known(u) = Known(t) \cup {s}
           /\ \A x \in Known(t) :
                /\ u[x].forward = IF x = s THEN Append(t[x].forward, d)
                                  ELSE t[x].forward
                /\ u[x].forward_policy = t[x].forward_policy
                /\ u[x].packets_in = t[x].packets_in
                /\ u[x].bound_fd = t[x].bound_fd
           /\ s \notin Known(t) =>
                /\ u[s].forward = <<d>>
                /\ u[s].forward_policy = "broadcast"
                /\ u[s].bound_fd = Unbound
<1> DEFINE w == WithContext(t, s)
<1>1. /\ IsTable(w) /\ Known(w) = Known(t) \cup {s}
      /\ \A x \in Known(t) : w[x] = t[x]
      /\ s \notin Known(t) => w[s] = NewContext
  BY WithContextTable
<1>2. \A x \in Known(w) : w[x] \in Context
  BY <1>1 DEF IsTable, Known
<1>3. \A x \in Known(w) : u[x] =
          IF x = s THEN [w[x] EXCEPT !.forward = Append(@, d)] ELSE w[x]
  BY DEF Link, Known
<1>4. Known(u) = Known(t) \cup {s}
  BY LinkTable
<1>5. Append(<<>>, d) = <<d>>
  OBVIOUS
<1> HIDE DEF w
<1>6. ASSUME NEW x \in Known(w)
      PROVE  /\ u[x].forward = IF x = s THEN Append(w[x].forward, d)
                               ELSE w[x].forward
             /\ u[x].forward_policy = w[x].forward_policy
             /\ u[x].packets_in = w[x].packets_in
             /\ u[x].bound_fd = w[x].bound_fd
  BY <1>2, <1>3 DEF Context
<1>7. s \in Known(w) /\ Known(t) \subseteq Known(w)
  BY <1>1
<1>8. /\ NewContext.forward = <<>>
      /\ NewContext.forward_policy = "broadcast"
      /\ NewContext.bound_fd = Unbound
  BY DEF NewContext
<1> QED
  BY <1>1, <1>4, <1>5, <1>6, <1>7, <1>8

\* A new policy changes no edge.
LEMMA SetPolicyRoutes ==
    ASSUME NEW t, IsTable(t), NEW a \in Known(t), NEW p \in Policy,
           NEW u, u = WithPolicy(t, a, p)
    PROVE  /\ Known(u) = Known(t)
           /\ \A x \in Known(t) :
                /\ u[x].forward = t[x].forward
                /\ u[x].forward_policy = IF x = a THEN p
                                         ELSE t[x].forward_policy
                /\ u[x].packets_in = t[x].packets_in
                /\ u[x].bound_fd = t[x].bound_fd
<1>1. \A x \in Known(t) : t[x] \in Context
  BY DEF IsTable, Known
<1> QED
  BY <1>1 DEF Known, Context, WithPolicy

\* The same, of the calls.
LEMMA NewAddressRoutes ==
    ASSUME TypeOK, NEW p \in Packet, NEW fd \in Fd, NewAddress(fd, p)
    PROVE  \E a \in Addr :
             /\ Known(address_table') = Known(address_table) \cup {a}
             /\ address_table'[a].bound_fd = fd
             /\ \A x \in Known(address_table) :
                /\ address_table'[x].forward = address_table[x].forward
                /\ address_table'[x].forward_policy
                      = address_table[x].forward_policy
                /\ address_table'[x].packets_in = address_table[x].packets_in
                /\ x # a => address_table'[x].bound_fd
                                = address_table[x].bound_fd
             /\ a \notin Known(address_table) =>
                  /\ address_table'[a].forward = <<>>
                  /\ address_table'[a].forward_policy = "broadcast"
             /\ claims' = claims \cup {<<fd, a>>}
             /\ emitted' = {[fd |-> fd, from |-> a, to |-> a, edge |-> 0]}
             /\ p.address \in {a, AnyAddress}
<1> USE RouterAssumption
<1>1. IsTable(address_table)
  BY DEF TypeOK, IsTable
<1>2. (IF p.address = AnyAddress THEN RandomAddr ELSE {p.address}) \subseteq Addr
  BY PacketKinds DEF NewAddress
<1>3. PICK a \in Addr :
        /\ address_table' = Bind(address_table, a, fd)
        /\ claims' = claims \cup {<<fd, a>>}
        /\ Written({[fd |-> fd, from |-> a, to |-> a, edge |-> 0]})
        /\ p.address \in {a, AnyAddress}
  BY <1>2 DEF NewAddress
<1>4. emitted' = {[fd |-> fd, from |-> a, to |-> a, edge |-> 0]}
  BY <1>3 DEF Written
<1> DEFINE t == address_table
           u == address_table'
<1>5. IsTable(t) /\ u = Bind(t, a, fd)
  BY <1>1, <1>3
<1> HIDE DEF t, u
<1>6. /\ Known(u) = Known(t) \cup {a}
      /\ u[a].bound_fd = fd
      /\ \A x \in Known(t) :
            /\ u[x].forward = t[x].forward
            /\ u[x].forward_policy = t[x].forward_policy
            /\ u[x].packets_in = t[x].packets_in
            /\ x # a => u[x].bound_fd = t[x].bound_fd
      /\ a \notin Known(t) =>
            u[a].forward = <<>> /\ u[a].forward_policy = "broadcast"
  BY <1>5, BindRoutes
<1> QED
  BY <1>3, <1>4, <1>6 DEF t, u

\* What CONNECT does to the routes.
LEMMA ConnectRoutes ==
    ASSUME TypeOK, NEW p \in Packet, Connect(p)
    PROVE  /\ p.source \in Addr /\ p.target \in Addr
           /\ Known(address_table') = Known(address_table) \cup {p.source}
           /\ \A x \in Known(address_table) :
                /\ address_table'[x].forward =
                      IF x = p.source
                      THEN Append(address_table[x].forward, p.target)
                      ELSE address_table[x].forward
                /\ address_table'[x].forward_policy
                      = address_table[x].forward_policy
                /\ address_table'[x].packets_in = address_table[x].packets_in
                /\ address_table'[x].bound_fd = address_table[x].bound_fd
           /\ p.source \notin Known(address_table) =>
                /\ address_table'[p.source].forward = <<p.target>>
                /\ address_table'[p.source].forward_policy = "broadcast"
                /\ address_table'[p.source].bound_fd = Unbound
<1> DEFINE t == address_table
           u == address_table'
           s == p.source
           d == p.target
<1>1. IsTable(t) /\ s \in Addr /\ d \in Addr /\ u = Link(t, s, d)
  BY PacketKinds DEF TypeOK, IsTable, Connect
<1> HIDE DEF t, u, s, d
<1>2. /\ Known(u) = Known(t) \cup {s}
      /\ \A x \in Known(t) :
            /\ u[x].forward = IF x = s THEN Append(t[x].forward, d)
                              ELSE t[x].forward
            /\ u[x].forward_policy = t[x].forward_policy
            /\ u[x].packets_in = t[x].packets_in
            /\ u[x].bound_fd = t[x].bound_fd
      /\ s \notin Known(t) =>
            /\ u[s].forward = <<d>>
            /\ u[s].forward_policy = "broadcast"
            /\ u[s].bound_fd = Unbound
  BY <1>1, LinkRoutes
<1> QED
  BY <1>1, <1>2 DEF t, u, s, d

\* What POLICY does to the routes.
LEMMA PolicyRoutes ==
    ASSUME TypeOK, NEW p \in Packet, SetPolicy(p)
    PROVE  /\ p.policy \in Policy /\ p.target \in Known(address_table)
           /\ Known(address_table') = Known(address_table)
           /\ \A x \in Known(address_table) :
                /\ address_table'[x].forward = address_table[x].forward
                /\ address_table'[x].forward_policy =
                      IF x = p.target THEN p.policy
                      ELSE address_table[x].forward_policy
                /\ address_table'[x].packets_in = address_table[x].packets_in
                /\ address_table'[x].bound_fd = address_table[x].bound_fd
<1> DEFINE t == address_table
           u == address_table'
           a == p.target
           q == p.policy
<1>1. IsTable(t) /\ a \in Known(t) /\ q \in Policy
      /\ u = WithPolicy(t, a, q)
  BY PacketKinds DEF TypeOK, IsTable, SetPolicy
<1> HIDE DEF t, u, a, q
<1>2. /\ Known(u) = Known(t)
      /\ \A x \in Known(t) :
            /\ u[x].forward = t[x].forward
            /\ u[x].forward_policy = IF x = a THEN q ELSE t[x].forward_policy
            /\ u[x].packets_in = t[x].packets_in
            /\ u[x].bound_fd = t[x].bound_fd
  BY <1>1, SetPolicyRoutes
<1> QED
  BY <1>1, <1>2 DEF t, u, a, q

ContractInv == TypeOK /\ DividesOverEdges /\ NeverFaults

\* Every step that keeps to the contract's order keeps its invariant.
LEMMA ContractStep ==
    ASSUME ContractInv, [OrderedNext]_vars
    PROVE  ContractInv'
<1> USE RouterAssumption DEF ContractInv
<1>1. TypeOK'
  BY TypeStep DEF OrderedNext, Next
<1> SUFFICES DividesOverEdges' /\ NeverFaults'
  BY <1>1
<1>2. IsTable(address_table)
  BY DEF TypeOK, IsTable
<1>3. ASSUME NEW fd \in Fd, NEW p \in Input, InOrder(p), HandlePacket(fd, p)
      PROVE  DividesOverEdges' /\ NeverFaults'
  <2>1. p \in Packet
    OBVIOUS
  <2>2. CASE NewAddress(fd, p)
    <3>2. NeverFaults'
      BY <2>2 DEF NewAddress, Written, NeverFaults
    <3>3. DividesOverEdges'
      BY <2>1, <2>2, NewAddressRoutes DEF DividesOverEdges, Divides
    <3> QED
      BY <3>2, <3>3
  <2>3. CASE Connect(p)
    <3>1. /\ p.source \in Addr /\ p.target \in Addr
      BY <2>1, <2>3, PacketKinds DEF Connect
    <3>2. \A f \in Seq(Addr) : Append(f, p.target) # <<>>
      BY <3>1, AppendNotEmpty
    <3>3. \A x \in Known(address_table) : address_table[x].forward \in Seq(Addr)
      BY <1>2 DEF IsTable, Known, Context
    <3>4. NeverFaults'
      BY <2>3 DEF Connect, Written, NeverFaults
    <3>5. /\ Known(address_table') = Known(address_table) \cup {p.source}
          /\ \A a \in Known(address_table) :
                /\ address_table'[a].forward =
                      IF a = p.source
                      THEN Append(address_table[a].forward, p.target)
                      ELSE address_table[a].forward
                /\ address_table'[a].forward_policy
                      = address_table[a].forward_policy
          /\ p.source \notin Known(address_table) =>
                address_table'[p.source].forward_policy = "broadcast"
      BY <2>1, <2>3, ConnectRoutes
    <3>6. ASSUME NEW a \in Known(address_table'), Divides(address_table'[a])
          PROVE  address_table'[a].forward # <<>>
      <4>1. CASE a = p.source
        BY <3>2, <3>3, <3>5, <3>6, <4>1 DEF Divides
      <4>2. CASE a # p.source
        BY <3>5, <3>6, <4>2 DEF Divides, DividesOverEdges
      <4> QED
        BY <4>1, <4>2
    <3> QED
      BY <3>4, <3>6 DEF DividesOverEdges
  <2>4. CASE SetPolicy(p)
    <3>1. p.policy \in Policy /\ p.target \in Known(address_table)
      BY <2>1, <2>4, PacketKinds DEF SetPolicy
    <3>2. p.policy \in {"anycast", "roundrobin"} =>
              address_table[p.target].forward # <<>>
      BY <1>3, <2>4 DEF InOrder, SetPolicy
    <3>3. NeverFaults'
      BY <1>3, <2>4 DEF InOrder, SetPolicy, NeverFaults
    <3>5. /\ Known(address_table') = Known(address_table)
          /\ \A x \in Known(address_table) :
                /\ address_table'[x].forward = address_table[x].forward
                /\ address_table'[x].forward_policy =
                      IF x = p.target THEN p.policy
                      ELSE address_table[x].forward_policy
      BY <2>1, <2>4, PolicyRoutes
    <3>6. ASSUME NEW a \in Known(address_table), Divides(address_table'[a])
          PROVE  address_table'[a].forward # <<>>
      <4>1. CASE a = p.target
        BY <3>2, <3>5, <3>6, <4>1 DEF Divides
      <4>2. CASE a # p.target
        BY <3>5, <3>6, <4>2 DEF Divides, DividesOverEdges
      <4> QED
        BY <4>1, <4>2
    <3> QED
      BY <3>3, <3>5, <3>6 DEF DividesOverEdges
  <2>5. CASE Ignored(p)
    BY <2>5 DEF Ignored, Written, DividesOverEdges, NeverFaults, Known
  <2>6. ~BadLookup(p)
    BY <1>3 DEF BadLookup, InOrder
  <2>7. ~DivideByZero(p)
    BY DEF DivideByZero, DividesOverEdges
  <2>8. CASE Forward(p)
    <3>1. SameRoutes(address_table, address_table')
      BY <2>1, <2>8, ForwardRoutes
    <3>2. NeverFaults'
      BY <2>8 DEF Forward, Written, NeverFaults
    <3> QED
      BY <3>1, <3>2 DEF SameRoutes, DividesOverEdges, Divides
  <2> QED
    BY <1>3, <2>2, <2>3, <2>4, <2>5, <2>6, <2>7, <2>8 DEF HandlePacket
<1>4. CASE AssertFails
  BY <1>4 DEF AssertFails, DividesOverEdges, NeverFaults, Known, Divides
<1>5. CASE UNCHANGED vars
  BY <1>5 DEF vars, DividesOverEdges, NeverFaults, Known, Divides
<1> QED
  BY <1>3, <1>4, <1>5 DEF OrderedNext

(***************************************************************************)
(* Clients that send data only from known addresses, and divide only over  *)
(* edges that exist, never fault the packet handler.                       *)
(***************************************************************************)
THEOREM ContractHolds == OrderedSpec => []NeverFaults
<1>1. Init => ContractInv
  BY TypeInit DEF Init, ContractInv, DividesOverEdges, NeverFaults, Known
<1> QED
  BY <1>1, ContractStep, PTL DEF OrderedSpec, ContractInv

-----------------------------------------------------------------------------
(* Where copies go.                                                        *)

RoutingInv == TypeOK /\ BoundIsClaimed /\ CopiesFollowEdges

\* Every step keeps the routing invariant,
LEMMA RoutingStep ==
    ASSUME RoutingInv, [Next]_vars
    PROVE  RoutingInv'
<1> USE RouterAssumption
<1>1. TypeOK /\ TypeOK'
  BY TypeStep DEF RoutingInv
<1> SUFFICES BoundIsClaimed' /\ CopiesFollowEdges'
  BY <1>1 DEF RoutingInv
<1>2. \A a \in Known(address_table) :
          address_table[a].bound_fd # Unbound =>
              <<address_table[a].bound_fd, a>> \in claims
  BY DEF RoutingInv, BoundIsClaimed
<1>3. ASSUME NEW fd \in Fd, NEW p \in Input, HandlePacket(fd, p)
      PROVE  BoundIsClaimed' /\ CopiesFollowEdges'
  <2>1. p \in Packet
    OBVIOUS
  <2>2. CASE NewAddress(fd, p)
    <3>1. PICK a \in Addr :
             /\ Known(address_table') = Known(address_table) \cup {a}
             /\ address_table'[a].bound_fd = fd
             /\ \A x \in Known(address_table) :
                   x # a => address_table'[x].bound_fd
                                = address_table[x].bound_fd
             /\ claims' = claims \cup {<<fd, a>>}
             /\ emitted' = {[fd |-> fd, from |-> a, to |-> a, edge |-> 0]}
      BY <1>1, <2>1, <2>2, NewAddressRoutes
    <3>2. BoundIsClaimed'
      BY <1>2, <3>1 DEF BoundIsClaimed
    <3>3. CopiesFollowEdges'
      BY <3>1 DEF CopiesFollowEdges
    <3> QED
      BY <3>2, <3>3
  <2>3. CASE Connect(p)
    <3>1. emitted' = {} /\ claims' = claims
      BY <2>3 DEF Connect, Written
    <3>2. BoundIsClaimed'
      BY <1>1, <1>2, <2>1, <2>3, <3>1, ConnectRoutes DEF BoundIsClaimed
    <3> QED
      BY <3>1, <3>2 DEF CopiesFollowEdges
  <2>4. CASE SetPolicy(p)
    <3>1. emitted' = {} /\ claims' = claims
      BY <2>4 DEF SetPolicy, Written
    <3>2. BoundIsClaimed'
      BY <1>1, <1>2, <2>1, <2>4, <3>1, PolicyRoutes DEF BoundIsClaimed
    <3> QED
      BY <3>1, <3>2 DEF CopiesFollowEdges
  <2>5. CASE Ignored(p) \/ BadLookup(p)
    <3>1. emitted' = {} /\ claims' = claims /\ address_table' = address_table
      BY <2>5 DEF Ignored, BadLookup, Written
    <3> QED
      BY <1>2, <3>1 DEF BoundIsClaimed, CopiesFollowEdges
  <2>6. CASE DivideByZero(p)
    <3>1. emitted' = {} /\ claims' = claims
      BY <2>6 DEF DivideByZero
    <3>2. SameRoutes(address_table, address_table')
      BY <1>1, <2>6, CountInRoutes DEF DivideByZero, TypeOK, IsTable
    <3> QED
      BY <1>2, <3>1, <3>2 DEF BoundIsClaimed, CopiesFollowEdges, SameRoutes
  <2>7. CASE Forward(p)
    <3> DEFINE s == p.source
               ctx == address_table[s]
    <3>1. /\ s \in Known(address_table)
          /\ SameRoutes(address_table, address_table')
      BY <1>1, <2>1, <2>7, ForwardRoutes
    <3>2. PICK chosen :
            /\ chosen \subseteq DOMAIN ctx.forward
            /\ emitted' = Copies(address_table, s,
                                 Live(address_table, s, chosen))
      BY <1>1, <2>1, <2>7, ForwardRoutes
    <3>3. claims' = claims
      BY <2>7 DEF Forward
    <3>4. BoundIsClaimed'
      BY <1>2, <3>1, <3>3 DEF BoundIsClaimed, SameRoutes
    <3>5. ASSUME NEW e \in emitted'
          PROVE  /\ {e.from, e.to} \subseteq Known(address_table)
                 /\ e.edge \in DOMAIN ctx.forward
                 /\ e.from = s /\ ctx.forward[e.edge] = e.to
                 /\ e.fd = address_table[e.to].bound_fd
      BY <3>1, <3>2, <3>5 DEF Copies, Live
    <3>6. CopiesFollowEdges'
      BY <1>2, <3>1, <3>3, <3>5 DEF CopiesFollowEdges, SameRoutes
    <3> QED
      BY <3>4, <3>6
  <2> QED
    BY <1>3, <2>2, <2>3, <2>4, <2>5, <2>6, <2>7 DEF HandlePacket
<1>4. CASE AssertFails \/ UNCHANGED vars
  <2>1. UNCHANGED <<address_table, emitted, claims>>
    BY <1>4 DEF AssertFails, vars
  <2> QED
    BY <2>1 DEF RoutingInv, BoundIsClaimed, CopiesFollowEdges, Known
<1> QED
  BY <1>3, <1>4 DEF Next

\* which holds at the start.
LEMMA RoutingInit == Init => RoutingInv
BY TypeInit DEF Init, RoutingInv, BoundIsClaimed, CopiesFollowEdges, Known

(***************************************************************************)
(* No copy leaves an edge that was not made, or goes to a descriptor that  *)
(* did not claim the target, whatever the table has been through.          *)
(***************************************************************************)
THEOREM RoutesAreClaimed == Spec => []CopiesFollowEdges
BY RoutingInit, RoutingStep, PTL DEF Spec, RoutingInv

(***************************************************************************)
(* A context is bound to a claimant or to nobody.                          *)
(***************************************************************************)
THEOREM BindingsAreClaims == Spec => []BoundIsClaimed
BY RoutingInit, RoutingStep, PTL DEF Spec, RoutingInv

-----------------------------------------------------------------------------
(* Round robin.                                                            *)

\* Two numbers less than k apart have different remainders by k.
LEMMA RemaindersDiffer ==
    ASSUME NEW x \in Nat, NEW y \in Nat, NEW k \in Nat, x < y, y - x < k
    PROVE  x % k # y % k
<1>1. /\ x = k * (x \div k) + (x % k)
      /\ y = k * (y \div k) + (y % k)
      /\ x \div k \in Int /\ y \div k \in Int
  OBVIOUS
<1>2. ASSUME NEW q \in Int, NEW r \in Int, NEW e \in Nat, 0 < e, e < k,
             k * q + e = k * r
      PROVE  FALSE
  BY <1>2
<1>3. ASSUME x % k = y % k
      PROVE  FALSE
  <2>1. k * (x \div k) + (y - x) = k * (y \div k)
    BY <1>1, <1>3
  <2>2. y - x \in Nat /\ 0 < y - x
    OBVIOUS
  <2> QED
    BY <1>1, <1>2, <2>1, <2>2
<1> QED
  BY <1>3

\* When the counters say whose turn it is, no target is given two packets in a turn.
LEMMA TurnsImply ==
    ASSUME TypeOK, TurnsInv
    PROVE  RoundRobinTakesTurns
<1> SUFFICES ASSUME NEW a \in Known(address_table),
                    NEW i \in DOMAIN picks[a], NEW j \in DOMAIN picks[a],
                    i < j, j - i < Len(address_table[a].forward)
             PROVE  picks[a][i] # picks[a][j]
  BY DEF RoundRobinTakesTurns
<1> DEFINE k == Len(address_table[a].forward)
           m == Len(picks[a])
           n == address_table[a].packets_in
<1>1. a \in Addr /\ address_table[a] \in Context /\ picks[a] \in Seq(Nat)
  BY DEF TypeOK, Known
<1>2. k \in Nat /\ n \in Nat /\ m \in Nat /\ DOMAIN picks[a] = 1..m
  BY <1>1 DEF Context
<1>3. picks[a] # <<>>
  BY <1>1
<1>4. /\ k > 0 /\ m <= n
      /\ \A l \in 1..m : picks[a][l] = ((n - (m - l)) % k) + 1
  BY <1>1, <1>3 DEF TurnsInv
<1>5. i \in 1..m /\ j \in 1..m /\ i < j /\ j - i < k
  BY <1>2
<1> HIDE DEF k, m, n
<1> DEFINE x == n - (m - i)
           y == n - (m - j)
<1>6. x \in Nat /\ y \in Nat /\ x < y /\ y - x < k
  <2>1. /\ i \in Nat /\ j \in Nat /\ m \in Nat /\ n \in Nat /\ k \in Nat
        /\ 1 <= i /\ i < j /\ j <= m /\ m <= n
    BY <1>2, <1>4, <1>5
  <2>2. x \in Nat /\ y \in Nat
    BY <2>1
  <2>3. y - x = j - i /\ x < y
    BY <2>1
  <2> QED
    BY <1>5, <2>2, <2>3
<1>7. picks[a][i] = (x % k) + 1 /\ picks[a][j] = (y % k) + 1
  BY <1>4, <1>5
<1> HIDE DEF x, y
<1>8. x % k # y % k
  BY <1>2, <1>6, RemaindersDiffer
<1>9. x % k \in Int /\ y % k \in Int
  BY <1>2, <1>4, <1>6
<1> QED
  BY <1>7, <1>8, <1>9

\* TurnsInv for one address, of any table t and any history q.
Turn(t, q, a) == q[a] # <<>> =>
    /\ a \in Known(t)
    /\ LET ctx == t[a]
           k   == Len(ctx.forward)
           m   == Len(q[a])
       IN  /\ ctx.forward_policy = "roundrobin" /\ k > 0
           /\ m <= ctx.packets_in
           /\ \A i \in 1..m : q[a][i] = ((ctx.packets_in - (m - i)) % k) + 1

\* A context whose edges, policy, counter and picks stay keeps its turn.
LEMMA TurnFrame ==
    ASSUME NEW t, NEW u, NEW q, NEW r, NEW a, Turn(t, q, a), r[a] = q[a],
           a \in Known(t) => /\ a \in Known(u)
                             /\ u[a].forward = t[a].forward
                             /\ u[a].forward_policy = t[a].forward_policy
                             /\ u[a].packets_in = t[a].packets_in
    PROVE  Turn(u, r, a)
BY DEF Turn

\* One more packet, one more pick: the count it is taken from is the new one.
LEMMA TurnNext ==
    ASSUME NEW t, NEW u, NEW q, NEW r, NEW a \in Known(t),
           Turn(t, q, a), t[a] \in Context, q[a] \in Seq(Nat),
           t[a].forward_policy = "roundrobin", t[a].forward # <<>>,
           a \in Known(u),
           u[a].forward = t[a].forward,
           u[a].forward_policy = t[a].forward_policy,
           u[a].packets_in = t[a].packets_in + 1,
           r[a] = Append(q[a], (u[a].packets_in % Len(t[a].forward)) + 1)
    PROVE  Turn(u, r, a)
<1> DEFINE k == Len(t[a].forward)
           m == Len(q[a])
           n == t[a].packets_in
<1>1. k \in Nat /\ k > 0 /\ m \in Nat /\ n \in Nat
  BY DEF Context
<1>2. m <= n /\ \A i \in 1..m : q[a][i] = ((n - (m - i)) % k) + 1
  <2>1. CASE q[a] = <<>>
    BY <1>1, <2>1
  <2>2. CASE q[a] # <<>>
    BY <2>2 DEF Turn
  <2> QED
    BY <2>1, <2>2
<1>3. /\ Len(r[a]) = m + 1
      /\ r[a][m + 1] = ((n + 1) % k) + 1
      /\ \A i \in 1..m : r[a][i] = q[a][i]
  <2>1. (u[a].packets_in % k) + 1 \in Nat
    BY <1>1, Remainder
  <2> QED
    BY <1>1, <2>1
<1>4. Len(u[a].forward) = k /\ u[a].packets_in = n + 1
  OBVIOUS
<1> HIDE DEF k, m, n
<1>5. ASSUME NEW i \in 1..(m + 1)
      PROVE  r[a][i] = (((n + 1) - ((m + 1) - i)) % k) + 1
  <2>1. CASE i = m + 1
    <3>1. (n + 1) - ((m + 1) - i) = n + 1
      BY <1>1, <2>1
    <3> QED
      BY <1>3, <2>1, <3>1
  <2>2. CASE i # m + 1
    <3>1. i \in 1..m /\ (n + 1) - ((m + 1) - i) = n - (m - i)
      BY <1>1, <2>2
    <3> QED
      BY <1>2, <1>3, <3>1
  <2> QED
    BY <2>1, <2>2
<1>6. \A i \in 1..Len(r[a]) :
         r[a][i] = ((u[a].packets_in - (Len(r[a]) - i)) % Len(u[a].forward)) + 1
  BY <1>3, <1>4, <1>5
<1>7. Len(r[a]) <= u[a].packets_in /\ Len(u[a].forward) > 0
  BY <1>1, <1>2, <1>3, <1>4
<1> QED
  BY <1>6, <1>7 DEF Turn

\* Every step keeps the turns,
LEMMA TurnsStep ==
    ASSUME TypeOK, TurnsInv, [Next]_vars
    PROVE  TurnsInv'
<1> SUFFICES ASSUME NEW a \in Addr
             PROVE  Turn(address_table', picks', a)
  BY DEF TurnsInv, Turn
<1>1. Turn(address_table, picks, a)
  BY DEF TurnsInv, Turn
<1>2. IsTable(address_table) /\ picks \in [Addr -> Seq(Nat)]
  BY DEF TypeOK, IsTable
<1>3. ASSUME NEW fd \in Fd, NEW p \in Input, HandlePacket(fd, p)
      PROVE  Turn(address_table', picks', a)
  <2>1. p \in Packet
    BY RouterAssumption
  <2>2. CASE NewAddress(fd, p)
    <3>1. picks' = picks
      BY <2>2 DEF NewAddress
    <3>2. a \in Known(address_table) =>
             /\ a \in Known(address_table')
             /\ address_table'[a].forward = address_table[a].forward
             /\ address_table'[a].forward_policy
                    = address_table[a].forward_policy
             /\ address_table'[a].packets_in = address_table[a].packets_in
      BY <2>1, <2>2, NewAddressRoutes
    <3> QED
      BY <1>1, <3>1, <3>2, TurnFrame
  <2>3. CASE Connect(p)
    <3>1. picks' = [picks EXCEPT ![p.source] = <<>>]
      BY <2>3 DEF Connect
    <3>2. CASE a = p.source
      BY <1>2, <3>1, <3>2 DEF Turn
    <3>3. CASE a # p.source
      <4>1. picks'[a] = picks[a]
        BY <1>2, <3>1, <3>3
      <4>2. a \in Known(address_table) =>
               /\ a \in Known(address_table')
               /\ address_table'[a].forward = address_table[a].forward
               /\ address_table'[a].forward_policy
                      = address_table[a].forward_policy
               /\ address_table'[a].packets_in = address_table[a].packets_in
        BY <2>1, <2>3, <3>3, ConnectRoutes
      <4> QED
        BY <1>1, <4>1, <4>2, TurnFrame
    <3> QED
      BY <3>2, <3>3
  <2>4. CASE SetPolicy(p)
    <3>1. picks' = [picks EXCEPT ![p.target] = <<>>]
      BY <2>4 DEF SetPolicy
    <3>2. CASE a = p.target
      BY <1>2, <3>1, <3>2 DEF Turn
    <3>3. CASE a # p.target
      <4>1. picks'[a] = picks[a]
        BY <1>2, <3>1, <3>3
      <4>2. a \in Known(address_table) =>
               /\ a \in Known(address_table')
               /\ address_table'[a].forward = address_table[a].forward
               /\ address_table'[a].forward_policy
                      = address_table[a].forward_policy
               /\ address_table'[a].packets_in = address_table[a].packets_in
        BY <2>1, <2>4, <3>3, PolicyRoutes
      <4> QED
        BY <1>1, <4>1, <4>2, TurnFrame
    <3> QED
      BY <3>2, <3>3
  <2>5. CASE Ignored(p) \/ BadLookup(p)
    BY <1>1, <2>5 DEF Ignored, BadLookup
  <2>6. CASE DivideByZero(p)
    <3> DEFINE s == p.source
    <3>1. /\ s \in Known(address_table) /\ address_table[s].forward = <<>>
          /\ address_table' = CountIn(address_table, s)
          /\ picks' = picks
      BY <2>6 DEF DivideByZero
    <3>2. CASE a = s
      BY <1>1, <3>1, <3>2 DEF Turn
    <3>3. CASE a # s
      <4>1. a \in Known(address_table) =>
               /\ a \in Known(address_table')
               /\ address_table'[a].forward = address_table[a].forward
               /\ address_table'[a].forward_policy
                      = address_table[a].forward_policy
               /\ address_table'[a].packets_in = address_table[a].packets_in
        BY <1>2, <3>1, <3>3, CountInRoutes DEF SameRoutes
      <4> QED
        BY <1>1, <3>1, <4>1, TurnFrame
    <3> QED
      BY <3>2, <3>3
  <2>7. CASE Forward(p)
    <3> DEFINE s   == p.source
               ctx == address_table[s]
               n   == ctx.packets_in + 1
    <3>1. /\ s \in Known(address_table)
          /\ SameRoutes(address_table, address_table')
          /\ \A x \in Known(address_table) :
               address_table'[x].packets_in =
                   IF x = s THEN n ELSE address_table[x].packets_in
      BY <2>1, <2>7, ForwardRoutes
    <3>2. PICK chosen \in Selections(ctx, n) :
            picks' = IF ctx.forward_policy = "roundrobin"
                     THEN [picks EXCEPT ![s] =
                             Append(@, CHOOSE i \in chosen : TRUE)]
                     ELSE picks
      BY <2>1, <2>7, ForwardRoutes
    <3>3. CASE a # s
      <4>1. picks'[a] = picks[a]
        BY <1>2, <3>2, <3>3
      <4>2. a \in Known(address_table) =>
               /\ a \in Known(address_table')
               /\ address_table'[a].forward = address_table[a].forward
               /\ address_table'[a].forward_policy
                      = address_table[a].forward_policy
               /\ address_table'[a].packets_in = address_table[a].packets_in
        BY <3>1, <3>3 DEF SameRoutes
      <4> QED
        BY <1>1, <4>1, <4>2, TurnFrame
    <3>4. CASE a = s /\ ctx.forward_policy # "roundrobin"
      BY <1>1, <3>2, <3>4 DEF Turn
    <3>5. CASE a = s /\ ctx.forward_policy = "roundrobin"
      <4>1. chosen = {(n % Len(ctx.forward)) + 1}
        BY <3>2, <3>5 DEF Selections
      <4>2. picks'[a] = Append(picks[a], (n % Len(ctx.forward)) + 1)
        BY <1>2, <3>2, <3>5, <4>1
      <4>3. ctx \in Context /\ picks[a] \in Seq(Nat)
        BY <1>2, <3>1 DEF IsTable, Known
      <4>4. ctx.forward # <<>>
        BY <2>7, <3>5 DEF Forward, Divides
      <4>5. /\ a \in Known(address_table')
            /\ address_table'[a].forward = address_table[a].forward
            /\ address_table'[a].forward_policy
                   = address_table[a].forward_policy
            /\ address_table'[a].packets_in = n
        BY <3>1, <3>5 DEF SameRoutes
      <4> QED
        BY <1>1, <3>1, <3>5, <4>2, <4>3, <4>4, <4>5, TurnNext
    <3> QED
      BY <3>3, <3>4, <3>5
  <2> QED
    BY <1>3, <2>2, <2>3, <2>4, <2>5, <2>6, <2>7 DEF HandlePacket
<1>4. CASE AssertFails \/ UNCHANGED vars
  BY <1>1, <1>4 DEF AssertFails, vars
<1> QED
  BY <1>3, <1>4 DEF Next

\* which hold at the start.
LEMMA TurnsInit == Init => TurnsInv
BY DEF Init, TurnsInv

(***************************************************************************)
(* Round robin is fair for any number of edges and of packets: while a     *)
(* source is not reconfigured, no two of any Len(forward) packets in a row *)
(* take the same edge.                                                     *)
(***************************************************************************)
THEOREM RoundRobinIsFair == Spec => []RoundRobinTakesTurns
BY TypeInit, TypeStep, TurnsInit, TurnsStep, TurnsImply, PTL DEF Spec

-----------------------------------------------------------------------------
(* The table grows.                                                        *)

\* A sequence is a prefix of itself,
LEMMA PrefixOfItself ==
    ASSUME NEW S, NEW f \in Seq(S)
    PROVE  IsPrefix(f, f)
BY DEF IsPrefix

\* and of itself with one element more.
LEMMA PrefixOfAppend ==
    ASSUME NEW S, NEW f \in Seq(S), NEW d \in S
    PROVE  IsPrefix(f, Append(f, d))
BY DEF IsPrefix

\* No step takes an address or an edge from the table.
LEMMA GrowsStep ==
    ASSUME TypeOK, Next
    PROVE  TableGrows
<1> USE RouterAssumption
<1>1. ASSUME NEW a \in Known(address_table)
      PROVE  address_table[a].forward \in Seq(Addr)
  BY DEF TypeOK, Known, Context
<1>2. \A a \in Known(address_table) :
          IsPrefix(address_table[a].forward, address_table[a].forward)
  BY <1>1, PrefixOfItself
<1>3. IsTable(address_table)
  BY DEF TypeOK, IsTable
<1>4. ASSUME NEW fd \in Fd, NEW p \in Input, HandlePacket(fd, p)
      PROVE  TableGrows
  <2>1. p \in Packet
    OBVIOUS
  <2>2. CASE NewAddress(fd, p)
    <3>1. fd # Unbound
      BY DEF Unbound
    <3> QED
      BY <1>2, <2>1, <2>2, <3>1, NewAddressRoutes DEF TableGrows
  <2>3. CASE Connect(p)
    <3>1. p.target \in Addr
      BY <2>1, <2>3, ConnectRoutes
    <3>2. \A a \in Known(address_table) :
             IsPrefix(address_table[a].forward,
                      Append(address_table[a].forward, p.target))
      BY <1>1, <3>1, PrefixOfAppend
    <3> QED
      BY <1>2, <2>1, <2>3, <3>2, ConnectRoutes DEF TableGrows
  <2>4. CASE SetPolicy(p)
    BY <1>2, <2>1, <2>4, PolicyRoutes DEF TableGrows
  <2>5. CASE Ignored(p) \/ BadLookup(p)
    BY <1>2, <2>5 DEF Ignored, BadLookup, TableGrows, Known
  <2>6. CASE DivideByZero(p)
    <3>1. SameRoutes(address_table, address_table')
      BY <1>3, <2>6, CountInRoutes DEF DivideByZero
    <3> QED
      BY <1>2, <3>1 DEF SameRoutes, TableGrows
  <2>7. CASE Forward(p)
    <3>1. SameRoutes(address_table, address_table')
      BY <2>1, <2>7, ForwardRoutes
    <3> QED
      BY <1>2, <3>1 DEF SameRoutes, TableGrows
  <2> QED
    BY <1>4, <2>2, <2>3, <2>4, <2>5, <2>6, <2>7 DEF HandlePacket
<1>5. CASE AssertFails
  BY <1>2, <1>5 DEF AssertFails, TableGrows, Known
<1> QED
  BY <1>4, <1>5 DEF Next

(***************************************************************************)
(* No packet ever takes back an address, an edge, its place among the      *)
(* edges, or the ownership of an address.                                  *)
(***************************************************************************)
THEOREM GrowsForever == Spec => TableOnlyGrows
<1>1. TypeOK /\ [Next]_vars => [TableGrows]_vars
  BY GrowsStep
<1> QED
  BY <1>1, TypeCorrect, PTL DEF Spec, TableOnlyGrows

-----------------------------------------------------------------------------
(* The packet handler implements the fabric.                               *)

\* Tables with the same routes stand for the same fabric.
LEMMA SameFabric ==
    ASSUME SameRoutes(address_table, address_table')
    PROVE  /\ TableOwner' = TableOwner
           /\ TableEdges' = TableEdges
           /\ TableFanout' = TableFanout
BY DEF SameRoutes, TableOwner, TableEdges, TableFanout

\* A data packet that goes nowhere, from a source without edges.
LEMMA NothingToCarry ==
    ASSUME NEW s \in Addr, handled'.kind = "data", handled'.source = s,
           emitted' = {}, TableEdges[s] = <<>>,
           TableOwner' = TableOwner, TableEdges' = TableEdges,
           TableFanout' = TableFanout
    PROVE  F!Carry(s)
<1>1. F!Open(s) = {}
  BY DEF F!Open
<1>2. {} \in F!Selections(s)
  BY <1>1 DEF F!Selections
<1>3. LastCarried' = {} /\ LastSender' = s
  BY DEF LastCarried, LastSender
<1> QED
  BY <1>2, <1>3 DEF F!Carry

\* A data packet that leaves along a selection of its source's policy.
LEMMA ForwardCarries ==
    ASSUME TypeOK, NEW p \in Packet, handled' = p, Forward(p)
    PROVE  F!Carry(p.source)
<1> DEFINE s   == p.source
           ctx == address_table[s]
           n   == ctx.packets_in + 1
<1>1. s \in Known(address_table) /\ SameRoutes(address_table, address_table')
  BY ForwardRoutes
<1>2. PICK chosen \in Selections(ctx, n) :
        /\ chosen \subseteq DOMAIN ctx.forward
        /\ emitted' = Copies(address_table, s, Live(address_table, s, chosen))
  BY ForwardRoutes
<1>3. s \in Addr /\ ctx \in Context
  BY <1>1 DEF TypeOK, Known
<1>4. /\ TableEdges[s] = ctx.forward
      /\ TableFanout[s] = Mode(ctx.forward_policy)
  BY <1>1, <1>3 DEF TableEdges, TableFanout
<1>5. \A i \in DOMAIN ctx.forward : ctx.forward[i] \in Addr
  BY <1>3 DEF Context
<1> DEFINE taken == {i \in Live(address_table, s, chosen) :
                        address_table[ctx.forward[i]].bound_fd # Unbound}
<1>6. ASSUME NEW i \in DOMAIN ctx.forward
      PROVE  TableOwner[ctx.forward[i]] =
                IF ctx.forward[i] \in Known(address_table)
                THEN address_table[ctx.forward[i]].bound_fd ELSE Unbound
  BY <1>5 DEF TableOwner
<1>7. taken = {i \in chosen : TableOwner[ctx.forward[i]] # Unbound}
  BY <1>2, <1>6 DEF Live
<1>8. F!Open(s) = {i \in DOMAIN ctx.forward :
                      TableOwner[ctx.forward[i]] # Unbound}
  BY <1>4 DEF F!Open, F!Unbound, Unbound
<1>9. taken \subseteq F!Open(s)
  BY <1>2, <1>7, <1>8
<1>10. taken \in F!Selections(s)
  <2>1. CASE ctx.forward_policy = "broadcast"
    <3>1. chosen = DOMAIN ctx.forward
      BY <1>2, <2>1 DEF Selections
    <3>2. taken = F!Open(s)
      BY <1>7, <1>8, <3>1
    <3>3. TableFanout[s] = "all"
      BY <1>4, <2>1 DEF Mode
    <3> QED
      BY <3>2, <3>3 DEF F!Selections
  <2>2. CASE ctx.forward_policy \in {"anycast", "roundrobin"}
    <3>1. \A i, j \in chosen : i = j
      BY <1>2, <2>2 DEF Selections
    <3>2. \A i, j \in taken : i = j
      BY <1>7, <3>1
    <3>3. TableFanout[s] = "one"
      BY <1>4, <2>2 DEF Mode
    <3> HIDE DEF taken
    <3> QED
      BY <1>9, <3>2, <3>3 DEF F!Selections
  <2>3. CASE ctx.forward_policy = "bad"
    <3>1. taken = {}
      BY <1>2, <1>7, <2>3 DEF Selections
    <3>2. TableFanout[s] = "none"
      BY <1>4, <2>3 DEF Mode
    <3> HIDE DEF taken
    <3> QED
      BY <1>9, <3>1, <3>2 DEF F!Selections
  <2> QED
    BY <1>3, <2>1, <2>2, <2>3 DEF Context, Policy
<1>11. LastCarried' = {[fd |-> TableOwner[TableEdges[s][i]], from |-> s,
                        to |-> TableEdges[s][i], edge |-> i] : i \in taken}
  <2>1. LastCarried' = {[fd |-> address_table[ctx.forward[i]].bound_fd,
                         from |-> s, to |-> ctx.forward[i], edge |-> i] :
                            i \in taken}
    BY <1>2 DEF LastCarried, Copies
  <2>2. \A i \in taken : /\ TableOwner[ctx.forward[i]]
                                = address_table[ctx.forward[i]].bound_fd
    BY <1>2, <1>6 DEF Live
  <2> HIDE DEF taken
  <2> QED
    BY <1>4, <2>1, <2>2
<1>12. LastSender' = s
  BY DEF LastSender, Forward
<1> HIDE DEF taken
<1> QED
  BY <1>1, <1>10, <1>11, <1>12, SameFabric DEF F!Carry

\* Each step of the router is a step of the fabric, or none.
LEMMA FabricStep ==
    ASSUME TypeOK, TypeOK', [Next]_vars
    PROVE  [F!FNext]_(F!fabric)
<1> USE RouterAssumption
<1>1. ASSUME NEW fd \in Fd, NEW p \in Input, HandlePacket(fd, p)
      PROVE  F!FNext
  <2>1. p \in Packet /\ handled' = p
    BY <1>1 DEF HandlePacket
  <2>2. p.kind # "data" => LastSender' = F!Nobody
    BY <2>1 DEF LastSender, F!Nobody
  <2>3. emitted' = {} => LastCarried' = {}
    BY DEF LastCarried
  <2>4. CASE NewAddress(fd, p)
    <3>1. PICK a \in Addr :
             /\ Known(address_table') = Known(address_table) \cup {a}
             /\ address_table'[a].bound_fd = fd
             /\ \A x \in Known(address_table) :
                /\ address_table'[x].forward = address_table[x].forward
                /\ address_table'[x].forward_policy
                      = address_table[x].forward_policy
                /\ x # a => address_table'[x].bound_fd
                                = address_table[x].bound_fd
             /\ a \notin Known(address_table) =>
                  /\ address_table'[a].forward = <<>>
                  /\ address_table'[a].forward_policy = "broadcast"
             /\ emitted' = {[fd |-> fd, from |-> a, to |-> a, edge |-> 0]}
      BY <2>1, <2>4, NewAddressRoutes
    <3>2. TableOwner' = [TableOwner EXCEPT ![a] = fd]
      BY <3>1 DEF TableOwner
    <3>3. TableEdges' = TableEdges
      BY <3>1 DEF TableEdges
    <3>4. TableFanout' = TableFanout
      BY <3>1 DEF TableFanout, Mode
    <3>5. fd # Unbound
      BY DEF Unbound
    <3>6. LastCarried' = {[fd |-> fd, from |-> a, to |-> a, edge |-> 0]}
      BY <3>1, <3>5 DEF LastCarried
    <3>7. p.kind = "new_address"
      BY <2>4 DEF NewAddress
    <3> QED
      BY <2>2, <3>2, <3>3, <3>4, <3>6, <3>7 DEF F!FNext, F!Own
  <2>5. CASE Connect(p)
    <3> DEFINE s == p.source
               d == p.target
    <3>1. /\ s \in Addr /\ d \in Addr
          /\ Known(address_table') = Known(address_table) \cup {s}
          /\ \A x \in Known(address_table) :
                /\ address_table'[x].forward =
                      IF x = s THEN Append(address_table[x].forward, d)
                      ELSE address_table[x].forward
                /\ address_table'[x].forward_policy
                      = address_table[x].forward_policy
                /\ address_table'[x].bound_fd = address_table[x].bound_fd
          /\ s \notin Known(address_table) =>
                /\ address_table'[s].forward = <<d>>
                /\ address_table'[s].forward_policy = "broadcast"
                /\ address_table'[s].bound_fd = Unbound
      BY <2>1, <2>5, ConnectRoutes
    <3> HIDE DEF s, d
    <3>2. TableOwner' = TableOwner
      BY <3>1 DEF TableOwner
    <3>3. TableFanout' = TableFanout
      BY <3>1 DEF TableFanout, Mode
    <3>4. Append(<<>>, d) = <<d>>
      OBVIOUS
    <3>5. TableEdges' = [TableEdges EXCEPT ![s] = Append(@, d)]
      BY <3>1, <3>4 DEF TableEdges
    <3>6. p.kind = "connect" /\ emitted' = {}
      BY <2>5 DEF Connect, Written
    <3> QED
      BY <2>2, <2>3, <3>1, <3>2, <3>3, <3>5, <3>6 DEF F!FNext, F!Join, F!Quiet
  <2>6. CASE SetPolicy(p)
    <3> DEFINE a == p.target
    <3>1. /\ a \in Known(address_table)
          /\ Known(address_table') = Known(address_table)
          /\ \A x \in Known(address_table) :
                /\ address_table'[x].forward = address_table[x].forward
                /\ address_table'[x].forward_policy =
                      IF x = a THEN p.policy ELSE address_table[x].forward_policy
                /\ address_table'[x].bound_fd = address_table[x].bound_fd
      BY <2>1, <2>6, PolicyRoutes
    <3>2. a \in Addr
      BY <3>1 DEF TypeOK
    <3> HIDE DEF a
    <3>3. TableOwner' = TableOwner /\ TableEdges' = TableEdges
      BY <3>1 DEF TableOwner, TableEdges
    <3>4. TableFanout' = [TableFanout EXCEPT ![a] = Mode(p.policy)]
      BY <3>1, <3>2 DEF TableFanout
    <3>5. Mode(p.policy) \in {"all", "one", "none"}
      BY DEF Mode
    <3>6. p.kind = "policy" /\ emitted' = {}
      BY <2>6 DEF SetPolicy, Written
    <3> QED
      BY <2>2, <2>3, <3>2, <3>3, <3>4, <3>5, <3>6
         DEF F!FNext, F!SetFanout, F!Quiet
  <2>7. CASE Ignored(p) \/ BadLookup(p)
    <3>1. emitted' = {} /\ address_table' = address_table
      BY <2>7 DEF Ignored, BadLookup, Written
    <3>2. /\ TableOwner' = TableOwner
          /\ TableEdges' = TableEdges
          /\ TableFanout' = TableFanout
      BY <3>1 DEF TableOwner, TableEdges, TableFanout
    <3>3. CASE p.kind = "data"
      <4>1. p.source \in Addr /\ p.source \notin Known(address_table)
        BY <2>1, <2>7, <3>3, PacketKinds DEF Ignored, BadLookup
      <4>2. TableEdges[p.source] = <<>>
        BY <4>1 DEF TableEdges
      <4>3. F!Carry(p.source)
        BY <2>1, <3>1, <3>2, <3>3, <4>1, <4>2, NothingToCarry
      <4> QED
        BY <4>1, <4>3 DEF F!FNext
    <3>4. CASE p.kind # "data"
      BY <2>2, <2>3, <3>1, <3>2, <3>4 DEF F!FNext, F!Idle, F!Quiet
    <3> QED
      BY <3>3, <3>4
  <2>8. CASE DivideByZero(p)
    <3>1. /\ p.kind = "data" /\ p.source \in Known(address_table)
          /\ address_table[p.source].forward = <<>>
          /\ address_table' = CountIn(address_table, p.source)
          /\ emitted' = {}
      BY <2>8 DEF DivideByZero
    <3>2. SameRoutes(address_table, address_table')
      BY <3>1, CountInRoutes DEF TypeOK, IsTable
    <3>3. p.source \in Addr /\ TableEdges[p.source] = <<>>
      BY <3>1 DEF TypeOK, TableEdges
    <3>4. F!Carry(p.source)
      BY <2>1, <3>1, <3>2, <3>3, SameFabric, NothingToCarry
    <3> QED
      BY <3>3, <3>4 DEF F!FNext
  <2>9. CASE Forward(p)
    <3>1. F!Carry(p.source)
      BY <2>1, <2>9, ForwardCarries
    <3>2. p.source \in Addr
      BY <2>1, <2>9, PacketKinds DEF Forward
    <3> QED
      BY <3>1, <3>2 DEF F!FNext
  <2> QED
    BY <1>1, <2>4, <2>5, <2>6, <2>7, <2>8, <2>9 DEF HandlePacket
<1>2. CASE AssertFails \/ UNCHANGED vars
  <2>1. UNCHANGED <<address_table, handled, emitted>>
    BY <1>2 DEF AssertFails, vars
  <2> QED
    BY <2>1 DEF F!fabric, TableOwner, TableEdges, TableFanout, LastSender,
                LastCarried
<1> QED
  BY <1>1, <1>2 DEF Next

\* The router starts as the fabric does.
LEMMA FabricInit == Init => F!FInit
BY DEF Init, F!FInit, TableOwner, TableEdges, TableFanout, LastSender,
       LastCarried, NoPacket, Known, F!Unbound, Unbound, F!Nobody

(***************************************************************************)
(* The packet handler implements the fabric, for any number of addresses,  *)
(* clients and edges.                                                      *)
(***************************************************************************)
THEOREM RouterImplementsFabric == Spec => ImplementsFabric
BY FabricInit, FabricStep, TypeCorrect, PTL
   DEF Spec, ImplementsFabric, F!FSpec

=============================================================================
