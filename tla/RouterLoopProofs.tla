-------------------------- MODULE RouterLoopProofs --------------------------
(***************************************************************************)
(* Theorems about the router process: its tables, the streams of its       *)
(* clients and who can end the process, for every set of connections and   *)
(* descriptors, every script and every bound; and about shell scripts that *)
(* configure it, whatever their lines.                                     *)
(***************************************************************************)
EXTENDS RouterLoop, Commands, RouterProofs, StreamLemmas

-----------------------------------------------------------------------------
(* Descriptors and slots.                                                  *)

\* accept gives a descriptor that nothing is behind.
LEMMA NewFdIsFree ==
    ASSUME Free # {}
    PROVE  NewFd \in Fd /\ descriptor[NewFd] = Nil
<1>1. Free \subseteq Nat
  BY RouterAssumption DEF Free
<1> QED
  BY <1>1, MinIsLeast DEF NewFd, Free

\* The slot it is put into is an empty one.
LEMMA EmptySlotIsFree ==
    ASSUME EmptySlots # {}
    PROVE  Min(EmptySlots) \in Slot /\ poll_list[Min(EmptySlots)] = NoFd
<1>1. EmptySlots \subseteq Nat
  BY LoopAssumption DEF EmptySlots, Slot
<1> QED
  BY <1>1, MinIsLeast DEF EmptySlots

\* NoFd is no descriptor.
LEMMA NoFdIsNone == NoFd \notin Fd
BY RouterAssumption DEF NoFd

-----------------------------------------------------------------------------
(* Cells.                                                                  *)

\* A packet has at least one cell: its header.
LEMMA CellsPositive ==
    ASSUME NEW p
    PROVE  Cells(p) \in Nat /\ Cells(p) >= 1
BY LoopAssumption DEF Cells

\* A packet is as many cells as it has, numbered.
LEMMA PacketCellsShape ==
    ASSUME NEW c \in Conn, NEW n \in Nat
    PROVE  /\ PacketCells(c, n) \in Seq(Cell)
           /\ Len(PacketCells(c, n)) = Cells(Script[c][n])
           /\ PacketCells(c, n)[1] = [conn |-> c, packet |-> n, part |-> 1]
<1>1. PICK k \in Nat : k = Cells(Script[c][n]) /\ k >= 1
  BY CellsPositive
<1>2. PacketCells(c, n) = [i \in 1..k |-> [conn |-> c, packet |-> n, part |-> i]]
  BY <1>1 DEF PacketCells
<1>3. \A i \in 1..k : [conn |-> c, packet |-> n, part |-> i] \in Cell
  BY <1>1 DEF Cell
<1> QED
  BY <1>1, <1>2, <1>3

\* The cells of a packet are a sequence of cells.
LEMMA PacketCellsType ==
    ASSUME NEW c \in Conn, NEW n \in Nat
    PROVE  PacketCells(c, n) \in Seq(Cell)
BY PacketCellsShape

\* Every packet of a script is an input of the packet handler.
LEMMA ScriptedIsInput ==
    ASSUME NEW c \in Conn, NEW n \in 1..Len(Script[c])
    PROVE  Script[c][n] \in Input
<1>1. Script[c] \in Seq(Input)
  BY LoopAssumption
<1> QED
  BY <1>1, ElementOfSeq

-----------------------------------------------------------------------------
(* The order of the writes of one call.                                    *)

\* The emissions of one call: finitely many, on edges of their own.
Distinct(out) ==
    /\ IsFiniteSet(out)
    /\ \A e \in out : e.edge \in Nat
    /\ \A e, f \in out : e.edge = f.edge => e = f

\* Such a set has an order by edges.
LEMMA OrderExists ==
    ASSUME NEW out, Distinct(out)
    PROVE  \E q \in [1..Cardinality(out) -> out] :
              \A i, j \in DOMAIN q : i < j => q[i].edge < q[j].edge
<1> DEFINE E == {e.edge : e \in out}
           f == [e \in out |-> e.edge]
           m == Cardinality(out)
<1>1. E \in SUBSET Nat
  BY DEF Distinct
<1>2. f \in Bijection(out, E)
  BY DEF Distinct, Bijection, Injection, Surjection, IsInjective
<1>3. IsFiniteSet(E) /\ Cardinality(E) = m
  <2> HIDE DEF f, E
  <2>1. ExistsBijection(out, E)
    BY <1>2 DEF ExistsBijection
  <2> QED
    BY <2>1, FS_Bijection DEF Distinct
<1>4. PICK r \in [1..m -> E] : \A i, j \in DOMAIN r : i < j => r[i] < r[j]
  <2> HIDE DEF E
  <2> QED
    BY <1>1, <1>3, NumbersInOrder
<1> DEFINE q == [i \in 1..m |-> CHOOSE e \in out : e.edge = r[i]]
<1>5. \A i \in 1..m : q[i] \in out /\ q[i].edge = r[i]
  BY <1>4
<1>6. q \in [1..m -> out] /\ DOMAIN q = 1..m
  BY <1>5
<1>7. \A i, j \in 1..m : i < j => q[i].edge < q[j].edge
  BY <1>4, <1>5
<1> HIDE DEF q
<1> QED
  BY <1>6, <1>7

\* The order in which Deliver takes them.
LEMMA ByEdgeOrders ==
    ASSUME NEW out, Distinct(out)
    PROVE  /\ ByEdge(out) \in [1..Cardinality(out) -> out]
           /\ \A i, j \in 1..Cardinality(out) :
                 i < j => ByEdge(out)[i].edge < ByEdge(out)[j].edge
BY OrderExists DEF ByEdge

-----------------------------------------------------------------------------
(* The inductive invariant.                                                *)

OnDescriptor(c) == \E fd \in Fd : descriptor[fd] = c

\* Connections wait once, and are not on a descriptor yet; those that wait or
\* are on one have been made and not been dropped.
Waiting ==
    /\ \A k, l \in DOMAIN backlog : backlog[k] = backlog[l] => k = l
    /\ \A k \in DOMAIN backlog : ~ OnDescriptor(backlog[k])
    /\ \A k \in DOMAIN backlog : peer[backlog[k]] \notin {"new", "dropped"}
    /\ \A fd \in Fd : descriptor[fd] # Nil =>
          peer[descriptor[fd]] \notin {"new", "dropped"}

\* The first m packets of c's script, as cells.
Upto(c, m) == Stream(c, [n \in 1..m |-> n])

\* What was handled of a connection is the front of what it sent.
TakenInOrder ==
    \A c \in Conn :
        /\ taken[c] = [k \in 1..Len(taken[c]) |-> k]
        /\ Len(taken[c]) <= sent[c] /\ sent[c] <= Len(Script[c])

\* Of a connection that waits nothing has been read.
UnreadWhileWaiting ==
    \A c \in Conn : (~ OnDescriptor(c) /\ peer[c] # "dropped") =>
        taken[c] = <<>> /\ wire[c] = Upto(c, sent[c])

\* Every packet written to a client was handled, in the order of the script, and
\* the copies of one packet in the order of its edges.
DeliveredInOrder ==
    /\ InOrderDelivery
    /\ \A d \in Conn : \A k \in DOMAIN inbox[d] :
          inbox[d][k].packet \in 1..Len(taken[inbox[d][k].conn])

\* Who an address is bound to: a client that claimed it and knows, or one that
\* claimed it and has left, or will not hear of it any more.
ClaimantKnown(a) ==
    \E d \in Conn :
        /\ Claimed(d, a)
        /\ \/ peer[d] = "dropped"
           \/ /\ descriptor[address_table[a].bound_fd] = d
              /\ peer[d] = "up" => Owns(d, a)
BoundToClaimants ==
    status = "running" =>
        \A a \in Known(address_table) :
            address_table[a].bound_fd # Unbound => ClaimantKnown(a)

LoopInv ==
    /\ TypeOK /\ TablesAgree /\ Waiting
    /\ TakenInOrder /\ UnreadWhileWaiting /\ StreamIntact
    /\ DeliveredInOrder /\ BoundToClaimants /\ StrangersOnlyAfterReuse
    /\ OnlyReceiversBreakPipes

-----------------------------------------------------------------------------
(* Streams of packets.                                                     *)

Blocks(c, m) == [k \in 1..m |-> PacketCells(c, k)]

\* The first m packets are the flattened blocks of each.
LEMMA UptoIsBlocks ==
    ASSUME NEW c \in Conn, NEW m \in Nat
    PROVE  /\ Upto(c, m) = FlattenSeq(Blocks(c, m))
           /\ Blocks(c, m) \in Seq(Seq(Cell))
           /\ Upto(c, m) \in Seq(Cell)
<1>1. Upto(c, m) = FlattenSeq(Blocks(c, m))
  <2> DEFINE w == [n \in 1..m |-> n]
  <2>1. DOMAIN w = 1..m /\ \A k \in 1..m : w[k] = k
    OBVIOUS
  <2> HIDE DEF w
  <2>2. [k \in DOMAIN w |-> PacketCells(c, w[k])] = [k \in 1..m |-> PacketCells(c, k)]
    BY <2>1
  <2> QED
    BY <2>2 DEF Upto, Stream, Blocks, w
<1>2. ASSUME NEW k \in 1..m
      PROVE  PacketCells(c, k) \in Seq(Cell)
  <2>1. k \in Nat
    OBVIOUS
  <2> QED
    BY <2>1, PacketCellsType
<1>3. Blocks(c, m) \in Seq(Seq(Cell))
  BY <1>2 DEF Blocks
<1> QED
  BY <1>1, <1>3, FlattenType

\* One packet more.
LEMMA UptoNext ==
    ASSUME NEW c \in Conn, NEW m \in Nat
    PROVE  Upto(c, m + 1) = Cat(Upto(c, m), PacketCells(c, m + 1))
<1>1. Blocks(c, m + 1) = Append(Blocks(c, m), PacketCells(c, m + 1))
  <2> DEFINE p(k) == PacketCells(c, k)
             b == [k \in 1..m |-> p(k)]
             d == [k \in 1..m + 1 |-> p(k)]
  <2> HIDE DEF p
  <2>1. d = Append(b, p(m + 1))
    OBVIOUS
  <2> QED
    BY <2>1 DEF Blocks, p
<1>2. Blocks(c, m) \in Seq(Seq(Cell))
  BY UptoIsBlocks
<1>4. m + 1 \in Nat
  OBVIOUS
<1>5. PacketCells(c, m + 1) \in Seq(Cell)
  BY <1>4, PacketCellsType
<1>3. FlattenSeq(Append(Blocks(c, m), PacketCells(c, m + 1)))
        = FlattenSeq(Blocks(c, m)) \o PacketCells(c, m + 1)
  BY <1>2, <1>5, FlattenAppend
<1>6. /\ Upto(c, m) = FlattenSeq(Blocks(c, m))
      /\ Upto(c, m + 1) = FlattenSeq(Blocks(c, m + 1))
  BY <1>4, UptoIsBlocks
<1> QED
  BY <1>1, <1>3, <1>6 DEF Cat

\* Before the first packet there is nothing.
LEMMA UptoNone ==
    ASSUME NEW c \in Conn
    PROVE  Upto(c, 0) = <<>>
<1>1. Blocks(c, 0) = <<>>
  BY DEF Blocks
<1> QED
  BY <1>1, UptoIsBlocks, FlattenEmpty

\* What comes after the first j packets begins with packet j + 1.
LEMMA UptoFront ==
    ASSUME NEW c \in Conn, NEW j \in Nat, NEW m \in Nat, j < m
    PROVE  \E rest \in Seq(Cell) :
              Upto(c, m) = Cat(Upto(c, j), Cat(PacketCells(c, j + 1), rest))
<1> DEFINE Begins(i) == \E rest \in Seq(Cell) :
                 Upto(c, i) = Cat(Upto(c, j), Cat(PacketCells(c, j + 1), rest))
           T == {i \in Nat : j < i => Begins(i)}
<1>1. 0 \in T
  OBVIOUS
<1>2. ASSUME NEW i \in Nat, i \in T
      PROVE  i + 1 \in T
  <2> HIDE DEF Begins
  <2> SUFFICES ASSUME j < i + 1
               PROVE  Begins(i + 1)
    OBVIOUS
  <2> USE DEF Begins
  <2> DEFINE p == PacketCells(c, i + 1)
  <2>1. Upto(c, i + 1) = Cat(Upto(c, i), p)
    BY UptoNext
  <2>2. p \in Seq(Cell)
    <3>1. i + 1 \in Nat
      OBVIOUS
    <3> QED
      BY <3>1, PacketCellsType
  <2>3. CASE j = i
    <3>1. Cat(p, <<>>) = p /\ <<>> \in Seq(Cell)
      BY <2>2, CatNothing
    <3>2. Upto(c, i + 1) = Cat(Upto(c, j), Cat(PacketCells(c, j + 1), <<>>))
      BY <2>1, <2>3, <3>1
    <3> QED
      BY <3>1, <3>2
  <2>4. CASE j < i
    <3>1. PICK rest \in Seq(Cell) :
             Upto(c, i) = Cat(Upto(c, j), Cat(PacketCells(c, j + 1), rest))
      BY <1>2, <2>4
    <3> DEFINE u == Upto(c, j)
               q == PacketCells(c, j + 1)
    <3>2. u \in Seq(Cell) /\ q \in Seq(Cell) /\ rest \in Seq(Cell)
      <4>1. j + 1 \in Nat
        OBVIOUS
      <4> QED
        BY <3>1, <4>1, PacketCellsType, UptoIsBlocks
    <3> HIDE DEF u, q, p
    <3>3. Upto(c, i) = Cat(u, Cat(q, rest))
      BY <3>1 DEF u, q
    <3>4. \E more \in Seq(Cell) : Cat(Upto(c, i), p) = Cat(u, Cat(q, more))
      BY <2>2, <3>2, <3>3, Prolong
    <3> QED
      BY <2>1, <3>4 DEF u, q
  <2> QED
    BY <2>3, <2>4
<1> HIDE DEF T
<1>3. \A i \in Nat : i \in T
  BY <1>1, <1>2, SetInduction
<1>4. m \in T
  BY <1>3
<1> QED
  BY <1>4 DEF T

\* The packet at the front of a buffer b, once the first n of the w cells in the
\* socket are read into it: it is the next one of the client's script, and what
\* is left over is the stream from there on.
Got(b, w, n) == Cat(b, SubSeq(w, 1, n))
Unread(w, n) == SubSeq(w, n + 1, Len(w))

\* gnw_nextPacket finds packet j + 1 at the front of the buffer or waits for more,
\* and what packet_shift leaves is intact after it.
GivesFirst(c, j, m, b, w, n) ==
    LET bytes == Got(b, w, n)
        w1    == Unread(w, n)
        left  == Leftover(bytes, NextPacket(bytes))
    IN  /\ j < m
        /\ bytes \in Seq(Cell) /\ bytes # <<>> /\ w1 \in Seq(Cell)
        /\ bytes[1].conn = c /\ bytes[1].packet = j + 1
        /\ NextPacket(bytes) \in Nat
        /\ Cat(Upto(c, j), Cat(bytes, w1)) = Upto(c, m)
        /\ NextPacket(bytes) > 0 =>
              /\ left \in Seq(Cell)
              /\ Cat(Upto(c, j + 1), Cat(left, w1)) = Upto(c, m)

\* A stream that is intact after j packets, read further, begins with the next one.
LEMMA FirstPacket ==
    ASSUME NEW c \in Conn, NEW j \in Nat, NEW m \in Nat, j <= m,
           NEW b \in Seq(Cell), NEW w \in Seq(Cell), NEW n \in 1..Len(w),
           Cat(Upto(c, j), Cat(b, w)) = Upto(c, m)
    PROVE  GivesFirst(c, j, m, b, w, n)
<1> DEFINE w0 == SubSeq(w, 1, n)
           bytes == Got(b, w, n)
           w1 == Unread(w, n)
           u == Upto(c, j)
           p == PacketCells(c, j + 1)
           k == Cells(Script[c][j + 1])
<1>1. /\ w0 \in Seq(Cell) /\ Len(w0) = n
      /\ w1 \in Seq(Cell) /\ w = Cat(w0, w1)
  <2>1. n \in 0..Len(w)
    OBVIOUS
  <2> QED
    BY <2>1, CatSplit DEF Unread
<1>2. j + 1 \in Nat /\ u \in Seq(Cell)
  BY UptoIsBlocks
<1>3. /\ p \in Seq(Cell) /\ Len(p) = k /\ k \in Nat /\ k >= 1
      /\ p[1].conn = c /\ p[1].packet = j + 1
  <2>1. p[1] = [conn |-> c, packet |-> j + 1, part |-> 1]
    BY <1>2, PacketCellsShape
  <2>2. p \in Seq(Cell) /\ Len(p) = k
    BY <1>2, PacketCellsShape
  <2>3. k \in Nat /\ k >= 1
    BY CellsPositive
  <2> QED
    BY <2>1, <2>2, <2>3
<1> HIDE DEF u, p, k, w1
<1>4. bytes \in Seq(Cell) /\ Len(bytes) >= 1 /\ bytes = Cat(b, w0)
  <2>1. bytes = Cat(b, w0)
    BY DEF Got
  <2> HIDE DEF bytes, w0
  <2>2. bytes \in Seq(Cell) /\ Len(bytes) = Len(b) + n
    BY <1>1, <2>1, CatType, CatLength
  <2> QED
    BY <2>1, <2>2
<1> HIDE DEF bytes, w0
<1>5. Cat(b, w) = Cat(bytes, w1)
  <2>1. Cat(Cat(b, w0), w1) = Cat(b, Cat(w0, w1))
    BY <1>1, CatAssociative
  <2> QED
    BY <1>1, <1>4, <2>1
<1>6. Cat(bytes, w1) \in Seq(Cell) /\ Cat(u, Cat(bytes, w1)) = Upto(c, m)
  BY <1>1, <1>4, <1>5, CatType DEF u
<1>7. j < m
  <2> SUFFICES ASSUME j = m
               PROVE  FALSE
    OBVIOUS
  <2>1. Cat(u, Cat(bytes, w1)) = Cat(u, <<>>) /\ <<>> \in Seq(Cell)
    BY <1>2, <1>6, CatNothing DEF u
  <2>2. Cat(bytes, w1) = <<>>
    BY <1>2, <1>6, <2>1, CatCancel
  <2>3. Len(Cat(bytes, w1)) = Len(bytes) + Len(w1)
    BY <1>1, <1>4, CatLength
  <2>4. Len(bytes) >= 1 /\ Len(w1) \in Nat /\ Len(<<>>) = 0
    BY <1>1, <1>4
  <2> QED
    <3>1. Len(bytes) + Len(w1) = 0
      BY <2>2, <2>3, <2>4
    <3>2. Len(bytes) \in Nat
      BY <1>4
    <3> QED
      BY <2>4, <3>1, <3>2
<1>8. PICK rest \in Seq(Cell) : Upto(c, m) = Cat(u, Cat(p, rest))
  BY <1>7, UptoFront DEF u, p
<1>9. Cat(p, rest) = Cat(bytes, w1)
  <2>1. Cat(p, rest) \in Seq(Cell)
    BY <1>3, <1>8, CatType
  <2> QED
    BY <1>2, <1>6, <1>8, <2>1, CatCancel
<1>10. bytes[1] = p[1]
  <2>1. 1 \in 1..Len(p) /\ 1 \in 1..Len(bytes)
    BY <1>3, <1>4
  <2>2. Cat(p, rest)[1] = p[1]
    <3>1. p \in Seq(Cell) /\ rest \in Seq(Cell)
      BY <1>3, <1>8
    <3> QED
      BY <2>1, <3>1, CatElement
  <2>3. Cat(bytes, w1)[1] = bytes[1]
    BY <1>1, <1>4, <2>1, CatElement
  <2> QED
    BY <1>9, <2>2, <2>3
<1>11. bytes[1].conn = c /\ bytes[1].packet = j + 1
  BY <1>3, <1>10
<1>12. NextPacket(bytes) = IF Len(bytes) < k THEN 0 ELSE k
  BY <1>11 DEF NextPacket, k
<1>13. ASSUME NextPacket(bytes) > 0
       PROVE  LET left == Leftover(bytes, NextPacket(bytes)) IN
              /\ left \in Seq(Cell)
              /\ Cat(Upto(c, j + 1), Cat(left, w1)) = Upto(c, m)
  <2>1. NextPacket(bytes) = k /\ k <= Len(bytes)
    BY <1>3, <1>4, <1>12, <1>13
  <2> DEFINE left == SubSeq(bytes, k + 1, Len(bytes))
  <2>2. Leftover(bytes, NextPacket(bytes)) = left
    BY <2>1 DEF Leftover
  <2>3. left \in Seq(Cell)
    <3>1. k \in 0..Len(bytes)
      BY <1>3, <2>1
    <3> QED
      BY <1>4, <3>1, CatSplit
  <2>4. bytes = Cat(p, left)
    <3>1. /\ p \in Seq(Cell) /\ rest \in Seq(Cell)
          /\ bytes \in Seq(Cell) /\ w1 \in Seq(Cell)
      BY <1>1, <1>3, <1>4, <1>8
    <3>2. Len(p) <= Len(bytes) /\ Len(p) = k
      BY <1>3, <2>1
    <3>3. bytes = Cat(p, SubSeq(bytes, Len(p) + 1, Len(bytes)))
      BY <1>9, <3>1, <3>2, CatFront
    <3> QED
      BY <3>2, <3>3
  <2> HIDE DEF left
  <2>5. Cat(bytes, w1) = Cat(p, Cat(left, w1)) /\ Cat(left, w1) \in Seq(Cell)
    <3>1. p \in Seq(Cell) /\ w1 \in Seq(Cell)
      BY <1>1, <1>3
    <3>2. Cat(Cat(p, left), w1) = Cat(p, Cat(left, w1))
      BY <2>3, <3>1, CatAssociative
    <3> QED
      BY <2>3, <2>4, <3>1, <3>2, CatType
  <2>6. Cat(u, Cat(p, Cat(left, w1))) = Cat(Cat(u, p), Cat(left, w1))
    BY <1>2, <1>3, <2>5, CatAssociative
  <2>7. Upto(c, j + 1) = Cat(u, p)
    BY UptoNext DEF u, p
  <2> QED
    BY <1>6, <2>2, <2>3, <2>5, <2>6, <2>7
<1>14. NextPacket(bytes) \in Nat
  BY <1>3, <1>12
<1>15. bytes # <<>>
  BY <1>4
<1> QED
  BY <1>1, <1>4, <1>6, <1>7, <1>11, <1>13, <1>14, <1>15
     DEF GivesFirst, u, w1, bytes

-----------------------------------------------------------------------------
(* What one call of the packet handler writes.                             *)

\* gnw_emitPacket is called once for each edge, so copies differ by their edge.
LEMMA CopiesDistinct ==
    ASSUME NEW t, IsTable(t), NEW s \in Known(t),
           NEW chosen \in SUBSET (DOMAIN t[s].forward)
    PROVE  Distinct(Copies(t, s, Live(t, s, chosen)))
<1> DEFINE f(i) == [fd |-> t[t[s].forward[i]].bound_fd, from |-> s,
                    to |-> t[s].forward[i], edge |-> i]
           out == {f(i) : i \in Live(t, s, chosen)}
<1>1. t[s].forward \in Seq(Addr)
  BY DEF IsTable, Known, Context
<1>2. Live(t, s, chosen) \subseteq 1..Len(t[s].forward)
  BY <1>1 DEF Live
<1>3. IsFiniteSet(Live(t, s, chosen))
  <2>1. IsFiniteSet(1..Len(t[s].forward))
    BY <1>1, FS_Interval
  <2> QED
    BY <1>2, <2>1, FS_Subset
<1>4. IsFiniteSet(out)
  <2> DEFINE g == [i \in Live(t, s, chosen) |-> f(i)]
  <2>1. g \in Surjection(Live(t, s, chosen), out)
    <3> HIDE DEF f
    <3>1. g \in [Live(t, s, chosen) -> out]
      OBVIOUS
    <3>2. \A e \in out : \E i \in Live(t, s, chosen) : g[i] = e
      OBVIOUS
    <3> QED
      BY <3>1, <3>2 DEF Surjection
  <2> HIDE DEF g, out
  <2> QED
    BY <1>3, <2>1, FS_Surjection
<1> QED
  BY <1>2, <1>4 DEF Copies, Distinct

\* Every handler writes to edges of its own.
LEMMA HandledDistinct ==
    ASSUME TypeOK, NEW fd \in Fd, NEW p \in Packet, HandlePacket(fd, p)
    PROVE  Distinct(emitted')
<1>1. CASE NewAddress(fd, p)
  <2>1. PICK a \in Addr :
           emitted' = {[fd |-> fd, from |-> a, to |-> a, edge |-> 0]}
    BY <1>1, NewAddressRoutes
  <2>2. IsFiniteSet(emitted')
    BY <2>1, FS_Singleton
  <2> QED
    BY <2>1, <2>2 DEF Distinct
<1>2. CASE Forward(p)
  <2>1. /\ p.source \in Known(address_table)
        /\ IsTable(address_table)
    BY <1>2, ForwardRoutes DEF TypeOK, IsTable
  <2>2. PICK chosen :
          /\ chosen \subseteq DOMAIN address_table[p.source].forward
          /\ emitted' = Copies(address_table, p.source,
                               Live(address_table, p.source, chosen))
    BY <1>2, ForwardRoutes
  <2> QED
    BY <2>1, <2>2, CopiesDistinct
<1>3. CASE emitted' = {}
  BY <1>3, FS_EmptySet DEF Distinct
<1> QED
  BY <1>1, <1>2, <1>3
  DEF HandlePacket, Connect, SetPolicy, Ignored, BadLookup, DivideByZero, Written

\* A claim binds its address to the descriptor it came from, and is answered.
LEMMA HandledClaim ==
    ASSUME TypeOK, NEW fd \in Fd, NEW p \in Packet, HandlePacket(fd, p),
           p.kind = "new_address"
    PROVE  \E a \in Addr :
             /\ p.address \in {a, AnyAddress}
             /\ emitted' = {[fd |-> fd, from |-> a, to |-> a, edge |-> 0]}
             /\ Known(address_table') = Known(address_table) \cup {a}
             /\ address_table'[a].bound_fd = fd
             /\ \A x \in Known(address_table) : x # a =>
                   address_table'[x].bound_fd = address_table[x].bound_fd
<1>1. NewAddress(fd, p)
  BY DEF HandlePacket, Connect, SetPolicy, Ignored, BadLookup, DivideByZero,
         Forward
<1> QED
  BY <1>1, NewAddressRoutes

\* Nothing else binds an address, and what is written is a copy along an edge, to
\* the descriptor that its target is bound to.
LEMMA HandledOther ==
    ASSUME TypeOK, NEW fd \in Fd, NEW p \in Packet, HandlePacket(fd, p),
           p.kind # "new_address"
    PROVE  /\ \A a \in Known(address_table') :
                address_table'[a].bound_fd =
                    IF a \in Known(address_table)
                    THEN address_table[a].bound_fd ELSE Unbound
           /\ \A e \in emitted' :
                /\ e.to \in Known(address_table)
                /\ e.fd = address_table[e.to].bound_fd
<1>1. CASE Connect(p)
  BY <1>1, ConnectRoutes DEF Connect, Written
<1>2. CASE SetPolicy(p)
  BY <1>2, PolicyRoutes DEF SetPolicy
<1>3. CASE Ignored(p) \/ BadLookup(p)
  BY <1>3 DEF Ignored, BadLookup, Written
<1>4. CASE DivideByZero(p)
  <2>1. SameRoutes(address_table, address_table')
    BY <1>4, CountInRoutes DEF DivideByZero, TypeOK, IsTable
  <2> QED
    BY <1>4, <2>1 DEF DivideByZero, SameRoutes
<1>5. CASE Forward(p)
  <2>1. SameRoutes(address_table, address_table')
    BY <1>5, ForwardRoutes
  <2>2. PICK chosen :
          /\ chosen \subseteq DOMAIN address_table[p.source].forward
          /\ emitted' = Copies(address_table, p.source,
                               Live(address_table, p.source, chosen))
    BY <1>5, ForwardRoutes
  <2>3. \A e \in emitted' : /\ e.to \in Known(address_table)
                            /\ e.fd = address_table[e.to].bound_fd
    BY <2>2 DEF Copies, Live
  <2> QED
    BY <2>1, <2>3 DEF SameRoutes
<1> QED
  BY <1>1, <1>2, <1>3, <1>4, <1>5 DEF HandlePacket, NewAddress

-----------------------------------------------------------------------------
(* Serving a slot.                                                         *)

\* A slot that is served holds an open descriptor, of this connection only, and
\* no other slot holds it.
LEMMA ServedSlot ==
    ASSUME TablesAgree, NEW i \in Slot, NEW fd \in Fd, NEW c \in Conn,
           Serve(i, fd, c)
    PROVE  /\ poll_list[i] = fd /\ descriptor[fd] = c /\ c # Nil
           /\ \A j \in Slot : poll_list[j] = fd => j = i
           /\ \A f \in Fd : descriptor[f] = c => f = fd
BY LoopAssumption, NoFdIsNone DEF Serve, TablesAgree

\* The bytes kept for a descriptor.
LEMMA BufferType ==
    ASSUME LoopTypeOK, NEW fd \in Fd
    PROVE  Buffer(fd) \in Seq(Cell)
<1>1. <<>> \in Seq(Cell)
  OBVIOUS
<1> QED
  BY <1>1 DEF LoopTypeOK, Buffer

\* The two ways to say that a stream is intact.
LEMMA StreamForm ==
    ASSUME NEW u \in Seq(Cell), NEW b \in Seq(Cell), NEW w \in Seq(Cell)
    PROVE  u \o b \o w = Cat(u, Cat(b, w))
<1>1. Cat(Cat(u, b), w) = Cat(u, Cat(b, w))
  BY CatAssociative
<1>2. (u \o b) \o w = Cat(Cat(u, b), w)
  BY DEF Cat
<1> QED
  BY <1>1, <1>2

\* What of c's stream is in the buffer b and the socket w, after m packets of the
\* s that were sent.
Intact(c, m, s, b, w) == Cat(Upto(c, m), Cat(b, w)) = Upto(c, s)

IntactBehind(fd) ==
    LET c == descriptor[fd]
    IN  c # Nil => Intact(c, Len(taken[c]), sent[c], Buffer(fd), wire[c])

OpenIntact == status # "assert" => \A fd \in Fd : IntactBehind(fd)

\* In the order of the packets taken, StreamIntact is Intact of every open stream.
LEMMA StreamsIntact ==
    LoopTypeOK /\ TakenInOrder => (StreamIntact <=> OpenIntact)
<1> SUFFICES ASSUME LoopTypeOK, TakenInOrder
             PROVE  StreamIntact <=> OpenIntact
  OBVIOUS
<1>1. ASSUME NEW fd \in Fd, NEW c \in Conn
      PROVE  (Stream(c, taken[c]) \o Buffer(fd) \o wire[c]
                = Stream(c, [n \in 1..sent[c] |-> n]))
             <=> Intact(c, Len(taken[c]), sent[c], Buffer(fd), wire[c])
  <2>1. Len(taken[c]) \in Nat /\ wire[c] \in Seq(Cell)
    BY DEF LoopTypeOK
  <2>2. Buffer(fd) \in Seq(Cell)
    BY BufferType
  <2>5. Stream(c, taken[c]) = Upto(c, Len(taken[c]))
    <3>1. taken[c] = [k \in 1..Len(taken[c]) |-> k]
      BY DEF TakenInOrder
    <3> DEFINE S(t) == Stream(c, t)
    <3> HIDE DEF S
    <3>2. S(taken[c]) = S([k \in 1..Len(taken[c]) |-> k])
      BY <3>1, Zenon
    <3> QED
      BY <3>2 DEF S, Upto
  <2> DEFINE u == Upto(c, Len(taken[c]))
  <2>6. u \in Seq(Cell)
    BY <2>1, UptoIsBlocks
  <2> HIDE DEF u
  <2>3. u \o Buffer(fd) \o wire[c] = Cat(u, Cat(Buffer(fd), wire[c]))
    BY <2>1, <2>2, <2>6, StreamForm
  <2>4. Stream(c, [n \in 1..sent[c] |-> n]) = Upto(c, sent[c])
    BY DEF Upto
  <2> QED
    BY <2>3, <2>4, <2>5 DEF Intact, u
<1>2. \A fd \in Fd : descriptor[fd] # Nil => descriptor[fd] \in Conn
  BY DEF LoopTypeOK
<1> QED
  BY <1>1, <1>2 DEF StreamIntact, OpenIntact, IntactBehind

\* What a read finds: the next packet of the connection's script, or a part of it.
Bytes(fd, c, n) == Buffer(fd) \o SubSeq(wire[c], 1, n)
Rest(fd, c, n) == Leftover(Bytes(fd, c, n), NextPacket(Bytes(fd, c, n)))

\* What a read of a client's socket gives, from the streams being intact.
LEMMA ReadFacts ==
    ASSUME TablesAgree, TakenInOrder, StreamIntact,
           NEW i \in Slot, NEW fd \in Fd, NEW c \in Conn, NEW n \in 1..Mtu,
           ReadBytes(i, fd, c, n)
    PROVE  LET bytes == Bytes(fd, c, n)
               j == Len(taken[c])
               unread == Unread(wire[c], n)
           IN  /\ j \in Nat /\ j < sent[c] /\ sent[c] <= Len(Script[c])
               /\ bytes \in Seq(Cell) /\ unread \in Seq(Cell)
               /\ wire' = [wire EXCEPT ![c] = unread]
               /\ bytes[1].conn = c /\ bytes[1].packet = j + 1
               /\ NextPacket(bytes) \in Nat
               /\ Intact(c, j, sent[c], bytes, unread)
               /\ NextPacket(bytes) > 0 =>
                     /\ Rest(fd, c, n) \in Seq(Cell)
                     /\ Intact(c, j + 1, sent[c], Rest(fd, c, n), unread)
<1> DEFINE j == Len(taken[c])
           m == sent[c]
           w == wire[c]
           b == Buffer(fd)
<1>1. /\ LoopTypeOK /\ Serve(i, fd, c) /\ status = "running"
      /\ n <= Len(w) /\ wire' = [wire EXCEPT ![c] = Unread(w, n)]
  BY DEF TablesAgree, ReadBytes, Serve, Unread
<1>2. descriptor[fd] = c /\ c # Nil
  BY <1>1, ServedSlot
<1>3. /\ j \in Nat /\ m \in Nat /\ j <= m /\ m <= Len(Script[c])
      /\ w \in Seq(Cell)
  BY <1>1 DEF LoopTypeOK, TakenInOrder
<1>4. b \in Seq(Cell)
  BY <1>1, BufferType
<1>5. n \in 1..Len(w)
  <2>1. Len(w) \in Nat /\ n \in Nat /\ n >= 1
    BY <1>3, LoopAssumption
  <2> QED
    BY <1>1, <2>1
<1>6. Intact(c, j, m, b, w)
  <2>1. IntactBehind(fd)
    BY <1>1, StreamsIntact DEF OpenIntact
  <2> QED
    BY <1>2, <2>1 DEF IntactBehind
<1>7. Bytes(fd, c, n) = Got(b, w, n)
  BY DEF Bytes, Got, Cat
<1> HIDE DEF j, m, w, b
<1>8. Cat(Upto(c, j), Cat(b, w)) = Upto(c, m)
  BY <1>6 DEF Intact
<1> DEFINE g == Got(b, w, n)
           r == Unread(w, n)
           l == Leftover(g, NextPacket(g))
<1>9. /\ j < m
      /\ g \in Seq(Cell) /\ r \in Seq(Cell)
      /\ g[1].conn = c /\ g[1].packet = j + 1
      /\ NextPacket(g) \in Nat
      /\ Cat(Upto(c, j), Cat(g, r)) = Upto(c, m)
      /\ NextPacket(g) > 0 =>
            l \in Seq(Cell) /\ Cat(Upto(c, j + 1), Cat(l, r)) = Upto(c, m)
  <2>1. GivesFirst(c, j, m, b, w, n)
    BY <1>3, <1>4, <1>5, <1>8, FirstPacket
  <2> QED
    BY <2>1 DEF GivesFirst
<1>10. Rest(fd, c, n) = l
  BY <1>7 DEF Rest
<1> HIDE DEF g, r, l
<1> QED
  BY <1>1, <1>3, <1>7, <1>9, <1>10 DEF Intact, j, m, w, g, r

\* The packet that a read completes is one of the handler's inputs.
LEMMA HandledIsNext ==
    ASSUME TablesAgree, TakenInOrder, StreamIntact,
           NEW i \in Slot, NEW fd \in Fd, NEW c \in Conn, NEW n \in 1..Mtu,
           ReadBytes(i, fd, c, n)
    PROVE  LET first == Bytes(fd, c, n)[1].packet
           IN  /\ first = Len(taken[c]) + 1
               /\ first \in 1..Len(Script[c])
               /\ Script[c][first] \in Input
               /\ Script[c][first] \in Packet
<1>1. /\ Len(taken[c]) \in Nat /\ Len(taken[c]) < sent[c]
      /\ sent[c] <= Len(Script[c])
      /\ Bytes(fd, c, n)[1].packet = Len(taken[c]) + 1
  BY ReadFacts
<1>2. Len(Script[c]) \in Nat /\ sent[c] \in Nat
  BY LoopAssumption DEF TablesAgree, LoopTypeOK
<1>3. Len(taken[c]) + 1 \in 1..Len(Script[c])
  BY <1>1, <1>2
<1>4. Script[c][Len(taken[c]) + 1] \in Input
  BY <1>3, ScriptedIsInput
<1> QED
  BY <1>1, <1>3, <1>4, RouterAssumption

(***************************************************************************)
(* Every step of the loop is a call of the packet handler with a packet of *)
(* its inputs and an open descriptor, a failed assertion, or no step of it *)
(* at all.                                                                 *)
(***************************************************************************)
LEMMA StepRefines ==
    ASSUME TablesAgree, TakenInOrder, StreamIntact, [LoopNext]_loopVars
    PROVE  [Next]_vars
<1>1. CASE ReadPacket
  <2>1. PICK i \in Slot, fd \in Fd, c \in Conn, n \in 1..Mtu :
          /\ ReadBytes(i, fd, c, n)
          /\ HandlePacket(fd, Script[c][Bytes(fd, c, n)[1].packet])
    BY <1>1 DEF ReadPacket, Bytes
  <2>2. Script[c][Bytes(fd, c, n)[1].packet] \in Input
    BY <2>1, HandledIsNext
  <2> QED
    BY <2>1, <2>2 DEF Next
<1>2. CASE Overflow
  BY <1>2 DEF Overflow, Next
<1>3. CASE ClientStep
  BY <1>3 DEF ClientStep, Made, Writes, Closes, ResetArrives
<1>4. CASE Accept \/ AcceptWhenFull \/ Poll \/ HangUp \/ ReadFails \/ ReadPart
  BY <1>4 DEF Accept, AcceptWhenFull, Poll, HangUp, ReadFails, DropClient,
              ReadPart
<1>5. CASE UNCHANGED loopVars
  BY <1>5 DEF loopVars
<1> QED
  BY <1>1, <1>2, <1>3, <1>4, <1>5 DEF LoopNext, RouterStep

-----------------------------------------------------------------------------
(* Delivery.                                                               *)

\* The copies that one call adds to the inbox of d.
Added(c, n, written, d, q) ==
    /\ inbox'[d] = inbox[d] \o q
    /\ \A k \in DOMAIN q :
          /\ q[k].conn = c /\ q[k].packet = n /\ peer[d] = "up"
          /\ \E e \in written : /\ Receiver(e) = d
                                /\ q[k].edge = e.edge /\ q[k].to = e.to
    /\ \A k, l \in DOMAIN q : k < l => q[k].edge < q[l].edge
    /\ (peer[d] = "up" /\ \E e \in written : Receiver(e) = d) => q # <<>>

\* What a delivery adds to an inbox: copies of one packet, by edge.
LEMMA DeliverFacts ==
    ASSUME LoopTypeOK, NEW c \in Conn, NEW n \in Nat,
           NEW written, Distinct(written), written \subseteq Emission,
           Deliver(c, n, written), NEW d \in Conn
    PROVE  \E q \in Seq(Delivery) : Added(c, n, written, d, q)
<1> DEFINE to == {e \in written : Receiver(e) = d}
           copy(e) == [conn |-> c, packet |-> n, edge |-> e.edge, to |-> e.to]
           m == Cardinality(to)
           q == [k \in 1..m |-> copy(ByEdge(to)[k])]
<1>1. inbox'[d] = IF peer[d] = "up" THEN inbox[d] \o q ELSE inbox[d]
  BY DEF Deliver
<1>2. Distinct(to)
  <2>1. IsFiniteSet(to)
    BY FS_Subset DEF Distinct
  <2> QED
    BY <2>1 DEF Distinct
<1>3. m \in Nat
  BY <1>2, FS_CardinalityType DEF Distinct
<1>4. /\ ByEdge(to) \in [1..m -> to]
      /\ \A k, l \in 1..m : k < l => ByEdge(to)[k].edge < ByEdge(to)[l].edge
  BY <1>2, ByEdgeOrders
<1>5. \A e \in to : copy(e) \in Delivery
  BY DEF Delivery, Emission
<1>6. CASE peer[d] = "up"
  <2> DEFINE o == ByEdge(to)
  <2>1. o \in [1..m -> to]
    BY <1>4
  <2>2. \A k, l \in 1..m : k < l => o[k].edge < o[l].edge
    BY <1>4
  <2>3. \A k \in 1..m : q[k] = copy(o[k]) /\ o[k] \in to
    BY <2>1
  <2>4. q \in Seq(Delivery) /\ DOMAIN q = 1..m
    <3>1. \A k \in 1..m : q[k] \in Delivery
      BY <1>5, <2>3
    <3> HIDE DEF copy
    <3>2. q \in [1..m -> Delivery] /\ DOMAIN q = 1..m
      BY <3>1
    <3> HIDE DEF q, m
    <3> QED
      BY <1>3, <3>2
  <2>5. inbox'[d] = inbox[d] \o q
    BY <1>1, <1>6
  <2>6. ASSUME NEW e \in to
        PROVE  q # <<>>
    <3>1. m # 0
      <4>1. IsFiniteSet(to) /\ to # {}
        BY <1>2, <2>6 DEF Distinct
      <4> QED
        BY <4>1, FS_EmptySet
    <3>2. 1 \in DOMAIN q
      BY <1>3, <2>4, <3>1
    <3> HIDE DEF q
    <3> QED
      BY <3>2
  <2> HIDE DEF q, o, m
  <2>7. \A k \in DOMAIN q :
          /\ q[k].conn = c /\ q[k].packet = n /\ peer[d] = "up"
          /\ \E e \in written : /\ Receiver(e) = d
                                /\ q[k].edge = e.edge /\ q[k].to = e.to
    BY <1>6, <2>3, <2>4
  <2>8. \A k, l \in DOMAIN q : k < l => q[k].edge < q[l].edge
    BY <2>2, <2>3, <2>4
  <2>9. Added(c, n, written, d, q)
    BY <2>5, <2>6, <2>7, <2>8 DEF Added
  <2> QED
    BY <2>4, <2>9
<1>7. CASE peer[d] # "up"
  <2>1. <<>> \in Seq(Delivery) /\ DOMAIN <<>> = {}
    OBVIOUS
  <2>2. inbox'[d] = inbox[d] \o <<>>
    <3>1. inbox[d] \in Seq(Delivery)
      BY DEF LoopTypeOK
    <3> QED
      BY <1>1, <1>7, <3>1, ConcatEmptySeq
  <2>3. Added(c, n, written, d, <<>>)
    BY <1>7, <2>2 DEF Added
  <2> QED
    BY <2>1, <2>3
<1> QED
  BY <1>6, <1>7

\* Writing changes the state of connections that are closed, and only to
\* answered.
LEMMA DeliverPeers ==
    ASSUME LoopTypeOK, NEW c, NEW n, NEW written, Deliver(c, n, written)
    PROVE  /\ peer' \in [Conn -> Peer]
           /\ \A d \in Conn : \/ peer'[d] = peer[d]
                              \/ peer[d] = "closed" /\ peer'[d] = "answered"
<1>1. peer \in [Conn -> Peer]
  BY DEF LoopTypeOK
<1>2. \A d \in Conn : \/ peer'[d] = peer[d]
                      \/ peer[d] = "closed" /\ peer'[d] = "answered"
  BY DEF Deliver
<1>3. peer' = [d \in Conn |-> peer'[d]]
  BY DEF Deliver
<1>4. \A d \in Conn : peer'[d] \in Peer
  BY <1>1, <1>2 DEF Peer
<1> QED
  BY <1>2, <1>3, <1>4

-----------------------------------------------------------------------------
(* The three tables.                                                       *)

\* The first element of a sequence and the rest.
LEMMA HeadAndTail ==
    ASSUME NEW S, NEW b \in Seq(S), b # <<>>
    PROVE  /\ 1 \in DOMAIN b /\ Head(b) = b[1] /\ Head(b) \in S
           /\ Tail(b) \in Seq(S)
           /\ \A k \in DOMAIN Tail(b) : /\ k \in Nat /\ k + 1 \in DOMAIN b
                                        /\ Tail(b)[k] = b[k + 1]
           /\ \A k \in DOMAIN b : k = 1 \/ k - 1 \in DOMAIN Tail(b)
OBVIOUS

\* What clients do disturbs neither the tables nor the backlog's waiting.
LEMMA TablesClient ==
    ASSUME TablesAgree, Waiting, UnreadWhileWaiting, ClientStep
    PROVE  TablesAgree' /\ Waiting'
<1>1. LoopTypeOK
  BY DEF TablesAgree
<1>2. PICK c \in Conn : Made(c) \/ Writes(c) \/ Closes(c) \/ ResetArrives(c)
  BY DEF ClientStep
<1>3. UNCHANGED <<poll_list, local_buffer, ready, descriptor, taken, inbox>>
  BY <1>2 DEF Made, Writes, Closes, ResetArrives, loop
<1>4. CASE Made(c)
  <2>1. /\ peer[c] = "new" /\ peer' = [peer EXCEPT ![c] = "up"]
        /\ backlog' = Append(backlog, c)
        /\ UNCHANGED <<sent, wire>>
    BY <1>4 DEF Made
  <2>2. LoopTypeOK'
    <3>1. backlog' \in Seq(Conn) /\ peer' \in [Conn -> Peer]
      BY <1>1, <2>1 DEF LoopTypeOK, Peer
    <3> QED
      BY <1>1, <1>3, <2>1, <3>1 DEF LoopTypeOK
  <2>3. TablesAgree'
    BY <1>3, <2>2 DEF TablesAgree
  <2>4. /\ backlog \in Seq(Conn) /\ Len(backlog) \in Nat
        /\ peer \in [Conn -> Peer]
    BY <1>1 DEF LoopTypeOK
  <2>5. \A k \in DOMAIN backlog' :
           \/ k \in DOMAIN backlog /\ backlog'[k] = backlog[k]
           \/ k = Len(backlog) + 1 /\ backlog'[k] = c
    BY <2>1, <2>4
  <2>6. \A k \in DOMAIN backlog : backlog[k] # c /\ k # Len(backlog) + 1
    BY <2>1, <2>4 DEF Waiting
  <2>7. \A f \in Fd : descriptor[f] # Nil => descriptor[f] \in Conn
    BY <1>1 DEF LoopTypeOK
  <2>8. ~ OnDescriptor(c)
    BY <2>1, LoopAssumption DEF Waiting, OnDescriptor
  <2>9. \A k, l \in DOMAIN backlog' : backlog'[k] = backlog'[l] => k = l
    <3>1. \A k, l \in DOMAIN backlog : backlog[k] = backlog[l] => k = l
      BY DEF Waiting
    <3> DEFINE last == Len(backlog) + 1
    <3>2. /\ \A k \in DOMAIN backlog' :
                \/ k \in DOMAIN backlog /\ backlog'[k] = backlog[k]
                \/ k = last /\ backlog'[k] = c
          /\ \A k \in DOMAIN backlog : backlog[k] # c
      BY <2>5, <2>6
    <3> HIDE DEF last
    <3> QED
      BY <3>1, <3>2, Zenon
  <2>10. \A k \in DOMAIN backlog' : \A f \in Fd : descriptor'[f] # backlog'[k]
    BY <1>3, <2>5, <2>8 DEF Waiting, OnDescriptor
  <2>11. \A d \in Conn : peer'[d] = IF d = c THEN "up" ELSE peer[d]
    BY <2>1, <2>4
  <2>12. \A k \in DOMAIN backlog' : peer'[backlog'[k]] \notin {"new", "dropped"}
    <3>1. \A k \in DOMAIN backlog : backlog[k] \in Conn
      BY <2>4
    <3> QED
      BY <2>5, <2>11, <3>1 DEF Waiting
  <2>13. \A f \in Fd : descriptor'[f] # Nil =>
            peer'[descriptor'[f]] \notin {"new", "dropped"}
    BY <1>3, <2>7, <2>11 DEF Waiting
  <2>14. Waiting'
    BY <2>9, <2>10, <2>12, <2>13 DEF Waiting, OnDescriptor
  <2> QED
    BY <2>3, <2>14
<1>5. CASE Writes(c)
  <2>1. /\ sent' = [sent EXCEPT ![c] = @ + 1]
        /\ wire' = [wire EXCEPT ![c] = @ \o PacketCells(c, sent'[c])]
        /\ UNCHANGED <<peer, backlog>>
    BY <1>5 DEF Writes
  <2>2. sent' \in [Conn -> Nat] /\ wire' \in [Conn -> Seq(Cell)]
    <3>1. sent' \in [Conn -> Nat]
      BY <1>1, <2>1 DEF LoopTypeOK
    <3>2. PacketCells(c, sent'[c]) \in Seq(Cell)
      BY <3>1, PacketCellsType
    <3> QED
      BY <1>1, <2>1, <3>1, <3>2 DEF LoopTypeOK
  <2>3. LoopTypeOK'
    BY <1>1, <1>3, <2>1, <2>2 DEF LoopTypeOK
  <2> QED
    BY <1>3, <2>1, <2>3 DEF TablesAgree, Waiting, OnDescriptor
<1>6. CASE Closes(c) \/ ResetArrives(c)
  <2>1. /\ peer[c] \in {"up", "answered"} /\ UNCHANGED <<sent, wire, backlog>>
        /\ \E s \in {"closed", "reset"} : peer' = [peer EXCEPT ![c] = s]
    BY <1>6 DEF Closes, ResetArrives
  <2>2. peer' \in [Conn -> Peer]
    BY <1>1, <2>1 DEF LoopTypeOK, Peer
  <2>3. \A d \in Conn : peer[d] \notin {"new", "dropped"} =>
                        peer'[d] \notin {"new", "dropped"}
    BY <1>1, <2>1 DEF LoopTypeOK
  <2>4. LoopTypeOK'
    BY <1>1, <1>3, <2>1, <2>2 DEF LoopTypeOK
  <2>5. /\ \A k \in DOMAIN backlog : backlog[k] \in Conn
        /\ \A f \in Fd : descriptor[f] # Nil => descriptor[f] \in Conn
    BY <1>1 DEF LoopTypeOK
  <2>6. Waiting'
    BY <1>3, <2>1, <2>3, <2>5 DEF Waiting, OnDescriptor
  <2> QED
    BY <1>3, <2>4, <2>6 DEF TablesAgree
<1> QED
  BY <1>2, <1>4, <1>5, <1>6

\* Neither does accept, with a free slot or without one,
LEMMA TablesAccept ==
    ASSUME TablesAgree, Waiting, Accept \/ AcceptWhenFull
    PROVE  TablesAgree' /\ Waiting'
<1> DEFINE c == Head(backlog)
           g == NewFd
<1>1. LoopTypeOK
  BY DEF TablesAgree
<1>2. /\ backlog # <<>> /\ Free # {} /\ backlog' = Tail(backlog)
      /\ UNCHANGED <<sent, wire, inbox, taken, ready, local_buffer>>
      /\ Scanned
  BY DEF Accept, AcceptWhenFull, loop
<1>3. g \in Fd /\ descriptor[g] = Nil
  BY <1>2, NewFdIsFree
<1>4. /\ 1 \in DOMAIN backlog /\ c = backlog[1] /\ c \in Conn
      /\ Tail(backlog) \in Seq(Conn)
      /\ \A k \in DOMAIN Tail(backlog) : /\ k \in Nat
                                         /\ k + 1 \in DOMAIN backlog
                                         /\ Tail(backlog)[k] = backlog[k + 1]
  <2>1. backlog \in Seq(Conn)
    BY <1>1 DEF LoopTypeOK
  <2> QED
    BY <1>2, <2>1, HeadAndTail
<1>5. /\ \A k, l \in DOMAIN backlog' : backlog'[k] = backlog'[l] => k = l
      /\ \A k \in DOMAIN backlog' : /\ backlog'[k] # c /\ ~ OnDescriptor(backlog'[k])
                                    /\ peer[backlog'[k]] \notin {"new", "dropped"}
                                    /\ backlog'[k] \in Conn
  <2>1. \A k \in DOMAIN backlog' : /\ k \in Nat /\ k + 1 # 1
                                   /\ k + 1 \in DOMAIN backlog
                                   /\ backlog'[k] = backlog[k + 1]
    BY <1>2, <1>4
  <2>2. \A k, l \in DOMAIN backlog : backlog[k] = backlog[l] => k = l
    BY DEF Waiting
  <2>3. \A k \in DOMAIN backlog' : backlog'[k] # c
    BY <1>4, <2>1, <2>2
  <2>4. \A k, l \in DOMAIN backlog' : backlog'[k] = backlog'[l] => k + 1 = l + 1
    BY <2>1, <2>2
  <2>5. \A k, l \in DOMAIN backlog' : k + 1 = l + 1 => k = l
    BY <2>1
  <2>6. \A k \in DOMAIN backlog : backlog[k] \in Conn
    BY <1>1 DEF LoopTypeOK
  <2> QED
    BY <2>1, <2>3, <2>4, <2>5, <2>6 DEF Waiting
<1>6. ~ OnDescriptor(c) /\ peer[c] \notin {"new", "dropped"} /\ c # Nil
  BY <1>4, LoopAssumption DEF Waiting
<1> HIDE DEF c, g
<1>7. CASE /\ descriptor' = [descriptor EXCEPT ![g] = c]
           /\ UNCHANGED peer
           /\ \/ /\ EmptySlots # {}
                 /\ poll_list' = [poll_list EXCEPT ![Min(EmptySlots)] = g]
              \/ UNCHANGED poll_list
  <2>1. descriptor' \in [Fd -> Conn \cup {Nil}]
    BY <1>1, <1>3, <1>4, <1>7 DEF LoopTypeOK
  <2>2. poll_list' \in [Slot -> Fd \cup {NoFd}]
    BY <1>1, <1>3, <1>7 DEF LoopTypeOK
  <2>3. LoopTypeOK'
    BY <1>1, <1>2, <1>4, <1>7, <2>1, <2>2 DEF LoopTypeOK
  <2>4. \A f \in Fd : descriptor'[f] = IF f = g THEN c ELSE descriptor[f]
    BY <1>1, <1>3, <1>7 DEF LoopTypeOK
  <2>5. \A i \in Slot : poll_list[i] # g
    BY <1>3, NoFdIsNone DEF TablesAgree
  <2>6. \A i \in Slot : \/ poll_list'[i] = poll_list[i]
                        \/ /\ i = Min(EmptySlots) /\ poll_list'[i] = g
                           /\ poll_list[i] = NoFd
    BY <1>1, <1>7, EmptySlotIsFree DEF LoopTypeOK
  <2>7. TablesAgree'
    <3>1. \A i, j \in Slot : poll_list'[i] = poll_list'[j] /\ poll_list'[i] # NoFd
             => i = j
      <4>1. \A i, j \in Slot : poll_list[i] = poll_list[j] /\ poll_list[i] # NoFd
               => i = j
        BY DEF TablesAgree
      <4> QED
        BY <2>5, <2>6, <4>1
    <3>2. \A f, h \in Fd : descriptor'[f] = descriptor'[h] /\ descriptor'[f] # Nil
             => f = h
      <4>1. \A f, h \in Fd : descriptor[f] = descriptor[h] /\ descriptor[f] # Nil
               => f = h
        BY DEF TablesAgree
      <4>2. \A f \in Fd : descriptor[f] # c
        BY <1>6 DEF OnDescriptor
      <4> QED
        BY <2>4, <4>1, <4>2
    <3>3. \A i \in Slot : poll_list'[i] # NoFd => descriptor'[poll_list'[i]] # Nil
      <4>1. \A i \in Slot : poll_list[i] # NoFd =>
                /\ poll_list[i] \in Fd
                /\ descriptor[poll_list[i]] # Nil
        BY <1>1 DEF TablesAgree, LoopTypeOK
      <4> QED
        BY <1>3, <1>6, <2>4, <2>6, <4>1
    <3>4. \A f \in DOMAIN local_buffer' : \E i \in Slot : poll_list'[i] = f
      <4>1. \A f \in DOMAIN local_buffer : f \in Fd /\ \E i \in Slot : poll_list[i] = f
        BY <1>1 DEF TablesAgree, LoopTypeOK
      <4> QED
        BY <1>2, <2>6, <4>1, NoFdIsNone
    <3>5. DOMAIN ready' = {}
      BY <1>2 DEF Scanned
    <3> QED
      BY <2>3, <3>1, <3>2, <3>3, <3>4, <3>5 DEF TablesAgree
  <2>8. Waiting'
    <3>1. \A k \in DOMAIN backlog' : \A f \in Fd : descriptor'[f] # backlog'[k]
      BY <1>5, <2>4 DEF OnDescriptor
    <3>2. \A f \in Fd : descriptor'[f] # Nil =>
              peer[descriptor'[f]] \notin {"new", "dropped"}
      BY <1>6, <2>4 DEF Waiting
    <3> QED
      BY <1>5, <1>7, <3>1, <3>2 DEF Waiting, OnDescriptor
  <2> QED
    BY <2>7, <2>8
<1>8. CASE /\ peer' = [peer EXCEPT ![c] = "dropped"]
           /\ UNCHANGED <<descriptor, poll_list>>
  <2>1. peer' \in [Conn -> Peer]
    BY <1>1, <1>4, <1>8 DEF LoopTypeOK, Peer
  <2>2. \A d \in Conn : d # c => peer'[d] = peer[d]
    BY <1>1, <1>8 DEF LoopTypeOK
  <2>3. LoopTypeOK'
    BY <1>1, <1>2, <1>4, <1>8, <2>1 DEF LoopTypeOK
  <2>4. TablesAgree'
    BY <1>2, <1>8, <2>3 DEF TablesAgree
  <2>5. \A f \in Fd : descriptor[f] # Nil => descriptor[f] \in Conn /\ descriptor[f] # c
    BY <1>1, <1>6 DEF LoopTypeOK, OnDescriptor
  <2>6. Waiting'
    <3>1. \A k \in DOMAIN backlog' : \A f \in Fd : descriptor'[f] # backlog'[k]
      BY <1>5, <1>8 DEF OnDescriptor
    <3>2. \A f \in Fd : descriptor'[f] # Nil =>
              peer'[descriptor'[f]] \notin {"new", "dropped"}
      BY <1>8, <2>2, <2>5 DEF Waiting
    <3>3. \A k \in DOMAIN backlog' : peer'[backlog'[k]] \notin {"new", "dropped"}
      BY <1>5, <2>2
    <3> QED
      BY <1>5, <3>1, <3>2, <3>3 DEF Waiting, OnDescriptor
  <2> QED
    BY <2>4, <2>6
<1> QED
  <2>1. CASE Accept
    BY <1>7, <2>1 DEF Accept, c, g
  <2>2. CASE AcceptWhenFull
    BY <1>7, <1>8, <2>2 DEF AcceptWhenFull, loop, c, g
  <2> QED
    BY <2>1, <2>2

\* Dropping a client takes it out of all three tables.
LEMMA TablesDrop ==
    ASSUME TablesAgree, Waiting, NEW i \in Slot, NEW fd \in Fd, NEW c \in Conn,
           Serve(i, fd, c), DropClient(i, fd, c)
    PROVE  TablesAgree' /\ Waiting'
<1>1. LoopTypeOK
  BY DEF TablesAgree
<1>2. /\ poll_list[i] = fd /\ descriptor[fd] = c /\ c # Nil
      /\ \A j \in Slot : poll_list[j] = fd => j = i
      /\ \A f \in Fd : descriptor[f] = c => f = fd
  BY ServedSlot
<1>3. /\ ready' = [j \in DOMAIN ready \ {i} |-> ready[j]]
      /\ local_buffer' = [f \in DOMAIN local_buffer \ {fd} |-> local_buffer[f]]
      /\ descriptor' = [descriptor EXCEPT ![fd] = Nil]
      /\ peer' = [peer EXCEPT ![c] = "dropped"]
      /\ poll_list' = [poll_list EXCEPT ![i] = NoFd]
      /\ UNCHANGED <<sent, wire, inbox, taken, backlog>>
  BY DEF Serve, DropClient
<1>4. LoopTypeOK'
  <2>1. /\ peer' \in [Conn -> Peer] /\ poll_list' \in [Slot -> Fd \cup {NoFd}]
        /\ descriptor' \in [Fd -> Conn \cup {Nil}]
    BY <1>1, <1>3 DEF LoopTypeOK, Peer
  <2>2. /\ DOMAIN ready' \subseteq Slot
        /\ ready' \in [DOMAIN ready' -> {"in", "hup"}]
    BY <1>1, <1>3 DEF LoopTypeOK
  <2>3. /\ DOMAIN local_buffer' \subseteq Fd
        /\ local_buffer' \in [DOMAIN local_buffer' -> Seq(Cell)]
    BY <1>1, <1>3 DEF LoopTypeOK
  <2> QED
    BY <1>1, <1>3, <2>1, <2>2, <2>3 DEF LoopTypeOK
<1>5. /\ \A f \in Fd : descriptor'[f] = IF f = fd THEN Nil ELSE descriptor[f]
      /\ \A j \in Slot : poll_list'[j] = IF j = i THEN NoFd ELSE poll_list[j]
      /\ \A d \in Conn : d # c => peer'[d] = peer[d]
      /\ DOMAIN ready' = DOMAIN ready \ {i}
      /\ DOMAIN local_buffer' = DOMAIN local_buffer \ {fd}
  BY <1>1, <1>3 DEF LoopTypeOK
<1>6. TablesAgree'
  <2>1. \A j, l \in Slot : poll_list'[j] = poll_list'[l] /\ poll_list'[j] # NoFd
           => j = l
    BY <1>5 DEF TablesAgree
  <2>2. \A f, h \in Fd : descriptor'[f] = descriptor'[h] /\ descriptor'[f] # Nil
           => f = h
    BY <1>5 DEF TablesAgree
  <2>3. \A j \in Slot : poll_list'[j] # NoFd => descriptor'[poll_list'[j]] # Nil
    <3>1. \A j \in Slot : poll_list[j] # NoFd =>
              poll_list[j] \in Fd /\ descriptor[poll_list[j]] # Nil
      BY <1>1 DEF TablesAgree, LoopTypeOK
    <3> QED
      BY <1>2, <1>5, <3>1
  <2>4. \A f \in DOMAIN local_buffer' : \E j \in Slot : poll_list'[j] = f
    <3>1. \A f \in DOMAIN local_buffer : \E j \in Slot : poll_list[j] = f
      BY DEF TablesAgree
    <3> QED
      BY <1>2, <1>5, <3>1
  <2>5. \A j \in DOMAIN ready' : poll_list'[j] # NoFd
    BY <1>1, <1>5 DEF TablesAgree, LoopTypeOK
  <2> QED
    BY <1>4, <2>1, <2>2, <2>3, <2>4, <2>5 DEF TablesAgree
<1>7. Waiting'
  <2>1. \A k \in DOMAIN backlog : backlog[k] \in Conn /\ backlog[k] # c
    BY <1>1, <1>2 DEF Waiting, OnDescriptor, LoopTypeOK
  <2>2. \A k \in DOMAIN backlog : backlog[k] # Nil
    BY <2>1, LoopAssumption
  <2>3. \A k \in DOMAIN backlog : \A f \in Fd : descriptor'[f] # backlog[k]
    BY <1>5, <2>2 DEF Waiting, OnDescriptor
  <2>4. \A f \in Fd : descriptor'[f] # Nil =>
            /\ descriptor'[f] = descriptor[f]
            /\ descriptor[f] \in Conn /\ descriptor[f] # c
    BY <1>1, <1>2, <1>5 DEF LoopTypeOK
  <2>5. \A f \in Fd : descriptor'[f] # Nil =>
            peer'[descriptor'[f]] \notin {"new", "dropped"}
    BY <1>5, <2>4 DEF Waiting
  <2>6. \A k \in DOMAIN backlog : peer'[backlog[k]] \notin {"new", "dropped"}
    BY <1>5, <2>1 DEF Waiting
  <2>7. \A k, l \in DOMAIN backlog : backlog[k] = backlog[l] => k = l
    BY DEF Waiting
  <2> QED
    BY <1>3, <2>3, <2>5, <2>6, <2>7 DEF Waiting, OnDescriptor
<1> QED
  BY <1>6, <1>7

\* Reading changes the buffer of the slot that is served, and no table.
LEMMA TablesRead ==
    ASSUME TablesAgree, Waiting,
           NEW i \in Slot, NEW fd \in Fd, NEW c \in Conn, NEW n,
           ReadBytes(i, fd, c, n),
           NEW bytes \in Seq(Cell), StoreBuffer(fd, bytes),
           wire' \in [Conn -> Seq(Cell)], taken' \in [Conn -> Seq(Nat)],
           inbox' \in [Conn -> Seq(Delivery)], peer' \in [Conn -> Peer],
           \A d \in Conn : \/ peer'[d] = peer[d]
                           \/ peer[d] = "closed" /\ peer'[d] = "answered"
    PROVE  TablesAgree' /\ Waiting'
<1>1. LoopTypeOK /\ Serve(i, fd, c)
  BY DEF TablesAgree, ReadBytes
<1>2. poll_list[i] = fd
  BY <1>1, ServedSlot
<1>3. /\ UNCHANGED <<sent, backlog, descriptor, poll_list>>
      /\ ready' = [j \in DOMAIN ready \ {i} |-> ready[j]]
      /\ local_buffer' = [f \in DOMAIN local_buffer \cup {fd} |->
                            IF f = fd THEN bytes ELSE local_buffer[f]]
  BY DEF ReadBytes, Serve, StoreBuffer
<1>4. DOMAIN local_buffer' = DOMAIN local_buffer \cup {fd}
      /\ DOMAIN ready' = DOMAIN ready \ {i}
  BY <1>3
<1>5. LoopTypeOK'
  <2>1. /\ DOMAIN ready' \subseteq Slot
        /\ ready' \in [DOMAIN ready' -> {"in", "hup"}]
    BY <1>1, <1>3 DEF LoopTypeOK
  <2>2. /\ DOMAIN local_buffer' \subseteq Fd
        /\ local_buffer' \in [DOMAIN local_buffer' -> Seq(Cell)]
    BY <1>1, <1>3 DEF LoopTypeOK
  <2> QED
    BY <1>1, <1>3, <2>1, <2>2 DEF LoopTypeOK
<1>6. TablesAgree'
  <2>1. \A f \in DOMAIN local_buffer' : \E j \in Slot : poll_list[j] = f
    BY <1>2, <1>4 DEF TablesAgree
  <2>2. \A j \in DOMAIN ready' : poll_list[j] # NoFd
    BY <1>4 DEF TablesAgree
  <2> QED
    BY <1>3, <1>5, <2>1, <2>2 DEF TablesAgree
<1>7. Waiting'
  <2>1. /\ \A k \in DOMAIN backlog : backlog[k] \in Conn
        /\ \A f \in Fd : descriptor[f] # Nil => descriptor[f] \in Conn
    BY <1>1 DEF LoopTypeOK
  <2>2. \A d \in Conn : peer[d] \notin {"new", "dropped"} =>
                        peer'[d] \notin {"new", "dropped"}
    OBVIOUS
  <2> QED
    BY <1>3, <2>1, <2>2 DEF Waiting, OnDescriptor
<1> QED
  BY <1>6, <1>7

\* What an action that handles a packet does, with the packet by its number.
HandlesNext(i, fd, c, n, written) ==
    LET j == Len(taken[c]) + 1
    IN  /\ ReadBytes(i, fd, c, n)
        /\ NextPacket(Bytes(fd, c, n)) > 0
        /\ StoreBuffer(fd, Rest(fd, c, n))
        /\ j \in 1..Len(Script[c]) /\ Script[c][j] \in Packet
        /\ HandlePacket(fd, Script[c][j])
        /\ taken' = [taken EXCEPT ![c] = Append(@, j)]
        /\ written \subseteq emitted'
        /\ WrittenOut(emitted', written)
        /\ Deliver(c, j, written)

\* ReadPacket handles the next packet of its client.
LEMMA ReadPacketIs ==
    ASSUME TablesAgree, TakenInOrder, StreamIntact, ReadPacket
    PROVE  \E i \in Slot, fd \in Fd, c \in Conn, n \in 1..Mtu,
              written \in SUBSET emitted' : HandlesNext(i, fd, c, n, written)
<1>1. PICK i \in Slot, fd \in Fd, c \in Conn, n \in 1..Mtu :
        LET bytes == Bytes(fd, c, n)
            first == bytes[1].packet
        IN  /\ ReadBytes(i, fd, c, n)
            /\ NextPacket(bytes) > 0
            /\ StoreBuffer(fd, Leftover(bytes, NextPacket(bytes)))
            /\ HandlePacket(fd, Script[c][first])
            /\ taken' = [taken EXCEPT ![c] = Append(@, first)]
            /\ \E written \in SUBSET emitted' :
                  /\ WrittenOut(emitted', written)
                  /\ Deliver(c, first, written)
  BY DEF ReadPacket, Bytes
<1>2. /\ Bytes(fd, c, n)[1].packet = Len(taken[c]) + 1
      /\ Len(taken[c]) + 1 \in 1..Len(Script[c])
      /\ Script[c][Len(taken[c]) + 1] \in Packet
  BY <1>1, HandledIsNext
<1> QED
  BY <1>1, <1>2 DEF HandlesNext, Rest

\* The copies on their way are those of one call.
LEMMA WrittenDistinct ==
    ASSUME TypeOK, TypeOK', NEW i, NEW fd \in Fd, NEW c, NEW n, NEW written,
           HandlesNext(i, fd, c, n, written)
    PROVE  Distinct(written) /\ written \subseteq Emission
<1>1. Distinct(emitted') /\ written \subseteq emitted'
  BY HandledDistinct DEF HandlesNext
<1>2. IsFiniteSet(written)
  BY <1>1, FS_Subset DEF Distinct
<1> QED
  BY <1>1, <1>2 DEF Distinct, TypeOK

\* Handling a packet keeps the types of the histories.
LEMMA HandledTypes ==
    ASSUME LoopTypeOK, TypeOK, TypeOK', NEW i, NEW fd \in Fd, NEW c \in Conn,
           NEW n, NEW written, HandlesNext(i, fd, c, n, written)
    PROVE  /\ taken' \in [Conn -> Seq(Nat)]
           /\ inbox' \in [Conn -> Seq(Delivery)]
           /\ peer' \in [Conn -> Peer]
           /\ \A d \in Conn : \/ peer'[d] = peer[d]
                              \/ peer[d] = "closed" /\ peer'[d] = "answered"
<1> DEFINE j == Len(taken[c]) + 1
<1>1. /\ j \in Nat /\ Deliver(c, j, written)
      /\ taken' = [taken EXCEPT ![c] = Append(@, j)]
  BY DEF HandlesNext, LoopTypeOK
<1> HIDE DEF j
<1>2. taken' \in [Conn -> Seq(Nat)]
  BY <1>1 DEF LoopTypeOK
<1>3. inbox' \in [Conn -> Seq(Delivery)]
  <2>1. ASSUME NEW d \in Conn
        PROVE  inbox'[d] \in Seq(Delivery)
    <3>1. Distinct(written) /\ written \subseteq Emission
      BY WrittenDistinct
    <3>2. PICK q \in Seq(Delivery) : Added(c, j, written, d, q)
      BY <1>1, <3>1, DeliverFacts
    <3>3. inbox'[d] = inbox[d] \o q /\ inbox[d] \in Seq(Delivery)
      BY <3>2 DEF Added, LoopTypeOK
    <3> QED
      BY <3>3, ConcatProperties
  <2>2. inbox' = [d \in Conn |-> inbox'[d]]
    BY <1>1 DEF Deliver
  <2> QED
    BY <2>1, <2>2
<1>4. /\ peer' \in [Conn -> Peer]
      /\ \A d \in Conn : \/ peer'[d] = peer[d]
                         \/ peer[d] = "closed" /\ peer'[d] = "answered"
  BY <1>1, DeliverPeers
<1> QED
  BY <1>2, <1>3, <1>4

(***************************************************************************)
(* No step takes the tables apart.                                         *)
(***************************************************************************)
LEMMA TablesStep ==
    ASSUME TypeOK, TypeOK', TablesAgree, Waiting, TakenInOrder,
           UnreadWhileWaiting, StreamIntact, LoopNext
    PROVE  TablesAgree' /\ Waiting'
<1>1. LoopTypeOK
  BY DEF TablesAgree
<1>2. CASE ClientStep
  BY <1>2, TablesClient
<1>3. CASE Accept \/ AcceptWhenFull
  BY <1>3, TablesAccept
<1>4. CASE Poll
  <2>1. /\ ready' = [i \in Events |-> Event(i)]
        /\ UNCHANGED <<kernel, taken, poll_list, local_buffer>>
    BY <1>4 DEF Poll
  <2>2. \A i \in Events : /\ i \in Slot /\ poll_list[i] # NoFd
                          /\ Event(i) \in {"in", "hup"}
    BY DEF Events, Event, Revents
  <2>3. LoopTypeOK'
    BY <1>1, <2>1, <2>2 DEF LoopTypeOK, kernel
  <2>4. \A i \in DOMAIN ready' : poll_list'[i] # NoFd
    BY <2>1, <2>2
  <2> QED
    BY <2>1, <2>3, <2>4 DEF TablesAgree, Waiting, OnDescriptor, kernel
<1>5. CASE HangUp \/ ReadFails
  <2>1. PICK i \in Slot, fd \in Fd, c \in Conn :
           Serve(i, fd, c) /\ DropClient(i, fd, c)
    BY <1>5 DEF HangUp, ReadFails
  <2> QED
    BY <2>1, TablesDrop
<1>6. CASE Overflow \/ ReadPart
  <2>1. PICK i \in Slot, fd \in Fd, c \in Conn, n \in 1..Mtu :
          /\ ReadBytes(i, fd, c, n)
          /\ \/ StoreBuffer(fd, Buffer(fd))
             \/ StoreBuffer(fd, Bytes(fd, c, n))
          /\ UNCHANGED <<peer, inbox, taken>>
    BY <1>6 DEF Overflow, ReadPart, Bytes
  <2>2. /\ Bytes(fd, c, n) \in Seq(Cell) /\ Buffer(fd) \in Seq(Cell)
        /\ wire' = [wire EXCEPT ![c] = Unread(wire[c], n)]
        /\ Unread(wire[c], n) \in Seq(Cell)
    BY <1>1, <2>1, ReadFacts, BufferType
  <2>3. /\ wire' \in [Conn -> Seq(Cell)] /\ taken' \in [Conn -> Seq(Nat)]
        /\ inbox' \in [Conn -> Seq(Delivery)] /\ peer' \in [Conn -> Peer]
        /\ \A d \in Conn : peer'[d] = peer[d]
    BY <1>1, <2>1, <2>2 DEF LoopTypeOK
  <2> QED
    BY <2>1, <2>2, <2>3, TablesRead
<1>7. CASE ReadPacket
  <2>1. PICK i \in Slot, fd \in Fd, c \in Conn, n \in 1..Mtu,
             written \in SUBSET emitted' :
             HandlesNext(i, fd, c, n, written)
    BY <1>7, ReadPacketIs
  <2>2. /\ ReadBytes(i, fd, c, n) /\ NextPacket(Bytes(fd, c, n)) > 0
        /\ StoreBuffer(fd, Rest(fd, c, n))
    BY <2>1 DEF HandlesNext
  <2>3. /\ Rest(fd, c, n) \in Seq(Cell)
        /\ wire' = [wire EXCEPT ![c] = Unread(wire[c], n)]
        /\ Unread(wire[c], n) \in Seq(Cell)
    BY <2>2, ReadFacts
  <2>4. wire' \in [Conn -> Seq(Cell)]
    BY <1>1, <2>3 DEF LoopTypeOK
  <2>5. /\ taken' \in [Conn -> Seq(Nat)]
        /\ inbox' \in [Conn -> Seq(Delivery)] /\ peer' \in [Conn -> Peer]
        /\ \A d \in Conn : \/ peer'[d] = peer[d]
                           \/ peer[d] = "closed" /\ peer'[d] = "answered"
    BY <1>1, <2>1, HandledTypes
  <2> QED
    BY <2>2, <2>3, <2>4, <2>5, TablesRead
<1> QED
  BY <1>2, <1>3, <1>4, <1>5, <1>6, <1>7 DEF LoopNext, RouterStep

-----------------------------------------------------------------------------
(* The streams.                                                            *)

\* One more packet sent, and in the socket.
LEMMA IntactExtends ==
    ASSUME NEW c \in Conn, NEW m \in Nat, NEW s \in Nat,
           NEW b \in Seq(Cell), NEW w \in Seq(Cell), Intact(c, m, s, b, w)
    PROVE  Intact(c, m, s + 1, b, Cat(w, PacketCells(c, s + 1)))
<1> DEFINE p == PacketCells(c, s + 1)
           u == Upto(c, m)
<1>1. p \in Seq(Cell) /\ u \in Seq(Cell)
  <2>1. s + 1 \in Nat
    OBVIOUS
  <2> QED
    BY <2>1, PacketCellsType, UptoIsBlocks
<1>2. Upto(c, s + 1) = Cat(Upto(c, s), p)
  BY UptoNext
<1> HIDE DEF p, u
<1>3. Cat(b, w) \in Seq(Cell)
  BY CatType
<1>4. Cat(Cat(u, Cat(b, w)), p) = Cat(u, Cat(Cat(b, w), p))
  BY <1>1, <1>3, CatAssociative
<1>5. Cat(Cat(b, w), p) = Cat(b, Cat(w, p))
  BY <1>1, CatAssociative
<1> QED
  BY <1>2, <1>4, <1>5 DEF Intact, p, u

\* A connection that was not read from yet.
LEMMA IntactUnread ==
    ASSUME NEW c \in Conn, NEW s \in Nat
    PROVE  Intact(c, 0, s, <<>>, Upto(c, s))
<1>1. Upto(c, s) \in Seq(Cell)
  BY UptoIsBlocks
<1>2. Cat(<<>>, Cat(<<>>, Upto(c, s))) = Upto(c, s)
  BY <1>1, CatNothing
<1> QED
  BY <1>2, UptoNone DEF Intact

StreamsInv == TakenInOrder /\ UnreadWhileWaiting /\ OpenIntact

\* What clients do leaves their streams intact: they write whole packets.
LEMMA StreamsClient ==
    ASSUME TablesAgree, Waiting, StreamsInv, ClientStep
    PROVE  StreamsInv'
<1>1. LoopTypeOK
  BY DEF TablesAgree
<1>2. PICK c \in Conn : Made(c) \/ Writes(c) \/ Closes(c) \/ ResetArrives(c)
  BY DEF ClientStep
<1>3. UNCHANGED <<status, local_buffer, descriptor, taken>>
  BY <1>2 DEF Made, Writes, Closes, ResetArrives, loop, vars
<1>4. CASE ~ Writes(c)
  <2>1. UNCHANGED <<sent, wire>>
    BY <1>2, <1>4 DEF Made, Closes, ResetArrives
  <2>2. \A d \in Conn : peer'[d] # "dropped" => peer[d] # "dropped"
    <3>1. /\ peer[c] # "dropped"
          /\ \E s : peer' = [peer EXCEPT ![c] = s]
      BY <1>2, <1>4 DEF Made, Closes, ResetArrives
    <3> QED
      BY <1>1, <3>1 DEF LoopTypeOK
  <2>3. TakenInOrder' /\ UnreadWhileWaiting'
    BY <1>3, <2>1, <2>2
    DEF StreamsInv, TakenInOrder, UnreadWhileWaiting, OnDescriptor, Upto
  <2>4. OpenIntact'
    BY <1>3, <2>1 DEF StreamsInv, OpenIntact, IntactBehind, Buffer
  <2> QED
    BY <2>3, <2>4 DEF StreamsInv
<1>5. CASE Writes(c)
  <2>1. /\ sent[c] < Len(Script[c])
        /\ sent' = [sent EXCEPT ![c] = @ + 1]
        /\ wire' = [wire EXCEPT ![c] = @ \o PacketCells(c, sent'[c])]
        /\ UNCHANGED peer
    BY <1>5 DEF Writes
  <2>2. /\ sent \in [Conn -> Nat] /\ wire \in [Conn -> Seq(Cell)]
        /\ Len(taken[c]) \in Nat /\ Len(Script[c]) \in Nat
    BY <1>1, LoopAssumption DEF LoopTypeOK
  <2>3. \A d \in Conn : /\ sent'[d] = IF d = c THEN sent[c] + 1 ELSE sent[d]
                        /\ wire'[d] = IF d = c
                              THEN Cat(wire[c], PacketCells(c, sent[c] + 1))
                              ELSE wire[d]
    BY <2>1, <2>2 DEF Cat
  <2>4. TakenInOrder'
    <3>1. ASSUME NEW d \in Conn
          PROVE  Len(taken[d]) <= sent'[d] /\ sent'[d] <= Len(Script[d])
      <4>1. Len(taken[d]) <= sent[d] /\ sent[d] <= Len(Script[d])
        BY DEF StreamsInv, TakenInOrder
      <4>2. Len(taken[d]) \in Nat /\ sent[d] \in Nat
        BY <1>1 DEF LoopTypeOK
      <4> QED
        BY <2>1, <2>2, <2>3, <4>1, <4>2
    <3>2. \A d \in Conn : taken[d] = [k \in 1..Len(taken[d]) |-> k]
      BY DEF StreamsInv, TakenInOrder
    <3> DEFINE Numbered(t) == t = [k \in 1..Len(t) |-> k]
    <3>3. \A d \in Conn : Numbered(taken'[d])
      BY <1>3, <3>2
    <3> QED
      BY <1>3, <3>1, <3>3 DEF TakenInOrder
  <2>5. UnreadWhileWaiting'
    <3>1. ASSUME NEW d \in Conn, ~ OnDescriptor(d), peer[d] # "dropped"
          PROVE  taken[d] = <<>> /\ wire'[d] = Upto(d, sent'[d])
      <4>1. taken[d] = <<>> /\ wire[d] = Upto(d, sent[d])
        BY <3>1 DEF StreamsInv, UnreadWhileWaiting
      <4>2. Upto(d, sent[d] + 1) = Cat(Upto(d, sent[d]), PacketCells(d, sent[d] + 1))
        BY <2>2, UptoNext
      <4> QED
        BY <2>3, <4>1, <4>2
    <3>2. \A d \in Conn : OnDescriptor(d)' <=> OnDescriptor(d)
      BY <1>3 DEF OnDescriptor
    <3>3. \A d \in Conn : Upto(d, sent[d])' = Upto(d, sent'[d])
      BY DEF Upto
    <3> QED
      BY <1>3, <2>1, <3>1, <3>2, <3>3 DEF UnreadWhileWaiting
  <2>6. OpenIntact'
    <3>1. ASSUME status # "assert", NEW f \in Fd, descriptor[f] # Nil
          PROVE  LET d == descriptor[f]
                 IN  Intact(d, Len(taken[d]), sent'[d], Buffer(f), wire'[d])
      <4> DEFINE d == descriptor[f]
      <4>1. d \in Conn
        BY <1>1, <3>1 DEF LoopTypeOK
      <4>2. Intact(d, Len(taken[d]), sent[d], Buffer(f), wire[d])
        BY <3>1 DEF StreamsInv, OpenIntact, IntactBehind
      <4>3. Buffer(f) \in Seq(Cell)
        BY <1>1, BufferType
      <4> HIDE DEF d
      <4>4. CASE d = c
        <5>1. Intact(c, Len(taken[c]), sent[c] + 1, Buffer(f),
                     Cat(wire[c], PacketCells(c, sent[c] + 1)))
          BY <2>2, <4>2, <4>3, <4>4, IntactExtends
        <5> QED
          BY <2>3, <4>4, <5>1 DEF d
      <4>5. CASE d # c
        BY <2>3, <4>1, <4>2, <4>5 DEF d
      <4> QED
        BY <4>4, <4>5
    <3>2. \A f \in Fd : Buffer(f)' = Buffer(f)
      BY <1>3 DEF Buffer
    <3> QED
      BY <1>3, <3>1, <3>2 DEF OpenIntact, IntactBehind
  <2> QED
    BY <2>4, <2>5, <2>6 DEF StreamsInv
<1> QED
  BY <1>4, <1>5

\* A connection that is accepted has not been read from.
LEMMA StreamsAccept ==
    ASSUME TablesAgree, Waiting, StreamsInv, Accept \/ AcceptWhenFull
    PROVE  StreamsInv'
<1> DEFINE c == Head(backlog)
           g == NewFd
<1>1. LoopTypeOK
  BY DEF TablesAgree
<1>2. /\ backlog # <<>> /\ Free # {}
      /\ UNCHANGED <<status, sent, wire, taken, local_buffer>>
  BY DEF Accept, AcceptWhenFull, loop, vars
<1>3. g \in Fd /\ descriptor[g] = Nil
  BY <1>2, NewFdIsFree
<1>4. c \in Conn /\ ~ OnDescriptor(c) /\ peer[c] # "dropped" /\ c # Nil
  <2>1. backlog \in Seq(Conn)
    BY <1>1 DEF LoopTypeOK
  <2>2. 1 \in DOMAIN backlog /\ c = backlog[1] /\ c \in Conn
    BY <1>2, <2>1, HeadAndTail
  <2> QED
    BY <2>2, LoopAssumption DEF Waiting
<1>5. \/ /\ descriptor' = [descriptor EXCEPT ![g] = c]
         /\ UNCHANGED peer
      \/ /\ peer' = [peer EXCEPT ![c] = "dropped"]
         /\ UNCHANGED descriptor
  BY DEF Accept, AcceptWhenFull
<1> HIDE DEF c, g
<1>6. /\ \A f \in Fd : \/ descriptor'[f] = descriptor[f]
                       \/ f = g /\ descriptor'[f] = c
      /\ \A d \in Conn : OnDescriptor(d) => \E f \in Fd : descriptor'[f] = d
      /\ \A d \in Conn : peer'[d] # "dropped" => peer[d] # "dropped"
  <2>1. CASE descriptor' = [descriptor EXCEPT ![g] = c] /\ UNCHANGED peer
    <3>1. \A f \in Fd : descriptor'[f] = IF f = g THEN c ELSE descriptor[f]
      BY <1>1, <2>1 DEF LoopTypeOK
    <3>2. \A d \in Conn : OnDescriptor(d) => \E f \in Fd : descriptor'[f] = d
      <4>1. \A d \in Conn : \A f \in Fd : descriptor[f] = d => f # g
        BY <1>3, LoopAssumption
      <4> QED
        BY <3>1, <4>1 DEF OnDescriptor
    <3> QED
      BY <2>1, <3>1, <3>2
  <2>2. CASE peer' = [peer EXCEPT ![c] = "dropped"] /\ UNCHANGED descriptor
    <3>1. \A d \in Conn : peer'[d] # "dropped" => peer'[d] = peer[d]
      BY <1>1, <2>2 DEF LoopTypeOK
    <3> QED
      BY <2>2, <3>1 DEF OnDescriptor
  <2> QED
    BY <1>5, <2>1, <2>2
<1>7. TakenInOrder'
  BY <1>2 DEF StreamsInv, TakenInOrder
<1>8. UnreadWhileWaiting'
  BY <1>2, <1>6 DEF StreamsInv, UnreadWhileWaiting, OnDescriptor, Upto
<1>9. \A f \in Fd : Buffer(f)' = Buffer(f)
  BY <1>2 DEF Buffer
<1>10. Intact(c, Len(taken[c]), sent[c], Buffer(g), wire[c])
  <2>1. taken[c] = <<>> /\ wire[c] = Upto(c, sent[c]) /\ sent[c] \in Nat
    BY <1>1, <1>4 DEF StreamsInv, UnreadWhileWaiting, LoopTypeOK
  <2>2. g \notin DOMAIN local_buffer
    BY <1>3, NoFdIsNone DEF TablesAgree
  <2>3. Buffer(g) = <<>> /\ Len(taken[c]) = 0
    BY <2>1, <2>2 DEF Buffer
  <2> QED
    BY <1>4, <2>1, <2>3, IntactUnread
<1>11. OpenIntact'
  BY <1>2, <1>6, <1>9, <1>10 DEF StreamsInv, OpenIntact, IntactBehind
<1> QED
  BY <1>7, <1>8, <1>11 DEF StreamsInv

\* A client that is dropped leaves no stream to keep intact.
LEMMA StreamsDrop ==
    ASSUME TablesAgree, StreamsInv, NEW i \in Slot, NEW fd \in Fd,
           NEW c \in Conn, Serve(i, fd, c), DropClient(i, fd, c)
    PROVE  StreamsInv'
<1>1. LoopTypeOK
  BY DEF TablesAgree
<1>2. descriptor[fd] = c /\ \A f \in Fd : descriptor[f] = c => f = fd
  BY ServedSlot
<1>3. /\ local_buffer' = [f \in DOMAIN local_buffer \ {fd} |-> local_buffer[f]]
      /\ descriptor' = [descriptor EXCEPT ![fd] = Nil]
      /\ peer' = [peer EXCEPT ![c] = "dropped"]
      /\ UNCHANGED <<status, sent, wire, taken>>
  BY DEF DropClient, vars
<1>4. /\ \A f \in Fd : descriptor'[f] = IF f = fd THEN Nil ELSE descriptor[f]
      /\ \A d \in Conn : peer'[d] = IF d = c THEN "dropped" ELSE peer[d]
      /\ \A f \in Fd : f # fd => Buffer(f)' = Buffer(f)
  BY <1>1, <1>3 DEF LoopTypeOK, Buffer
<1>5. TakenInOrder'
  BY <1>3 DEF StreamsInv, TakenInOrder
<1>6. UnreadWhileWaiting'
  <2>1. \A d \in Conn : d # c => (OnDescriptor(d) => \E f \in Fd : descriptor'[f] = d)
    BY <1>2, <1>4 DEF OnDescriptor
  <2> QED
    BY <1>3, <1>4, <2>1 DEF StreamsInv, UnreadWhileWaiting, OnDescriptor, Upto
<1>7. OpenIntact'
  BY <1>3, <1>4 DEF StreamsInv, OpenIntact, IntactBehind
<1> QED
  BY <1>5, <1>6, <1>7 DEF StreamsInv

\* What is read goes to the packets that were taken, or stays in the buffer; the
\* streams of the others are not touched.
LEMMA StreamsRead ==
    ASSUME TablesAgree, StreamsInv,
           NEW i \in Slot, NEW fd \in Fd, NEW c \in Conn, NEW n \in 1..Mtu,
           ReadBytes(i, fd, c, n),
           NEW bytes, StoreBuffer(fd, bytes),
           \A d \in Conn : peer'[d] # "dropped" => peer[d] # "dropped",
           TakenInOrder', \A d \in Conn : d # c => taken'[d] = taken[d],
           status' # "assert" =>
               Intact(c, Len(taken'[c]), sent[c], bytes, wire'[c])
    PROVE  StreamsInv'
<1>1. LoopTypeOK /\ Serve(i, fd, c)
  BY DEF TablesAgree, ReadBytes
<1>2. /\ descriptor[fd] = c /\ \A f \in Fd : descriptor[f] = c => f = fd
      /\ OnDescriptor(c)
  BY <1>1, ServedSlot DEF OnDescriptor
<1>3. /\ UNCHANGED <<sent, descriptor>> /\ status = "running"
      /\ wire' = [wire EXCEPT ![c] = SubSeq(@, n + 1, Len(@))]
      /\ local_buffer' = [f \in DOMAIN local_buffer \cup {fd} |->
                            IF f = fd THEN bytes ELSE local_buffer[f]]
  BY <1>1 DEF ReadBytes, StoreBuffer, Serve
<1>4. /\ \A d \in Conn : d # c => wire'[d] = wire[d]
      /\ \A f \in Fd : Buffer(f)' = IF f = fd THEN bytes ELSE Buffer(f)
  BY <1>1, <1>3 DEF LoopTypeOK, Buffer
<1>5. UnreadWhileWaiting'
  <2>1. ASSUME NEW d \in Conn, ~ OnDescriptor(d), peer'[d] # "dropped"
        PROVE  taken'[d] = <<>> /\ wire'[d] = Upto(d, sent[d])
    <3>1. d # c /\ peer[d] # "dropped"
      BY <1>2, <2>1
    <3> QED
      BY <1>4, <2>1, <3>1 DEF StreamsInv, UnreadWhileWaiting
  <2>2. \A d \in Conn : OnDescriptor(d)' <=> OnDescriptor(d)
    BY <1>3 DEF OnDescriptor
  <2>3. \A d \in Conn : Upto(d, sent[d])' = Upto(d, sent[d])
    BY <1>3 DEF Upto
  <2> QED
    BY <2>1, <2>2, <2>3 DEF UnreadWhileWaiting
<1>6. OpenIntact'
  <2>1. ASSUME status' # "assert", NEW f \in Fd, descriptor[f] # Nil
        PROVE  LET d == descriptor[f]
               IN  Intact(d, Len(taken'[d]), sent[d], Buffer(f)', wire'[d])
    <3>1. CASE f = fd
      BY <1>2, <1>4, <2>1, <3>1
    <3>2. CASE f # fd
      <4>1. descriptor[f] \in Conn /\ descriptor[f] # c
        BY <1>1, <1>2, <2>1, <3>2 DEF LoopTypeOK
      <4>2. Intact(descriptor[f], Len(taken[descriptor[f]]), sent[descriptor[f]],
                   Buffer(f), wire[descriptor[f]])
        BY <1>3, <2>1 DEF StreamsInv, OpenIntact, IntactBehind
      <4> QED
        BY <1>4, <3>2, <4>1, <4>2
    <3> QED
      BY <3>1, <3>2
  <2> QED
    BY <1>3, <2>1 DEF OpenIntact, IntactBehind
<1> QED
  BY <1>5, <1>6 DEF StreamsInv

(***************************************************************************)
(* No step loses, repeats or reorders anything of a stream.                *)
(***************************************************************************)
LEMMA StreamsStep ==
    ASSUME TypeOK, TypeOK', TablesAgree, Waiting, StreamsInv, LoopNext
    PROVE  StreamsInv'
<1>1. LoopTypeOK /\ StreamIntact /\ TakenInOrder
  BY StreamsIntact DEF TablesAgree, StreamsInv
<1>2. CASE ClientStep
  BY <1>2, StreamsClient
<1>3. CASE Accept \/ AcceptWhenFull
  BY <1>3, StreamsAccept
<1>4. CASE Poll
  <2>1. UNCHANGED <<status, peer, sent, wire, descriptor, taken, local_buffer>>
    BY <1>4 DEF Poll, vars, kernel
  <2> QED
    BY <2>1 DEF StreamsInv, TakenInOrder, UnreadWhileWaiting, OpenIntact,
                IntactBehind, OnDescriptor, Buffer, Upto
<1>5. CASE HangUp \/ ReadFails
  <2>1. PICK i \in Slot, fd \in Fd, c \in Conn :
           Serve(i, fd, c) /\ DropClient(i, fd, c)
    BY <1>5 DEF HangUp, ReadFails
  <2> QED
    BY <2>1, StreamsDrop
<1>6. CASE Overflow
  <2>1. PICK i \in Slot, fd \in Fd, c \in Conn, n \in 1..Mtu :
          /\ ReadBytes(i, fd, c, n) /\ StoreBuffer(fd, Buffer(fd))
          /\ AssertFails /\ UNCHANGED <<peer, taken>>
    BY <1>6 DEF Overflow
  <2>2. status' = "assert"
    BY <2>1 DEF AssertFails
  <2>3. TakenInOrder'
    BY <1>1, <2>1 DEF TakenInOrder, ReadBytes
  <2> QED
    BY <2>1, <2>2, <2>3, StreamsRead
<1>7. CASE ReadPart
  <2>1. PICK i \in Slot, fd \in Fd, c \in Conn, n \in 1..Mtu :
          /\ ReadBytes(i, fd, c, n) /\ StoreBuffer(fd, Bytes(fd, c, n))
          /\ UNCHANGED <<peer, taken>>
    BY <1>7 DEF ReadPart, Bytes
  <2>2. /\ Intact(c, Len(taken[c]), sent[c], Bytes(fd, c, n), Unread(wire[c], n))
        /\ wire' = [wire EXCEPT ![c] = Unread(wire[c], n)]
    BY <1>1, <2>1, ReadFacts
  <2>3. wire'[c] = Unread(wire[c], n)
    BY <1>1, <2>2 DEF LoopTypeOK
  <2>4. TakenInOrder'
    BY <1>1, <2>1 DEF TakenInOrder, ReadBytes
  <2>5. Intact(c, Len(taken'[c]), sent[c], Bytes(fd, c, n), wire'[c])
    BY <2>1, <2>2, <2>3
  <2> QED
    BY <2>1, <2>4, <2>5, StreamsRead
<1>8. CASE ReadPacket
  <2>1. PICK i \in Slot, fd \in Fd, c \in Conn, n \in 1..Mtu,
             written \in SUBSET emitted' :
             HandlesNext(i, fd, c, n, written)
    BY <1>1, <1>8, ReadPacketIs
  <2> DEFINE j == Len(taken[c])
  <2>2. /\ ReadBytes(i, fd, c, n) /\ NextPacket(Bytes(fd, c, n)) > 0
        /\ StoreBuffer(fd, Rest(fd, c, n))
        /\ taken' = [taken EXCEPT ![c] = Append(@, j + 1)]
    BY <2>1 DEF HandlesNext
  <2>3. /\ j \in Nat /\ j < sent[c] /\ sent[c] <= Len(Script[c])
        /\ Intact(c, j + 1, sent[c], Rest(fd, c, n), Unread(wire[c], n))
        /\ wire' = [wire EXCEPT ![c] = Unread(wire[c], n)]
    BY <1>1, <2>2, ReadFacts
  <2>4. wire'[c] = Unread(wire[c], n)
    BY <1>1, <2>3 DEF LoopTypeOK
  <2>5. /\ taken[c] \in Seq(Nat) /\ taken'[c] = Append(taken[c], j + 1)
        /\ \A d \in Conn : d # c => taken'[d] = taken[d]
    BY <1>1, <2>2 DEF LoopTypeOK
  <2>6. Len(taken'[c]) = j + 1
    BY <2>5
  <2>7. \A d \in Conn : peer'[d] # "dropped" => peer[d] # "dropped"
    BY <1>1, <2>1, HandledTypes
  <2>8. TakenInOrder'
    <3>1. taken'[c] = [k \in 1..j + 1 |-> k]
      <4> DEFINE t == taken[c]
                 u == taken'[c]
      <4>1. /\ t \in Seq(Nat) /\ Len(t) = j /\ u = Append(t, j + 1)
            /\ t = [k \in 1..j |-> k]
        BY <1>1, <2>5 DEF TakenInOrder
      <4> HIDE DEF t, u, j
      <4>2. \A k \in 1..j : t[k] = k
        BY <4>1
      <4>3. /\ DOMAIN u = 1..j + 1
            /\ \A k \in 1..j + 1 : u[k] = k
        BY <2>3, <4>1, <4>2
      <4>4. u = [k \in DOMAIN u |-> u[k]]
        <5>1. u \in Seq(Nat)
          BY <2>3, <4>1
        <5> QED
          BY <5>1
      <4> QED
        BY <4>3, <4>4 DEF u
    <3>2. sent' = sent /\ j + 1 <= sent[c]
      <4>1. sent[c] \in Nat
        BY <1>1 DEF LoopTypeOK
      <4> QED
        BY <2>2, <2>3, <4>1 DEF ReadBytes
    <3> DEFINE m == j + 1
               Ordered(t, s, d) == /\ t = [k \in 1..Len(t) |-> k]
                                   /\ Len(t) <= s /\ s <= Len(Script[d])
    <3>3. Len(taken'[c]) = m /\ taken'[c] = [k \in 1..m |-> k] /\ m <= sent[c]
      BY <2>6, <3>1, <3>2
    <3> HIDE DEF m
    <3>4. Ordered(taken'[c], sent[c], c)
      <4>1. [k \in 1..Len(taken'[c]) |-> k] = [k \in 1..m |-> k]
        BY <3>3
      <4>2. taken'[c] = [k \in 1..Len(taken'[c]) |-> k]
        BY <3>3, <4>1, Zenon
      <4> QED
        BY <2>3, <3>3, <4>2
    <3>5. \A d \in Conn : d # c => Ordered(taken[d], sent[d], d)
      BY <1>1 DEF TakenInOrder
    <3>6. \A d \in Conn : Ordered(taken'[d], sent[d], d)
      <4> HIDE DEF Ordered
      <4> QED
        BY <2>5, <3>4, <3>5
    <3> QED
      BY <3>2, <3>6 DEF TakenInOrder
  <2>9. Intact(c, Len(taken'[c]), sent[c], Rest(fd, c, n), wire'[c])
    BY <2>3, <2>4, <2>6
  <2> HIDE DEF j
  <2> QED
    BY <2>2, <2>5, <2>7, <2>8, <2>9, StreamsRead
<1> QED
  BY <1>2, <1>3, <1>4, <1>5, <1>6, <1>7, <1>8 DEF LoopNext, RouterStep

-----------------------------------------------------------------------------
(* The order of delivery.                                                  *)

\* Only a packet that is handled changes the histories and the address table.
LEMMA QuietSteps ==
    ASSUME LoopNext, ~ ReadPacket
    PROVE  UNCHANGED <<taken, inbox, address_table>>
BY DEF LoopNext, RouterStep, ClientStep, Made, Writes, Closes, ResetArrives,
       Accept, AcceptWhenFull, Poll, HangUp, ReadFails, DropClient, Overflow,
       AssertFails, ReadPart, vars, kernel, loop

\* One call's copies are added to inboxes that keep what they held.
GrownBy(c, written, d, q) ==
    LET m == Len(inbox[d])
    IN  /\ Added(c, Len(taken[c]) + 1, written, d, q)
        /\ DOMAIN inbox'[d] = 1..m + Len(q)
        /\ \A k \in 1..m : inbox'[d][k] = inbox[d][k]
        /\ \A k \in 1..Len(q) : inbox'[d][m + k] = q[k]
        /\ DOMAIN q = 1..Len(q) /\ Len(q) \in Nat

\* All that a delivery does to an inbox is append to it.
LEMMA InboxesGrow ==
    ASSUME LoopTypeOK, TypeOK, TypeOK', NEW i, NEW fd \in Fd, NEW c \in Conn,
           NEW n, NEW written, HandlesNext(i, fd, c, n, written), NEW d \in Conn
    PROVE  /\ Len(inbox[d]) \in Nat /\ DOMAIN inbox[d] = 1..Len(inbox[d])
           /\ \E q \in Seq(Delivery) : GrownBy(c, written, d, q)
<1> DEFINE j == Len(taken[c]) + 1
<1>1. j \in Nat /\ Deliver(c, j, written)
  BY DEF HandlesNext, LoopTypeOK
<1> HIDE DEF j
<1>2. Distinct(written) /\ written \subseteq Emission
  BY WrittenDistinct
<1>3. PICK q \in Seq(Delivery) : Added(c, j, written, d, q)
  BY <1>1, <1>2, DeliverFacts
<1>4. inbox[d] \in Seq(Delivery) /\ inbox'[d] = inbox[d] \o q
  BY <1>3 DEF Added, LoopTypeOK
<1> DEFINE b == inbox[d]
<1> HIDE DEF b
<1>5. /\ Len(b) \in Nat /\ DOMAIN b = 1..Len(b)
      /\ Len(q) \in Nat /\ DOMAIN q = 1..Len(q)
      /\ b \o q \in Seq(Delivery) /\ Len(b \o q) = Len(b) + Len(q)
      /\ DOMAIN (b \o q) = 1..Len(b) + Len(q)
  BY <1>4, ConcatProperties DEF b
<1>6. /\ \A k \in 1..Len(b) : (b \o q)[k] = b[k]
      /\ \A k \in 1..Len(q) : (b \o q)[Len(b) + k] = q[k]
  BY <1>4, <1>5 DEF b
<1> QED
  BY <1>3, <1>4, <1>5, <1>6 DEF GrownBy, b, j

(***************************************************************************)
(* A copy is added behind those of earlier packets of its connection, and  *)
(* of one packet in the order of the edges.                                *)
(***************************************************************************)
LEMMA DeliveryStep ==
    ASSUME TypeOK, TypeOK', TablesAgree, TakenInOrder, StreamIntact,
           DeliveredInOrder, LoopNext
    PROVE  DeliveredInOrder'
<1>1. LoopTypeOK
  BY DEF TablesAgree
<1>2. CASE ~ ReadPacket
  <2>1. UNCHANGED <<taken, inbox>>
    BY <1>2, QuietSteps
  <2> QED
    BY <2>1 DEF DeliveredInOrder, InOrderDelivery
<1>3. CASE ReadPacket
  <2>1. PICK i \in Slot, fd \in Fd, c \in Conn, n \in 1..Mtu,
             written \in SUBSET emitted' :
             HandlesNext(i, fd, c, n, written)
    BY <1>1, <1>3, ReadPacketIs
  <2> DEFINE j == Len(taken[c]) + 1
  <2>2. taken' = [taken EXCEPT ![c] = Append(@, j)]
    BY <2>1 DEF HandlesNext
  <2>3. /\ \A d \in Conn : Len(taken[d]) \in Nat /\ j \in Nat
        /\ \A d \in Conn : Len(taken'[d]) = IF d = c THEN j ELSE Len(taken[d])
    BY <1>1, <2>2 DEF LoopTypeOK
  <2>4. ASSUME NEW d \in Conn
        PROVE  /\ \A k \in DOMAIN inbox'[d] :
                    inbox'[d][k].packet \in 1..Len(taken'[inbox'[d][k].conn])
               /\ \A k, l \in DOMAIN inbox'[d] :
                    (k < l /\ inbox'[d][k].conn = inbox'[d][l].conn) =>
                       \/ inbox'[d][k].packet < inbox'[d][l].packet
                       \/ /\ inbox'[d][k].packet = inbox'[d][l].packet
                          /\ inbox'[d][k].edge < inbox'[d][l].edge
    <3> DEFINE b == inbox[d]
               x == inbox'[d]
               m == Len(b)
    <3>1. m \in Nat /\ DOMAIN b = 1..m
      BY <1>1, <2>1, InboxesGrow
    <3>2. PICK q \in Seq(Delivery) :
             /\ Added(c, j, written, d, q)
             /\ DOMAIN x = 1..m + Len(q)
             /\ \A k \in 1..m : x[k] = b[k]
             /\ \A k \in 1..Len(q) : x[m + k] = q[k]
             /\ DOMAIN q = 1..Len(q) /\ Len(q) \in Nat
      <4>1. PICK q \in Seq(Delivery) : GrownBy(c, written, d, q)
        BY <1>1, <2>1, InboxesGrow
      <4> QED
        BY <4>1 DEF GrownBy
    <3>3. /\ \A k \in 1..Len(q) : q[k].conn = c /\ q[k].packet = j
          /\ \A k, l \in 1..Len(q) : k < l => q[k].edge < q[l].edge
      BY <3>2 DEF Added
    <3>4. \A k \in 1..m : /\ b[k].conn \in Conn
                          /\ b[k].packet \in 1..Len(taken[b[k].conn])
      <4>1. \A k \in 1..m : b[k] \in Delivery
        BY <1>1, <3>1 DEF LoopTypeOK
      <4> QED
        BY <3>1, <4>1 DEF DeliveredInOrder, Delivery
    <3>5. \A k, l \in 1..m : (k < l /\ b[k].conn = b[l].conn) =>
             \/ b[k].packet < b[l].packet
             \/ b[k].packet = b[l].packet /\ b[k].edge < b[l].edge
      BY <3>1 DEF DeliveredInOrder, InOrderDelivery
    <3> HIDE DEF b, x, m, j
    <3>6. \A k \in DOMAIN x : \/ k \in 1..m /\ x[k] = b[k]
                              \/ /\ k - m \in 1..Len(q) /\ x[k] = q[k - m]
                                 /\ k \notin 1..m
      <4>1. ASSUME NEW k \in DOMAIN x, k \notin 1..m
            PROVE  k - m \in 1..Len(q) /\ x[k] = q[k - m]
        <5>1. k - m \in 1..Len(q) /\ m + (k - m) = k
          BY <3>1, <3>2, <4>1
        <5> QED
          BY <3>2, <5>1
      <4> QED
        BY <3>2, <4>1
    <3>7. \A k \in DOMAIN x : x[k].packet \in 1..Len(taken'[x[k].conn])
      <4>1. ASSUME NEW k \in DOMAIN x
            PROVE  x[k].packet \in 1..Len(taken'[x[k].conn])
        <5>1. CASE k \in 1..m /\ x[k] = b[k]
          <6>1. /\ b[k].conn \in Conn /\ b[k].packet \in 1..Len(taken[b[k].conn])
                /\ Len(taken[b[k].conn]) \in Nat
            BY <2>3, <3>4, <5>1
          <6>2. Len(taken[b[k].conn]) <= Len(taken'[b[k].conn])
                /\ Len(taken'[b[k].conn]) \in Nat
            BY <2>3, <6>1 DEF j
          <6> QED
            BY <5>1, <6>1, <6>2
        <5>2. CASE k - m \in 1..Len(q) /\ x[k] = q[k - m]
          <6>1. x[k].conn = c /\ x[k].packet = j
            BY <3>3, <5>2
          <6>2. j \in 1..Len(taken'[c])
            BY <2>3 DEF j
          <6> QED
            BY <6>1, <6>2
        <5> QED
          BY <3>6, <5>1, <5>2
      <4> QED
        BY <4>1
    <3>8. ASSUME NEW k \in DOMAIN x, NEW l \in DOMAIN x,
                 k < l, x[k].conn = x[l].conn
          PROVE  \/ x[k].packet < x[l].packet
                 \/ x[k].packet = x[l].packet /\ x[k].edge < x[l].edge
      <4>1. k \in Nat /\ l \in Nat /\ m \in Nat
        BY <3>1, <3>2
      <4>2. CASE l \in 1..m /\ x[l] = b[l]
        <5>1. k \in 1..m
          BY <3>2, <3>8, <4>1, <4>2
        <5>2. x[k] = b[k]
          BY <3>2, <5>1
        <5> QED
          BY <3>5, <3>8, <4>2, <5>1, <5>2
      <4>3. CASE l - m \in 1..Len(q) /\ x[l] = q[l - m]
        <5>1. x[l].conn = c /\ x[l].packet = j
          BY <3>3, <4>3
        <5>2. CASE k \in 1..m /\ x[k] = b[k]
          <6>1. b[k].packet \in 1..Len(taken[c])
            BY <3>4, <3>8, <5>1, <5>2
          <6>2. Len(taken[c]) \in Nat
            BY <2>3
          <6> QED
            BY <5>1, <5>2, <6>1, <6>2 DEF j
        <5>3. CASE k - m \in 1..Len(q) /\ x[k] = q[k - m]
          <6>1. k - m < l - m
            BY <3>8, <4>1
          <6>2. q[k - m].edge < q[l - m].edge /\ q[k - m].packet = j
            BY <3>3, <4>3, <5>3, <6>1
          <6> QED
            BY <4>3, <5>1, <5>3, <6>2
        <5> QED
          BY <3>6, <5>2, <5>3
      <4> QED
        BY <3>6, <4>2, <4>3
    <3> QED
      BY <3>7, <3>8 DEF x
  <2> QED
    BY <2>4 DEF DeliveredInOrder, InOrderDelivery
<1> QED
  BY <1>2, <1>3

-----------------------------------------------------------------------------
(* Owners.                                                                 *)

\* What a client was told, what it claimed and that it was dropped are for good.
LEMMA Forever ==
    ASSUME TypeOK, TypeOK', TablesAgree, TakenInOrder, StreamIntact, LoopNext,
           NEW d \in Conn, NEW a
    PROVE  /\ Owns(d, a) => Owns(d, a)'
           /\ Claimed(d, a) => Claimed(d, a)'
           /\ peer[d] = "dropped" => peer'[d] = "dropped"
<1>1. LoopTypeOK
  BY DEF TablesAgree
<1>2. CASE ~ ReadPacket
  <2>1. UNCHANGED <<taken, inbox>>
    BY <1>2, QuietSteps
  <2>2. peer[d] = "dropped" => peer'[d] = "dropped"
    <3>1. \/ UNCHANGED peer
          \/ \E c \in Conn : /\ peer[c] \in {"new", "up", "answered"}
                             /\ \E s : peer' = [peer EXCEPT ![c] = s]
          \/ \E c : peer' = [peer EXCEPT ![c] = "dropped"]
      <4>1. CASE ClientStep
        <5>1. PICK c \in Conn : Made(c) \/ Writes(c) \/ Closes(c) \/ ResetArrives(c)
          BY <4>1 DEF ClientStep
        <5> QED
          BY <5>1 DEF Made, Writes, Closes, ResetArrives
      <4>2. CASE RouterStep
        BY <1>2, <4>2
        DEF RouterStep, Accept, AcceptWhenFull, Poll, HangUp, ReadFails,
            DropClient, Overflow, ReadPart, kernel
      <4> QED
        BY <4>1, <4>2 DEF LoopNext
    <3>2. peer \in [Conn -> Peer]
      BY <1>1 DEF LoopTypeOK
    <3> QED
      BY <3>1, <3>2
  <2> QED
    BY <2>1, <2>2 DEF Owns, Claimed
<1>3. CASE ReadPacket
  <2>1. PICK i \in Slot, fd \in Fd, c \in Conn, n \in 1..Mtu,
             written \in SUBSET emitted' :
             HandlesNext(i, fd, c, n, written)
    BY <1>1, <1>3, ReadPacketIs
  <2>2. \A k \in DOMAIN inbox[d] : k \in DOMAIN inbox'[d]
                                   /\ inbox'[d][k] = inbox[d][k]
    <3>1. Len(inbox[d]) \in Nat /\ DOMAIN inbox[d] = 1..Len(inbox[d])
      BY <1>1, <2>1, InboxesGrow
    <3>2. PICK q \in Seq(Delivery) : GrownBy(c, written, d, q)
      BY <1>1, <2>1, InboxesGrow
    <3> QED
      BY <3>1, <3>2 DEF GrownBy
  <2>3. \A k \in DOMAIN taken[d] : k \in DOMAIN taken'[d]
                                   /\ taken'[d][k] = taken[d][k]
    <3>1. /\ taken' = [taken EXCEPT ![c] = Append(@, Len(taken[c]) + 1)]
          /\ taken \in [Conn -> Seq(Nat)]
      BY <1>1, <2>1 DEF HandlesNext, LoopTypeOK
    <3>2. \/ taken'[d] = taken[d]
          \/ taken'[d] = Append(taken[d], Len(taken[d]) + 1)
      BY <3>1
    <3>3. taken[d] \in Seq(Nat) /\ Len(taken[d]) + 1 \in Nat
      BY <3>1
    <3>4. \A k \in DOMAIN taken[d] :
              LET more == Append(taken[d], Len(taken[d]) + 1)
              IN  k \in DOMAIN more /\ more[k] = taken[d][k]
      BY <3>3
    <3> QED
      BY <3>2, <3>4, Zenon
  <2>4. peer[d] = "dropped" => peer'[d] = "dropped"
    BY <1>1, <2>1, HandledTypes
  <2> QED
    BY <2>2, <2>3, <2>4 DEF Owns, Claimed
<1> QED
  BY <1>2, <1>3

\* A connection keeps its descriptor until it is dropped.
LEMMA KeepsDescriptor ==
    ASSUME TablesAgree, Waiting, LoopNext, ~ ReadPacket,
           NEW f \in Fd, NEW d \in Conn, descriptor[f] = d
    PROVE  \/ descriptor'[f] = d /\ (peer'[d] = "up" => peer[d] = "up")
           \/ peer'[d] = "dropped"
<1>1. LoopTypeOK
  BY DEF TablesAgree
<1>2. peer[d] # "new" /\ d # Nil
  BY LoopAssumption DEF Waiting
<1>3. CASE ClientStep
  <2>1. PICK c \in Conn : Made(c) \/ Writes(c) \/ Closes(c) \/ ResetArrives(c)
    BY <1>3 DEF ClientStep
  <2>2. UNCHANGED descriptor
    BY <2>1 DEF Made, Writes, Closes, ResetArrives
  <2>3. \/ UNCHANGED peer
        \/ peer[c] = "new" /\ peer' = [peer EXCEPT ![c] = "up"]
        \/ \E s \in {"closed", "reset"} : peer' = [peer EXCEPT ![c] = s]
    BY <2>1 DEF Made, Writes, Closes, ResetArrives
  <2> QED
    BY <1>1, <1>2, <2>2, <2>3 DEF LoopTypeOK
<1>4. CASE Accept \/ AcceptWhenFull
  <2>1. \/ /\ UNCHANGED peer
           /\ descriptor' = [descriptor EXCEPT ![NewFd] = Head(backlog)]
        \/ /\ UNCHANGED descriptor
           /\ peer' = [peer EXCEPT ![Head(backlog)] = "dropped"]
    BY <1>4 DEF Accept, AcceptWhenFull
  <2>2. descriptor[NewFd] = Nil
    BY <1>4, NewFdIsFree DEF Accept, AcceptWhenFull
  <2> QED
    BY <1>1, <1>2, <2>1, <2>2 DEF LoopTypeOK
<1>5. CASE HangUp \/ ReadFails
  <2>1. PICK i \in Slot, fd \in Fd, c \in Conn :
           Serve(i, fd, c) /\ DropClient(i, fd, c)
    BY <1>5 DEF HangUp, ReadFails
  <2>2. /\ descriptor' = [descriptor EXCEPT ![fd] = Nil]
        /\ peer' = [peer EXCEPT ![c] = "dropped"]
        /\ descriptor[fd] = c
    BY <2>1, ServedSlot DEF DropClient
  <2> QED
    BY <1>1, <2>2 DEF LoopTypeOK
<1>6. CASE Poll \/ Overflow \/ ReadPart
  BY <1>6 DEF Poll, Overflow, ReadPart, ReadBytes, kernel
<1> QED
  BY <1>3, <1>4, <1>5, <1>6 DEF LoopNext, RouterStep

\* The reply to a claim reaches the client, if that is still there to read it.
LEMMA ClaimAnswered ==
    ASSUME TypeOK, TypeOK', TablesAgree, NEW i \in Slot, NEW fd \in Fd,
           NEW c \in Conn, NEW n, NEW written, HandlesNext(i, fd, c, n, written),
           status' = "running", NEW a \in Addr,
           emitted' = {[fd |-> fd, from |-> a, to |-> a, edge |-> 0]},
           peer[c] = "up"
    PROVE  Owns(c, a)'
<1>1. LoopTypeOK /\ Serve(i, fd, c)
  BY DEF TablesAgree, HandlesNext, ReadBytes
<1>2. descriptor[fd] = c
  BY <1>1, ServedSlot
<1>3. written = {[fd |-> fd, from |-> a, to |-> a, edge |-> 0]}
  BY DEF HandlesNext, WrittenOut
<1>4. PICK q \in Seq(Delivery) : GrownBy(c, written, c, q)
  BY <1>1, InboxesGrow
<1>5. Len(inbox[c]) \in Nat
  BY <1>1, InboxesGrow
<1>6. q # <<>>
  <2>1. [fd |-> fd, from |-> a, to |-> a, edge |-> 0] \in written
    BY <1>3
  <2>2. Receiver([fd |-> fd, from |-> a, to |-> a, edge |-> 0]) = c
    BY <1>2 DEF Receiver
  <2> QED
    BY <1>4, <2>1, <2>2 DEF GrownBy, Added
<1>7. 1 \in DOMAIN q /\ 1 \in 1..Len(q) /\ Len(q) \in Nat /\ Len(q) >= 1
  BY <1>6
<1>8. q[1].edge = 0 /\ q[1].to = a
  BY <1>3, <1>4, <1>7 DEF GrownBy, Added
<1>9. /\ Len(inbox[c]) + 1 \in DOMAIN inbox'[c]
      /\ inbox'[c][Len(inbox[c]) + 1] = q[1]
  BY <1>4, <1>5, <1>7 DEF GrownBy
<1> QED
  BY <1>8, <1>9 DEF Owns

\* The packet handled is in the history.
LEMMA ClaimRemembered ==
    ASSUME LoopTypeOK, TakenInOrder, NEW i, NEW fd, NEW c \in Conn, NEW n,
           NEW written, HandlesNext(i, fd, c, n, written), NEW a,
           Script[c][Len(taken[c]) + 1].kind = "new_address",
           Script[c][Len(taken[c]) + 1].address \in {a, AnyAddress}
    PROVE  Claimed(c, a)'
<1>1. /\ taken' = [taken EXCEPT ![c] = Append(@, Len(taken[c]) + 1)]
      /\ taken \in [Conn -> Seq(Nat)]
  BY DEF HandlesNext, LoopTypeOK
<1>2. /\ taken'[c] = Append(taken[c], Len(taken[c]) + 1)
      /\ taken[c] \in Seq(Nat)
  BY <1>1
<1>3. /\ Len(taken[c]) + 1 \in DOMAIN taken'[c]
      /\ taken'[c][Len(taken[c]) + 1] = Len(taken[c]) + 1
  BY <1>2
<1> QED
  BY <1>3 DEF Claimed

\* A context that is bound to a descriptor was claimed by a packet taken from it.
LEMMA BoundStep ==
    ASSUME TypeOK, TypeOK', TablesAgree, Waiting, TakenInOrder, StreamIntact,
           BoundToClaimants, LoopNext
    PROVE  BoundToClaimants'
<1>1. LoopTypeOK
  BY DEF TablesAgree
<1>2. \A a \in Known(address_table) : address_table[a].bound_fd \in Fd \cup {Unbound}
  BY DEF TypeOK, Known, Context
<1>3. ASSUME NEW a \in Known(address_table), status = "running",
             address_table[a].bound_fd # Unbound
      PROVE  \E d \in Conn :
                /\ Claimed(d, a)
                /\ \/ peer[d] = "dropped"
                   \/ /\ descriptor[address_table[a].bound_fd] = d
                      /\ peer[d] = "up" => Owns(d, a)
  BY <1>3 DEF BoundToClaimants, ClaimantKnown
<1>4. CASE ~ ReadPacket
  <2>1. UNCHANGED address_table /\ (status' = "running" => status = "running")
    <3>1. status' = "running" => status = "running"
      BY <1>4
      DEF LoopNext, RouterStep, ClientStep, Made, Writes, Closes, ResetArrives,
          Accept, AcceptWhenFull, Poll, HangUp, ReadFails, DropClient, Overflow,
          AssertFails, ReadPart, vars
    <3> QED
      BY <1>4, <3>1, QuietSteps
  <2>2. ASSUME NEW a \in Known(address_table), status = "running",
               address_table[a].bound_fd # Unbound
        PROVE  ClaimantKnown(a)'
    <3> DEFINE b == address_table[a].bound_fd
    <3>1. PICK d \in Conn :
             /\ Claimed(d, a)
             /\ \/ peer[d] = "dropped"
                \/ descriptor[b] = d /\ (peer[d] = "up" => Owns(d, a))
      BY <1>3, <2>2
    <3>2. b \in Fd /\ address_table'[a].bound_fd = b
      BY <1>2, <2>1, <2>2
    <3> HIDE DEF b
    <3>3. /\ Owns(d, a) => Owns(d, a)'
          /\ Claimed(d, a)'
          /\ peer[d] = "dropped" => peer'[d] = "dropped"
      BY <3>1, Forever
    <3>4. \/ peer'[d] = "dropped"
          \/ descriptor'[b] = d /\ (peer'[d] = "up" => Owns(d, a)')
      <4>1. CASE peer[d] = "dropped"
        BY <3>3, <4>1
      <4>2. CASE descriptor[b] = d /\ (peer[d] = "up" => Owns(d, a))
        BY <1>4, <3>2, <3>3, <4>2, KeepsDescriptor
      <4> QED
        BY <3>1, <4>1, <4>2
    <3> QED
      BY <3>2, <3>3, <3>4 DEF ClaimantKnown
  <2> QED
    BY <2>1, <2>2 DEF BoundToClaimants
<1>5. CASE ReadPacket
  <2>1. PICK i \in Slot, fd \in Fd, c \in Conn, n \in 1..Mtu,
             written \in SUBSET emitted' :
             HandlesNext(i, fd, c, n, written)
    BY <1>1, <1>5, ReadPacketIs
  <2> DEFINE p == Script[c][Len(taken[c]) + 1]
  <2>2. /\ p \in Packet /\ HandlePacket(fd, p) /\ status = "running"
        /\ Serve(i, fd, c) /\ UNCHANGED descriptor
    BY <2>1 DEF HandlesNext, HandlePacket, ReadBytes
  <2>3. descriptor[fd] = c
    BY <2>2, ServedSlot
  <2>4. \A d \in Conn : peer'[d] = "up" => peer[d] = "up"
    BY <1>1, <2>1, HandledTypes
  <2> HIDE DEF p
  <2>5. ASSUME NEW a \in Known(address_table),
               address_table[a].bound_fd # Unbound,
               address_table'[a].bound_fd = address_table[a].bound_fd
        PROVE  ClaimantKnown(a)'
    <3> DEFINE b == address_table[a].bound_fd
    <3>1. PICK d \in Conn :
             /\ Claimed(d, a)
             /\ \/ peer[d] = "dropped"
                \/ descriptor[b] = d /\ (peer[d] = "up" => Owns(d, a))
      BY <1>3, <2>2, <2>5
    <3> HIDE DEF b
    <3>2. /\ Owns(d, a) => Owns(d, a)'
          /\ Claimed(d, a)'
          /\ peer[d] = "dropped" => peer'[d] = "dropped"
      BY <3>1, Forever
    <3>3. \/ peer'[d] = "dropped"
          \/ descriptor'[b] = d /\ (peer'[d] = "up" => Owns(d, a)')
      BY <2>2, <2>4, <3>1, <3>2
    <3> QED
      BY <2>5, <3>2, <3>3 DEF ClaimantKnown, b
  <2>6. ASSUME status' = "running", NEW a \in Known(address_table'),
               address_table'[a].bound_fd # Unbound
        PROVE  ClaimantKnown(a)'
    <3>1. CASE p.kind = "new_address"
      <4>1. PICK x \in Addr :
               /\ p.address \in {x, AnyAddress}
               /\ emitted' = {[fd |-> fd, from |-> x, to |-> x, edge |-> 0]}
               /\ Known(address_table') = Known(address_table) \cup {x}
               /\ address_table'[x].bound_fd = fd
               /\ \A y \in Known(address_table) : y # x =>
                     address_table'[y].bound_fd = address_table[y].bound_fd
        BY <2>2, <3>1, HandledClaim
      <4>2. CASE a = x
        <5>1. Claimed(c, a)'
          BY <1>1, <2>1, <3>1, <4>1, <4>2, ClaimRemembered DEF p
        <5>2. peer'[c] = "up" => Owns(c, a)'
          BY <2>1, <2>4, <2>6, <4>1, <4>2, ClaimAnswered
        <5> QED
          BY <2>2, <2>3, <4>1, <4>2, <5>1, <5>2 DEF ClaimantKnown
      <4>3. CASE a # x
        BY <2>5, <2>6, <4>1, <4>3
      <4> QED
        BY <4>2, <4>3
    <3>2. CASE p.kind # "new_address"
      <4>1. \A y \in Known(address_table') :
               address_table'[y].bound_fd =
                   IF y \in Known(address_table)
                   THEN address_table[y].bound_fd ELSE Unbound
        BY <2>2, <3>2, HandledOther
      <4> QED
        BY <2>5, <2>6, <4>1
    <3> QED
      BY <3>1, <3>2
  <2> QED
    BY <2>6 DEF BoundToClaimants, Known
<1> QED
  BY <1>4, <1>5

\* A client other than d claimed a, and was dropped.
Reused(d, a) == \E e \in Conn \ {d} : peer[e] = "dropped" /\ Claimed(e, a)

(***************************************************************************)
(* A new copy goes to a client that is open on the descriptor its address  *)
(* is bound to: either the claimant, which knows, or one that came after   *)
(* the claimant was dropped.                                               *)
(***************************************************************************)
LEMMA StrangersStep ==
    ASSUME TypeOK, TypeOK', TablesAgree, Waiting, TakenInOrder, StreamIntact,
           BoundToClaimants, StrangersOnlyAfterReuse, LoopNext
    PROVE  StrangersOnlyAfterReuse'
<1>1. LoopTypeOK
  BY DEF TablesAgree
<1>2. ASSUME NEW d \in Conn, NEW a, Owns(d, a) \/ Reused(d, a)
      PROVE  Owns(d, a)' \/ Reused(d, a)'
  <2>1. CASE Owns(d, a)
    BY <2>1, Forever
  <2>2. CASE Reused(d, a)
    <3>1. PICK e \in Conn \ {d} : peer[e] = "dropped" /\ Claimed(e, a)
      BY <2>2 DEF Reused
    <3>2. peer'[e] = "dropped" /\ Claimed(e, a)'
      BY <3>1, Forever
    <3> QED
      BY <3>2 DEF Reused
  <2> QED
    BY <1>2, <2>1, <2>2
<1>3. ASSUME NEW d \in Conn, NEW k \in DOMAIN inbox[d]
      PROVE  Owns(d, inbox[d][k].to) \/ Reused(d, inbox[d][k].to)
  BY DEF StrangersOnlyAfterReuse, Reused
<1>4. ASSUME NEW d \in Conn, NEW k \in DOMAIN inbox'[d], NEW a,
             inbox'[d][k].to = a
      PROVE  Owns(d, a)' \/ Reused(d, a)'
  <2>1. CASE ~ ReadPacket
    <3>1. inbox' = inbox
      BY <2>1, QuietSteps
    <3>2. Owns(d, a) \/ Reused(d, a)
      BY <1>3, <1>4, <3>1
    <3> QED
      BY <1>2, <3>2
  <2>2. CASE ReadPacket
    <3>1. PICK i \in Slot, fd \in Fd, c \in Conn, n \in 1..Mtu,
               written \in SUBSET emitted' :
               HandlesNext(i, fd, c, n, written)
      BY <1>1, <2>2, ReadPacketIs
    <3>2. PICK q \in Seq(Delivery) : GrownBy(c, written, d, q)
      BY <1>1, <3>1, InboxesGrow
    <3>3. Len(inbox[d]) \in Nat /\ DOMAIN inbox[d] = 1..Len(inbox[d])
      BY <1>1, <3>1, InboxesGrow
    <3>4. CASE k \in DOMAIN inbox[d]
      <4>1. inbox'[d][k] = inbox[d][k]
        BY <3>2, <3>3, <3>4 DEF GrownBy
      <4>2. Owns(d, a) \/ Reused(d, a)
        BY <1>3, <1>4, <3>4, <4>1
      <4> QED
        BY <1>2, <4>2
    <3>5. CASE k \notin DOMAIN inbox[d]
      <4> DEFINE l == k - Len(inbox[d])
                 p == Script[c][Len(taken[c]) + 1]
      <4>1. l \in DOMAIN q /\ inbox'[d][k] = q[l]
        <5>1. k \in 1..Len(inbox[d]) + Len(q) /\ k \notin 1..Len(inbox[d])
          BY <3>2, <3>3, <3>5 DEF GrownBy
        <5>2. l \in 1..Len(q) /\ Len(inbox[d]) + l = k
          BY <3>2, <3>3, <5>1 DEF GrownBy
        <5> QED
          BY <3>2, <5>2 DEF GrownBy
      <4> HIDE DEF l
      <4>2. PICK e \in written : /\ Receiver(e) = d /\ peer[d] = "up"
                                 /\ q[l].edge = e.edge /\ q[l].to = e.to
        BY <3>2, <4>1 DEF GrownBy, Added
      <4>3. /\ p \in Packet /\ HandlePacket(fd, p) /\ status = "running"
            /\ e \in emitted'
        BY <3>1, <4>2 DEF HandlesNext, HandlePacket
      <4> HIDE DEF p
      <4>4. CASE p.kind = "new_address"
        <5>1. e.edge = 0
          BY <4>3, <4>4, HandledClaim
        <5>2. inbox'[d][k].edge = 0 /\ inbox'[d][k].to = a
          BY <1>4, <4>1, <4>2, <5>1
        <5> QED
          BY <5>2 DEF Owns
      <4>5. CASE p.kind # "new_address"
        <5>1. /\ e.to = a /\ a \in Known(address_table)
              /\ e.fd = address_table[a].bound_fd
          BY <1>4, <4>1, <4>2, <4>3, <4>5, HandledOther
        <5>2. e.fd \in Fd /\ descriptor[e.fd] = d
          BY <4>2, LoopAssumption DEF Receiver
        <5>3. address_table[a].bound_fd # Unbound
          BY <5>1, <5>2, RouterAssumption DEF Unbound
        <5>4. PICK o \in Conn :
                 /\ Claimed(o, a)
                 /\ \/ peer[o] = "dropped"
                    \/ /\ descriptor[address_table[a].bound_fd] = o
                       /\ peer[o] = "up" => Owns(o, a)
          BY <4>3, <5>1, <5>3 DEF BoundToClaimants, ClaimantKnown
        <5>5. Owns(d, a) \/ Reused(d, a)
          BY <4>2, <5>1, <5>2, <5>4 DEF Reused
        <5> QED
          BY <1>2, <5>5
      <4> QED
        BY <4>4, <4>5
    <3> QED
      BY <3>4, <3>5
  <2> QED
    BY <2>1, <2>2
<1> QED
  BY <1>4 DEF StrangersOnlyAfterReuse, Reused, Owns, Claimed

\* A copy that is written is for an address that the packet concerns.
LEMMA HandledConcerns ==
    ASSUME TypeOK, NEW fd \in Fd, NEW p \in Packet, HandlePacket(fd, p),
           p.kind # "new_address", NEW e \in emitted'
    PROVE  Concerns(e.to)'
<1>1. Forward(p) /\ handled' = p
  BY DEF HandlePacket, NewAddress, Connect, SetPolicy, Ignored, BadLookup,
         DivideByZero, Written
<1>2. /\ p.kind = "data" /\ p.source \in Known(address_table)
      /\ SameRoutes(address_table, address_table')
  BY <1>1, ForwardRoutes DEF Forward
<1>3. PICK chosen :
        /\ chosen \subseteq DOMAIN address_table[p.source].forward
        /\ emitted' = Copies(address_table, p.source,
                             Live(address_table, p.source, chosen))
  BY <1>1, ForwardRoutes
<1>4. PICK i \in DOMAIN address_table[p.source].forward :
         e.to = address_table[p.source].forward[i]
  BY <1>3 DEF Copies, Live
<1>5. /\ p.source \in Known(address_table')
      /\ address_table'[p.source].forward = address_table[p.source].forward
  BY <1>2 DEF SameRoutes, Known
<1>6. e.to \in Range(address_table'[p.source].forward)
  BY <1>4, <1>5 DEF Range
<1> QED
  BY <1>1, <1>2, <1>5, <1>6 DEF Concerns

(***************************************************************************)
(* The write that raises SIGPIPE is one of the packet's: to its claimant,  *)
(* or to the client on the descriptor that the address is bound to, which  *)
(* is the one that claimed it, or one that came after.  Then nothing but   *)
(* the clients moves.                                                      *)
(***************************************************************************)
LEMMA PipesStep ==
    ASSUME TypeOK, TypeOK', TablesAgree, TakenInOrder, StreamIntact,
           BoundToClaimants, OnlyReceiversBreakPipes, LoopNext
    PROVE  OnlyReceiversBreakPipes'
<1>1. LoopTypeOK
  BY DEF TablesAgree
<1> SUFFICES ASSUME status' = "sigpipe"
             PROVE  \E d \in Conn, a \in Addr :
                        /\ peer'[d] = "reset" /\ Concerns(a)'
                        /\ Claimed(d, a)' \/ Reused(d, a)'
  BY DEF OnlyReceiversBreakPipes, Reused
<1>2. ASSUME NEW d \in Conn, NEW a, Claimed(d, a) \/ Reused(d, a)
      PROVE  Claimed(d, a)' \/ Reused(d, a)'
  <2>1. CASE Claimed(d, a)
    BY <2>1, Forever
  <2>2. CASE Reused(d, a)
    <3>1. PICK o \in Conn \ {d} : peer[o] = "dropped" /\ Claimed(o, a)
      BY <2>2 DEF Reused
    <3>2. peer'[o] = "dropped" /\ Claimed(o, a)'
      BY <3>1, Forever
    <3> QED
      BY <3>2 DEF Reused
  <2> QED
    BY <1>2, <2>1, <2>2
<1>3. CASE ReadPacket
  <2>1. PICK i \in Slot, fd \in Fd, c \in Conn, n \in 1..Mtu,
             written \in SUBSET emitted' :
             HandlesNext(i, fd, c, n, written)
    BY <1>1, <1>3, ReadPacketIs
  <2> DEFINE j == Len(taken[c]) + 1
             p == Script[c][j]
  <2>2. /\ p \in Packet /\ HandlePacket(fd, p) /\ status = "running"
        /\ handled' = p /\ Serve(i, fd, c)
        /\ j \in Nat /\ Deliver(c, j, written)
    BY <1>1, <2>1 DEF HandlesNext, HandlePacket, ReadBytes, LoopTypeOK
  <2>3. PICK e \in emitted' : /\ Receiver(e) # Nil
                              /\ peer[Receiver(e)] = "reset"
    BY <2>1 DEF HandlesNext, WrittenOut, Broken
  <2> HIDE DEF p, j
  <2>4. PICK d \in Conn : /\ e.fd \in Fd /\ d = descriptor[e.fd]
                         /\ peer[d] = "reset"
    BY <1>1, <2>3 DEF Receiver, LoopTypeOK
  <2>5. e.to \in Addr
    BY DEF TypeOK, Emission
  <2>6. peer'[d] = "reset"
    <3>1. \A o \in Conn : \/ peer'[o] = peer[o]
                          \/ peer[o] = "closed" /\ peer'[o] = "answered"
      BY <1>1, <2>2, DeliverPeers
    <3> QED
      BY <2>4, <3>1
  <2>7. CASE p.kind = "new_address"
    <3>1. PICK a \in Addr :
             /\ p.address \in {a, AnyAddress}
             /\ emitted' = {[fd |-> fd, from |-> a, to |-> a, edge |-> 0]}
      BY <2>2, <2>7, HandledClaim
    <3>2. d = c
      BY <1>1, <2>2, <2>4, <3>1, ServedSlot
    <3>3. Claimed(c, a)'
      BY <1>1, <2>1, <2>7, <3>1, ClaimRemembered DEF p, j
    <3>4. Concerns(a)'
      BY <2>2, <2>7, <3>1 DEF Concerns
    <3> QED
      BY <2>6, <3>2, <3>3, <3>4
  <2>8. CASE p.kind # "new_address"
    <3>1. /\ e.to \in Known(address_table)
          /\ e.fd = address_table[e.to].bound_fd
      BY <2>2, <2>8, HandledOther
    <3>2. Concerns(e.to)'
      BY <2>2, <2>8, HandledConcerns
    <3>3. address_table[e.to].bound_fd # Unbound
      BY <2>4, <3>1, RouterAssumption DEF Unbound
    <3>4. PICK o \in Conn :
             /\ Claimed(o, e.to)
             /\ \/ peer[o] = "dropped"
                \/ descriptor[address_table[e.to].bound_fd] = o
      BY <2>2, <3>1, <3>3 DEF BoundToClaimants, ClaimantKnown
    <3>5. Claimed(d, e.to) \/ Reused(d, e.to)
      BY <2>4, <3>1, <3>4 DEF Reused
    <3>6. Claimed(d, e.to)' \/ Reused(d, e.to)'
      BY <1>2, <3>5
    <3> QED
      BY <2>5, <2>6, <3>2, <3>6
  <2> QED
    BY <2>7, <2>8
<1>4. CASE ~ ReadPacket
  <2>1. ClientStep
    BY <1>4 DEF LoopNext, RouterStep, Accept, AcceptWhenFull, Poll, HangUp,
                ReadFails, Serve, DropClient, Overflow, AssertFails, ReadPart, ReadBytes,
                vars
  <2>2. PICK c \in Conn : Made(c) \/ Writes(c) \/ Closes(c) \/ ResetArrives(c)
    BY <2>1 DEF ClientStep
  <2>3. UNCHANGED <<address_table, handled, status>>
    BY <2>2 DEF Made, Writes, Closes, ResetArrives, vars
  <2>4. PICK d \in Conn, a \in Addr : /\ peer[d] = "reset" /\ Concerns(a)
                                      /\ Claimed(d, a) \/ Reused(d, a)
    BY <2>3 DEF OnlyReceiversBreakPipes, Reused
  <2>5. peer'[d] = "reset"
    BY <1>1, <2>2, <2>4 DEF Made, Writes, Closes, ResetArrives, LoopTypeOK
  <2>6. Concerns(a)'
    BY <2>3, <2>4 DEF Concerns, Known, Range
  <2> QED
    BY <1>2, <2>4, <2>5, <2>6
<1> QED
  BY <1>3, <1>4

-----------------------------------------------------------------------------
(* The theorems.                                                           *)

\* The invariant holds at the start,
LEMMA LoopInitially ==
    ASSUME LoopInit
    PROVE  LoopInv
<1>1. TypeOK
  BY TypeInit DEF LoopInit
<1>2. LoopTypeOK
  <2>1. <<>> \in Seq(Conn) /\ <<>> \in Seq(Cell) /\ <<>> \in Seq(Nat)
        /\ <<>> \in Seq(Delivery)
    OBVIOUS
  <2> QED
    BY <2>1 DEF LoopInit, LoopTypeOK, Peer
<1>3. \A fd \in Fd : descriptor[fd] = Nil
  BY DEF LoopInit
<1>4. \A i \in Slot : poll_list[i] = NoFd
  BY DEF LoopInit
<1>5. TablesAgree
  BY <1>2, <1>3, <1>4 DEF LoopInit, TablesAgree
<1>6. Waiting
  BY <1>3 DEF LoopInit, Waiting
<1>7. TakenInOrder
  <2>1. \A c \in Conn : taken[c] = <<>> /\ sent[c] = 0 /\ Len(Script[c]) \in Nat
    BY LoopAssumption DEF LoopInit
  <2>2. <<>> = [k \in 1..0 |-> k] /\ Len(<<>>) = 0
    OBVIOUS
  <2> QED
    BY <2>1, <2>2 DEF TakenInOrder
<1>8. UnreadWhileWaiting
  <2>1. \A c \in Conn : taken[c] = <<>> /\ sent[c] = 0 /\ wire[c] = <<>>
    BY DEF LoopInit
  <2> QED
    BY <2>1, UptoNone DEF UnreadWhileWaiting
<1>9. StreamIntact
  BY <1>3 DEF StreamIntact
<1>10. /\ DeliveredInOrder /\ BoundToClaimants /\ StrangersOnlyAfterReuse
  <2>1. \A d \in Conn : DOMAIN inbox[d] = {}
    BY DEF LoopInit
  <2>2. Known(address_table) = {}
    BY DEF LoopInit, Init, Known
  <2> QED
    BY <2>1, <2>2 DEF DeliveredInOrder, InOrderDelivery, BoundToClaimants,
                      StrangersOnlyAfterReuse
<1>11. OnlyReceiversBreakPipes
  BY DEF LoopInit, Init, OnlyReceiversBreakPipes
<1> QED
  BY <1>1, <1>5, <1>6, <1>7, <1>8, <1>9, <1>10, <1>11 DEF LoopInv

\* every step keeps it,
LEMMA LoopStep ==
    LoopInv /\ [LoopNext]_loopVars => LoopInv' /\ [Next]_vars
<1> SUFFICES ASSUME LoopInv, [LoopNext]_loopVars
             PROVE  LoopInv' /\ [Next]_vars
  OBVIOUS
<1>1. /\ TypeOK /\ TablesAgree /\ Waiting
      /\ TakenInOrder /\ UnreadWhileWaiting /\ StreamIntact
      /\ DeliveredInOrder /\ BoundToClaimants /\ StrangersOnlyAfterReuse
      /\ OnlyReceiversBreakPipes
  BY DEF LoopInv
<1>2. [Next]_vars
  BY <1>1, StepRefines
<1>3. TypeOK'
  BY <1>1, <1>2, TypeStep
<1>4. CASE LoopNext
  <2>1. TablesAgree' /\ Waiting'
    BY <1>1, <1>3, <1>4, TablesStep
  <2>2. StreamsInv
    BY <1>1, StreamsIntact DEF StreamsInv, TablesAgree
  <2>3. TakenInOrder' /\ UnreadWhileWaiting' /\ OpenIntact'
    BY <1>1, <1>3, <1>4, <2>2, StreamsStep DEF StreamsInv
  <2>4. LoopTypeOK'
    BY <2>1 DEF TablesAgree
  <2>5. (LoopTypeOK /\ TakenInOrder => (StreamIntact <=> OpenIntact))'
    BY StreamsIntact, PTL
  <2>6. StreamIntact'
    BY <2>3, <2>4, <2>5
  <2>7. DeliveredInOrder' /\ BoundToClaimants' /\ StrangersOnlyAfterReuse'
    BY <1>1, <1>3, <1>4, DeliveryStep, BoundStep, StrangersStep
  <2>8. OnlyReceiversBreakPipes'
    BY <1>1, <1>3, <1>4, PipesStep
  <2> QED
    BY <1>2, <1>3, <2>1, <2>3, <2>6, <2>7, <2>8 DEF LoopInv
<1>5. CASE UNCHANGED loopVars
  <2>1. /\ UNCHANGED <<address_table, handled, emitted, status, claims, picks>>
        /\ UNCHANGED <<peer, sent, wire, inbox, backlog, descriptor>>
        /\ UNCHANGED <<taken, poll_list, ready, local_buffer>>
    BY <1>5 DEF loopVars, vars, kernel, loop
  <2>2. TablesAgree' /\ Waiting'
    BY <1>1, <2>1 DEF TablesAgree, LoopTypeOK, Waiting, OnDescriptor
  <2>3. TakenInOrder' /\ UnreadWhileWaiting'
    BY <1>1, <2>1 DEF TakenInOrder, UnreadWhileWaiting, OnDescriptor, Upto
  <2>4. StreamIntact'
    BY <1>1, <2>1 DEF StreamIntact, Buffer
  <2>5. DeliveredInOrder'
    BY <1>1, <2>1 DEF DeliveredInOrder, InOrderDelivery
  <2>6. BoundToClaimants'
    BY <1>1, <2>1 DEF BoundToClaimants, ClaimantKnown, Owns, Claimed, Known
  <2>7. StrangersOnlyAfterReuse'
    BY <1>1, <2>1 DEF StrangersOnlyAfterReuse, Owns, Claimed
  <2>8. OnlyReceiversBreakPipes'
    BY <1>1, <2>1 DEF OnlyReceiversBreakPipes, Concerns, Claimed, Known
  <2> QED
    BY <1>2, <1>3, <2>2, <2>3, <2>4, <2>5, <2>6, <2>7, <2>8 DEF LoopInv
<1> QED
  BY <1>4, <1>5

\* and so it holds always.
LEMMA LoopInvariant == LoopSpec => []LoopInv
BY LoopInitially, LoopStep, PTL DEF LoopSpec

(***************************************************************************)
(* poll_list, the local buffers and the open descriptors agree in every    *)
(* state, whatever clients come and go while the loop scans (lines 649 to  *)
(* 776 of src/GraphRouter.c).                                              *)
(***************************************************************************)
THEOREM TablesAlwaysAgree == LoopSpec => []TablesAgree
BY LoopInvariant, PTL DEF LoopInv

(***************************************************************************)
(* No byte of a client's stream is lost, repeated, reordered or mixed with *)
(* those of another connection, however the reads cut the stream (lines    *)
(* 553 to 592).                                                            *)
(***************************************************************************)
THEOREM StreamsStayIntact == LoopSpec => []StreamIntact
BY LoopInvariant, PTL DEF LoopInv

(***************************************************************************)
(* What one client sends to another arrives in the order it was sent.      *)
(***************************************************************************)
THEOREM DeliveryIsInOrder == LoopSpec => []InOrderDelivery
BY LoopInvariant, PTL DEF LoopInv, DeliveredInOrder

(***************************************************************************)
(* A client is sent copies for an address it was not given only when an    *)
(* earlier client that claimed the address was dropped.                    *)
(***************************************************************************)
THEOREM StrangersNeedReuse == LoopSpec => []StrangersOnlyAfterReuse
BY LoopInvariant, PTL DEF LoopInv

(***************************************************************************)
(* SIGPIPE ends the router (write in line 124 of src/lib/GraphNetwork.c)   *)
(* only because of a client that the packet being handled was for.         *)
(***************************************************************************)
THEOREM PipesBreakAtReceivers == LoopSpec => []OnlyReceiversBreakPipes
BY LoopInvariant, PTL DEF LoopInv

\* The loop changes what belongs to the packet handler in steps of it alone.
LEMMA LoopImplementsRouter == LoopSpec => Spec
<1>1. LoopInit => Init
  BY DEF LoopInit
<1> QED
  BY <1>1, LoopInvariant, LoopStep, PTL DEF LoopSpec, Spec

(***************************************************************************)
(* What holds of the packet handler holds of the process around it: no     *)
(* copy leaves an edge that was not made or goes to a descriptor that did  *)
(* not claim the target; round robin takes turns; the table only grows.    *)
(***************************************************************************)
THEOREM LoopKeepsTheContract ==
    LoopSpec => /\ []CopiesFollowEdges
                /\ []RoundRobinTakesTurns
                /\ TableOnlyGrows
BY LoopImplementsRouter, RoutesAreClaimed, RoundRobinIsFair, GrowsForever, PTL

-----------------------------------------------------------------------------
(* Shell scripts.                                                          *)

\* A line of a script is a client of the router, and starts and exits as one.
LEMMA LinesAreClients ==
    ASSUME ScriptOfLines, NEW i \in DOMAIN Lines
    PROVE  /\ Command[i] \in Conn
           /\ Starts(i) => ClientStep
           /\ Writes(Command[i]) => ClientStep
           /\ Exits(i) => ClientStep
<1>1. Command[i] \in Conn
  BY DEF ScriptOfLines
<1> QED
  BY <1>1 DEF Starts, Exits, ClientStep

(***************************************************************************)
(* A script that configures a running router, whatever its lines are and   *)
(* whoever else is connected, is a behaviour of the loop: what is promised *)
(* of the router's streams and tables is promised of scripts.              *)
(***************************************************************************)
THEOREM ScriptsRunTheLoop ==
    ASSUME ScriptOfLines
    PROVE  CommandsSpec => /\ LoopSpec
                           /\ []TablesAgree /\ []StreamIntact
                           /\ []InOrderDelivery /\ []CopiesFollowEdges
<1>1. CommandStep => ClientStep
  BY LinesAreClients DEF CommandStep
<1>2. OtherStep => ClientStep
  BY DEF OtherStep, Others, ClientStep
<1>3. [CommandsNext]_loopVars => [LoopNext]_loopVars
  BY <1>1, <1>2 DEF CommandsNext, LoopNext
<1>4. CommandsSpec => LoopSpec
  BY <1>3, PTL DEF CommandsSpec, LoopSpec
<1> QED
  BY <1>4, TablesAlwaysAgree, StreamsStayIntact, DeliveryIsInOrder,
     LoopKeepsTheContract, PTL

=============================================================================
