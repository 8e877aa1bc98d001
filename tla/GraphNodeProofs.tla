-------------------------- MODULE GraphNodeProofs --------------------------
(***************************************************************************)
(* Proofs about the node, for any command lines, scripts, reads and sizes. *)
(***************************************************************************)
EXTENDS GraphNode, StreamLemmas

-----------------------------------------------------------------------------
(* Lines.                                                                  *)

\* The numbers of a set, in their order: each of them, once.
LEMMA InOrderFacts ==
    ASSUME NEW S \in SUBSET Nat, IsFiniteSet(S)
    PROVE  /\ Ascending(S) \in [1..Cardinality(S) -> S]
           /\ \A i, j \in 1..Cardinality(S) : i < j => Ascending(S)[i] < Ascending(S)[j]
           /\ \A x \in S : \E i \in 1..Cardinality(S) : Ascending(S)[i] = x
<1> DEFINE m == Cardinality(S)
           q == Ascending(S)
<1>1. m \in Nat
  BY FS_CardinalityType
<1>2. /\ q \in [1..m -> S]
      /\ \A i, j \in 1..m : i < j => q[i] < q[j]
  BY NumbersInOrder DEF Ascending
<1>3. IsFiniteSet(1..m) /\ Cardinality(1..m) = m
  BY <1>1, FS_Interval
<1>4. q \in Injection(1..m, S)
  <2> HIDE DEF q, m
  <2>1. ASSUME NEW i \in 1..m, NEW j \in 1..m, q[i] = q[j]
        PROVE  i = j
    <3>1. q[i] \in Nat /\ q[j] \in Nat
      BY <1>2
    <3>2. ~ (i < j) /\ ~ (j < i)
      BY <1>2, <2>1, <3>1
    <3> QED
      BY <1>1, <3>2
  <2>2. DOMAIN q = 1..m
    BY <1>2
  <2> QED
    BY <1>2, <2>1, <2>2 DEF Injection, IsInjective
<1>5. q \in Surjection(1..m, S)
  <2>1. Cardinality(1..m) = Cardinality(S)
    BY <1>3
  <2> HIDE DEF q, m
  <2> QED
    BY <1>4, <2>1, FS_Injection
<1> QED
  BY <1>2, <1>5 DEF Surjection

\* Where the lines of a buffer begin,
Cuts(bytes) == {1} \cup {i \in DOMAIN bytes : Delimits(bytes[i])}

\* and the first byte behind a line.
Behind(cuts, bytes, k) == IF k = Len(cuts) THEN Len(bytes) + 1 ELSE cuts[k + 1]

AreCuts(cuts, bytes) ==
    /\ cuts \in Seq(Nat) /\ Len(cuts) \in Nat /\ Len(cuts) > 0 /\ cuts[1] = 1
    /\ \A k \in 1..Len(cuts) : cuts[k] \in 1..Len(bytes)
    /\ \A i, j \in 1..Len(cuts) : i < j => cuts[i] < cuts[j]
    /\ \A k \in 1..Len(cuts) : k # 1 => Delimits(bytes[cuts[k]])
    /\ \A p \in 1..Len(bytes) :
          Delimits(bytes[p]) => \E k \in 1..Len(cuts) : cuts[k] = p

\* The cuts are in the buffer, from its start on.
LEMMA CutsFacts ==
    ASSUME NEW bytes \in Seq(Nat), bytes # <<>>
    PROVE  AreCuts(Ascending(Cuts(bytes)), bytes)
<1> DEFINE S == Cuts(bytes)
           m == Cardinality(S)
           q == Ascending(S)
           l == Len(bytes)
<1>1. l \in Nat /\ l > 0 /\ DOMAIN bytes = 1..l
  OBVIOUS
<1>2. S \subseteq 1..l /\ S \in SUBSET Nat /\ 1 \in S
  BY <1>1 DEF Cuts
<1>3. IsFiniteSet(S) /\ m \in Nat
  <2>1. IsFiniteSet(1..l)
    BY <1>1, FS_Interval
  <2> QED
    BY <1>2, <2>1, FS_Subset, FS_CardinalityType
<1>4. /\ q \in [1..m -> S]
      /\ \A i, j \in 1..m : i < j => q[i] < q[j]
      /\ \A x \in S : \E i \in 1..m : q[i] = x
  BY <1>2, <1>3, InOrderFacts
<1>5. \A x \in S : x = 1 \/ Delimits(bytes[x])
  BY DEF Cuts
<1>6. \A p \in 1..l : Delimits(bytes[p]) => p \in S
  BY <1>1 DEF Cuts
<1> HIDE DEF S, q, m, l
<1>7. q \in Seq(Nat) /\ Len(q) = m
  <2>1. q \in [1..m -> Nat]
    BY <1>2, <1>4
  <2> QED
    BY <1>3, <2>1
<1>8. PICK k \in 1..m : q[k] = 1
  BY <1>2, <1>4
<1>9. m > 0 /\ q[1] = 1
  <2>1. 1 \in 1..m
    BY <1>3, <1>8
  <2>2. q[1] \in S
    BY <1>4, <2>1
  <2>3. q[1] \in 1..l
    BY <1>2, <2>2
  <2>4. k \in Nat /\ (k = 1 \/ 1 < k)
    BY <1>3
  <2>5. 1 < k => q[1] < q[k]
    BY <1>4, <2>1
  <2> QED
    BY <1>1, <1>3, <1>8, <2>1, <2>3, <2>4, <2>5
<1>10. \A i \in 1..m : q[i] \in S
  BY <1>4
<1>11. \A i \in 1..m : i # 1 => Delimits(bytes[q[i]])
  <2> SUFFICES ASSUME NEW i \in 1..m, i # 1
               PROVE  Delimits(bytes[q[i]])
    OBVIOUS
  <2>1. 1 \in 1..m /\ 1 < i
    BY <1>3
  <2>2. q[1] < q[i] /\ q[i] \in Nat
    BY <1>2, <1>4, <1>10, <2>1
  <2> QED
    BY <1>5, <1>9, <1>10, <2>2
<1>12. \A p \in 1..l : Delimits(bytes[p]) => \E i \in 1..m : q[i] = p
  BY <1>4, <1>6
<1>13. \A i \in 1..m : q[i] \in 1..l
  BY <1>2, <1>10
<1>14. AreCuts(q, bytes)
  <2>1. \A p \in 1..Len(bytes) :
           Delimits(bytes[p]) => \E i \in 1..Len(q) : q[i] = p
    BY <1>7, <1>12 DEF l
  <2> QED
    BY <1>3, <1>4, <1>7, <1>9, <1>11, <1>13, <2>1 DEF AreCuts, l
<1> QED
  BY <1>14 DEF q, S

Piece(cuts, bytes, k) == SubSeq(bytes, cuts[k], Behind(cuts, bytes, k) - 1)

\* What is behind a line is behind its start, and no delimiter stands between.
LEMMA BehindFacts ==
    ASSUME NEW bytes \in Seq(Nat), bytes # <<>>,
           NEW cuts, AreCuts(cuts, bytes), NEW k \in 1..Len(cuts)
    PROVE  /\ cuts[k] \in 1..Len(bytes)
           /\ Behind(cuts, bytes, k) \in 2..Len(bytes) + 1
           /\ cuts[k] < Behind(cuts, bytes, k)
           /\ \A p \in 1..Len(bytes) :
                 (cuts[k] < p /\ p < Behind(cuts, bytes, k)) => ~ Delimits(bytes[p])
<1> DEFINE b == Behind(cuts, bytes, k)
           l == Len(bytes)
           m == Len(cuts)
<1>1. l \in Nat /\ l > 0
  OBVIOUS
<1>2. /\ m \in Nat /\ \A i \in 1..m : cuts[i] \in 1..l
      /\ \A i, j \in 1..m : i < j => cuts[i] < cuts[j]
      /\ \A p \in 1..l : Delimits(bytes[p]) => \E i \in 1..m : cuts[i] = p
  BY DEF AreCuts
<1>3. b = IF k = m THEN l + 1 ELSE cuts[k + 1]
  BY DEF Behind
<1>4. k # m => k + 1 \in 1..m /\ k < k + 1
  BY <1>2
<1>5. k \in 1..m /\ cuts[k] \in 1..l
  BY <1>2
<1> HIDE DEF b, l, m
<1>6. b \in 2..l + 1 /\ cuts[k] < b
  <2>1. CASE k = m
    BY <1>1, <1>3, <1>5, <2>1
  <2>2. CASE k # m
    <3>1. cuts[k + 1] \in 1..l /\ cuts[k] < cuts[k + 1]
      BY <1>2, <1>4, <1>5, <2>2
    <3> QED
      BY <1>1, <1>3, <1>5, <2>2, <3>1
  <2> QED
    BY <2>1, <2>2
<1>7. ASSUME NEW p \in 1..l, cuts[k] < p, p < b, Delimits(bytes[p])
      PROVE  FALSE
  <2>1. PICK i \in 1..m : cuts[i] = p
    BY <1>2, <1>7
  <2>2. k \in Int /\ i \in Int /\ p \in Int /\ cuts[k] \in Int /\ m \in Int
    BY <1>1, <1>2, <1>5
  <2>3. k < i
    <3>1. i < k => p < cuts[k]
      BY <1>2, <1>5, <2>1
    <3>2. i = k => p = cuts[k]
      BY <2>1
    <3> QED
      BY <1>7, <2>2, <3>1, <3>2
  <2>4. k # m /\ k + 1 \in 1..m /\ b = cuts[k + 1]
    BY <1>2, <1>3, <1>4, <2>2, <2>3
  <2>5. k + 1 = i \/ k + 1 < i
    BY <2>2, <2>3
  <2>6. k + 1 < i => cuts[k + 1] < cuts[i]
    BY <1>2, <2>4
  <2>7. cuts[k + 1] \in Int
    BY <1>1, <1>2, <2>4
  <2> QED
    BY <1>7, <2>1, <2>2, <2>4, <2>5, <2>6, <2>7
<1> QED
  BY <1>5, <1>6, <1>7 DEF b, l

LineShape(line) ==
    /\ line # <<>>
    /\ \A i \in 2..Len(line) : ~ Delimits(line[i])

Starts(line) == line # <<>> /\ Delimits(line[1])

\* Each piece is a line.
LEMMA PieceFacts ==
    ASSUME NEW bytes \in Seq(Nat), bytes # <<>>,
           NEW cuts, AreCuts(cuts, bytes), NEW k \in 1..Len(cuts)
    PROVE  /\ Piece(cuts, bytes, k) \in Seq(Nat)
           /\ Len(Piece(cuts, bytes, k)) <= Len(bytes)
           /\ LineShape(Piece(cuts, bytes, k))
           /\ Piece(cuts, bytes, k)[1] = bytes[cuts[k]]
           /\ k # 1 => Starts(Piece(cuts, bytes, k))
<1> DEFINE b == Behind(cuts, bytes, k)
           c == cuts[k]
           l == Len(bytes)
           s == Piece(cuts, bytes, k)
<1>1. /\ l \in Nat /\ c \in 1..l /\ b \in 2..l + 1 /\ c < b
      /\ \A p \in 1..l : (c < p /\ p < b) => ~ Delimits(bytes[p])
  BY BehindFacts
<1>2. s = SubSeq(bytes, c, b - 1)
  BY DEF Piece
<1>3. k # 1 => Delimits(bytes[c])
  BY DEF AreCuts
<1>4. bytes \in Seq(Nat) /\ l = Len(bytes)
  OBVIOUS
<1> HIDE DEF b, c, s, l
<1>5. \A i \in c..b - 1 : i \in 1..Len(bytes)
  BY <1>1, <1>4
<1>6. /\ s \in Seq(Nat) /\ Len(s) = b - c
      /\ \A i \in 1..b - c : s[i] = bytes[c + i - 1]
  BY <1>1, <1>2, <1>4, <1>5
<1>7. s # <<>> /\ s[1] = bytes[c]
  <2>1. 1 \in 1..b - c /\ c + 1 - 1 = c
    BY <1>1
  <2> QED
    BY <1>6, <2>1
<1>8. ASSUME NEW i \in 2..Len(s)
      PROVE  ~ Delimits(s[i])
  <2>1. /\ i \in 1..b - c /\ c + i - 1 \in 1..l
        /\ c < c + i - 1 /\ c + i - 1 < b
    BY <1>1, <1>6
  <2> QED
    BY <1>1, <1>6, <2>1
<1>9. Len(s) <= l
  BY <1>1, <1>6
<1> QED
  BY <1>3, <1>6, <1>7, <1>8, <1>9 DEF LineShape, Starts, s, c, l

\* The first n pieces, and where they end.
Pieces(cuts, bytes, n) == [k \in 1..n |-> Piece(cuts, bytes, k)]
End(cuts, bytes, n) == IF n = 0 THEN 0 ELSE Behind(cuts, bytes, n) - 1

\* Put together, they are the buffer up to there.
LEMMA PiecesFlatten ==
    ASSUME NEW bytes \in Seq(Nat), bytes # <<>>, NEW cuts, AreCuts(cuts, bytes)
    PROVE  \A n \in 0..Len(cuts) :
              /\ Pieces(cuts, bytes, n) \in Seq(Seq(Nat))
              /\ Len(Pieces(cuts, bytes, n)) = n
              /\ FlattenSeq(Pieces(cuts, bytes, n)) =
                    SubSeq(bytes, 1, End(cuts, bytes, n))
<1> DEFINE m == Len(cuts)
           ps(n) == Pieces(cuts, bytes, n)
           p(k) == Piece(cuts, bytes, k)
           upto(n) == SubSeq(bytes, 1, End(cuts, bytes, n))
           Flat(n) == /\ ps(n) \in Seq(Seq(Nat)) /\ Len(ps(n)) = n
                      /\ FlattenSeq(ps(n)) = upto(n)
           T == {n \in Nat : n \in 0..m => Flat(n)}
<1>1. m \in Nat
  BY DEF AreCuts
<1>2. 0 \in T
  <2>1. ps(0) = <<>>
    BY DEF Pieces
  <2>2. upto(0) = <<>>
    BY DEF End
  <2> HIDE DEF ps, upto
  <2>3. <<>> \in Seq(Seq(Nat)) /\ Len(<<>>) = 0
    OBVIOUS
  <2>4. Flat(0)
    BY <2>1, <2>2, <2>3, FlattenEmpty, Zenon
  <2> HIDE DEF Flat
  <2> QED
    BY <2>4
<1>3. ASSUME NEW n \in Nat, n \in T
      PROVE  n + 1 \in T
  <2> SUFFICES ASSUME n + 1 \in 1..m
               PROVE  Flat(n + 1)
    BY <1>1
  <2>1. Flat(n)
    BY <1>1, <1>3
  <2>2. p(n + 1) \in Seq(Nat)
    BY PieceFacts
  <2>3. ps(n + 1) = Append(ps(n), p(n + 1))
    <3> DEFINE b == [k \in 1..n |-> p(k)]
               d == [k \in 1..n + 1 |-> p(k)]
    <3>1. ps(n) = b /\ ps(n + 1) = d
      BY DEF Pieces
    <3> HIDE DEF p
    <3>2. d = Append(b, p(n + 1))
      OBVIOUS
    <3> HIDE DEF b, d
    <3> QED
      BY <3>1, <3>2
  <2> HIDE DEF p, ps, upto
  <2>4. ps(n + 1) \in Seq(Seq(Nat)) /\ Len(ps(n + 1)) = n + 1
    <3>1. /\ Append(ps(n), p(n + 1)) \in Seq(Seq(Nat))
          /\ Len(Append(ps(n), p(n + 1))) = Len(ps(n)) + 1
      BY <2>1, <2>2, AppendProperties
    <3> QED
      BY <2>1, <2>3, <3>1
  <2>5. FlattenSeq(ps(n + 1)) = upto(n) \o p(n + 1)
    BY <2>1, <2>2, <2>3, FlattenAppend
  <2>6. upto(n) \o p(n + 1) = upto(n + 1)
    <3> DEFINE e == End(cuts, bytes, n)
               f == End(cuts, bytes, n + 1)
               l == Len(bytes)
    <3>1. cuts[n + 1] = e + 1
      <4>1. CASE n = 0
        BY <4>1 DEF End, AreCuts
      <4>2. CASE n # 0
        <5>1. n # m /\ Behind(cuts, bytes, n) = cuts[n + 1]
          BY <1>1 DEF Behind
        <5>2. cuts[n + 1] \in 1..l
          BY DEF AreCuts
        <5> QED
          BY <4>2, <5>1, <5>2 DEF End
      <4> QED
        BY <4>1, <4>2
    <3>2. f = Behind(cuts, bytes, n + 1) - 1 /\ f \in 1..l /\ e + 1 <= f
      <4>1. /\ Behind(cuts, bytes, n + 1) \in 2..Len(bytes) + 1
            /\ cuts[n + 1] < Behind(cuts, bytes, n + 1)
            /\ cuts[n + 1] \in 1..Len(bytes)
        BY BehindFacts
      <4>2. f = Behind(cuts, bytes, n + 1) - 1
        BY DEF End
      <4> QED
        BY <3>1, <4>1, <4>2
    <3>3. p(n + 1) = SubSeq(bytes, e + 1, f)
      BY <3>1, <3>2 DEF p, Piece
    <3>4. e \in 1 - 1..l /\ 1 \in 1..l + 1 /\ f \in e..l
      <4>1. cuts[n + 1] \in 1..l /\ l \in Nat
        BY DEF AreCuts
      <4>2. e \in Nat
        <5>1. n # 0 => Behind(cuts, bytes, n) \in 2..Len(bytes) + 1
          BY BehindFacts
        <5> QED
          BY <5>1 DEF End
      <4> HIDE DEF e, f, l
      <4> QED
        BY <3>1, <3>2, <4>1, <4>2
    <3>5. SubSeq(bytes, 1, e) \o SubSeq(bytes, e + 1, f) = SubSeq(bytes, 1, f)
      BY <3>4, ConcatAdjacentSubSeq
    <3> QED
      BY <3>3, <3>5 DEF upto
  <2> QED
    BY <2>4, <2>5, <2>6
<1> HIDE DEF T
<1>4. \A n \in Nat : n \in T
  BY <1>2, <1>3, SetInduction
<1> QED
  BY <1>1, <1>4 DEF T

AreLines(lines, bytes) ==
    /\ lines \in Seq(Seq(Nat)) /\ Len(lines) \in Nat /\ Len(lines) > 0
    /\ FlattenSeq(lines) = bytes
    /\ \A k \in 1..Len(lines) : LineShape(lines[k]) /\ Len(lines[k]) <= Len(bytes)
    /\ \A k \in 1..Len(lines) : k # 1 => Starts(lines[k])
    /\ lines[1][1] = bytes[1]

\* What the cursor of handleLocalData cuts out are the lines of the buffer, and
\* nothing else.
LEMMA LinesFacts ==
    ASSUME NEW bytes \in Seq(Nat), bytes # <<>>
    PROVE  AreLines(Lines(bytes), bytes)
<1> DEFINE cuts == Ascending(Cuts(bytes))
           m == Len(cuts)
<1>1. AreCuts(cuts, bytes)
  BY CutsFacts
<1>2. m \in Nat /\ m > 0 /\ cuts[1] = 1 /\ DOMAIN cuts = 1..m
  BY <1>1 DEF AreCuts
<1>3. Lines(bytes) = Pieces(cuts, bytes, m)
  <2>1. Lines(bytes) =
          [k \in DOMAIN cuts |->
            SubSeq(bytes, cuts[k], IF k = m THEN Len(bytes) ELSE cuts[k + 1] - 1)]
    BY DEF Lines, Cuts
  <2>2. \A k \in 1..m :
          (IF k = m THEN Len(bytes) ELSE cuts[k + 1] - 1)
             = Behind(cuts, bytes, k) - 1
    BY DEF Behind
  <2>3. \A k \in 1..m :
          SubSeq(bytes, cuts[k], IF k = m THEN Len(bytes) ELSE cuts[k + 1] - 1)
             = Piece(cuts, bytes, k)
    BY <2>2 DEF Piece
  <2> HIDE DEF cuts, m
  <2> QED
    BY <1>2, <2>1, <2>3 DEF Pieces
<1> HIDE DEF cuts
<1>4. /\ Lines(bytes) \in Seq(Seq(Nat)) /\ Len(Lines(bytes)) = m
      /\ FlattenSeq(Lines(bytes)) = bytes
  <2>1. m \in 0..m
    BY <1>2
  <2>2. SubSeq(bytes, 1, End(cuts, bytes, m)) = bytes
    <3>1. End(cuts, bytes, m) = Len(bytes)
      BY <1>2 DEF End, Behind
    <3> QED
      BY <3>1, SubSeqFull
  <2>3. /\ Pieces(cuts, bytes, m) \in Seq(Seq(Nat))
        /\ Len(Pieces(cuts, bytes, m)) = m
        /\ FlattenSeq(Pieces(cuts, bytes, m)) = SubSeq(bytes, 1, End(cuts, bytes, m))
    BY <1>1, <2>1, PiecesFlatten
  <2> HIDE DEF m
  <2> QED
    BY <1>3, <2>2, <2>3, Zenon
<1>5. \A k \in 1..m : Lines(bytes)[k] = Piece(cuts, bytes, k)
  BY <1>3 DEF Pieces
<1>6. \A k \in 1..m :
        /\ Len(Lines(bytes)[k]) <= Len(bytes)
        /\ LineShape(Lines(bytes)[k])
        /\ Lines(bytes)[k][1] = bytes[cuts[k]]
        /\ k # 1 => Starts(Lines(bytes)[k])
  BY <1>1, <1>5, PieceFacts
<1>7. 1 \in 1..m
  BY <1>2
<1> HIDE DEF m
<1> QED
  BY <1>2, <1>4, <1>6, <1>7 DEF AreLines

-----------------------------------------------------------------------------
(* The inductive invariant.                                                *)

Slot == 1..Streams

Address == [kind : {"address"}, address : Source]
Data    == [kind : {"data"}, source : {0} \cup Source, origin : Source, number : Nat]
Message == Address \cup Data
Line    == [source : {0} \cup Source, payload : Seq(Nat)]

NodeTypes ==
    /\ config \in Config
    /\ arg_address \in {0} \cup Source
    /\ nextLocalAddress \in Nat
    /\ stream_fd \in [Slot -> {IgnoreFd, RouterFd} \cup Local]
    /\ router_fd \in {IgnoreFd, RouterFd}
    /\ sinkTable \in [DOMAIN sinkTable -> 1..spawned]
    /\ DOMAIN sinkTable \subseteq {0} \cup Source
    /\ input_buffer \in [Local -> Seq(Nat)]
    /\ pending \in Seq(Message)
    /\ fate \in {"running", "shutdown", "sigpipe", "segv", "undefined"}

OutsideTypes ==
    /\ pipe \in [Local -> [bytes : Seq(Nat), written : Nat, open : BOOLEAN]]
    /\ spawned \in Nat
    /\ owed \in Seq(Source)
    /\ fromRouter \in [packets : Seq(Message), open : BOOLEAN]
    /\ sent \in 0..MaxData
    /\ forwarded \in [Local -> Seq(Line)]
    /\ received \in [Local -> Seq(Nat)]
    /\ delivered \in Seq([packet : Data, child : Child])

Types == NodeTypes /\ OutsideTypes

\* Data is numbered, and neither the queues nor the node change its order.
Ahead(s, t) ==
    \A j \in DOMAIN s, k \in DOMAIN t :
        s[j].kind = "data" /\ t[k].kind = "data" => s[j].number < t[k].number

Ordered(s) ==
    \A j, k \in DOMAIN s :
        (j < k /\ s[j].kind = "data" /\ s[k].kind = "data")
            => s[j].number < s[k].number

Numbered(s) ==
    \A k \in DOMAIN s : s[k].kind = "data" => s[k].number \in 1..sent

\* A child serves the stream of the packet.
HasSink(p) == Stream(p.source) \in DOMAIN sinkTable

\* No packet starts two children.
SpawnedBefore(s) ==
    \A k \in DOMAIN s : s[k].kind = "data" => spawned <= s[k].number

DataInOrder ==
    LET queue == fromRouter.packets
    IN  /\ Ordered(pending) /\ Ordered(queue) /\ Ahead(pending, queue)
        /\ Numbered(pending) /\ Numbered(queue)
        /\ spawned <= sent + 1
        /\ \A k \in DOMAIN pending :
              pending[k].kind = "data" =>
                  \/ spawned <= pending[k].number
                  \/ /\ k = 1 /\ spawned = pending[k].number + 1
                     /\ HasSink(pending[k])
        /\ SpawnedBefore(queue)

\* The slots and the sinks.
SlotsAndSinks ==
    /\ \A i \in Slot, c \in Child : stream_fd[i] = Out(c) => c <= spawned
    /\ \A i, j \in Slot :
          (stream_fd[i] = stream_fd[j] /\ stream_fd[i] > RouterFd) => i = j
    /\ fate = "running" =>
          \A a \in DOMAIN sinkTable : \E i \in Slot : stream_fd[i] = Out(sinkTable[a])
    /\ \A a, b \in DOMAIN sinkTable : sinkTable[a] = sinkTable[b] => a = b

\* The lines that were sent from one descriptor.
SentShape(out) ==
    \A k \in DOMAIN out : LineShape(out[k]) /\ (k > 1 => Starts(out[k]))

\* What was sent and what is kept are what was read, if it still is read.
LineBuffer(out, buffer, bytes, live) ==
    /\ SentShape(out)
    /\ \A i \in 2..Len(buffer) : ~ Delimits(buffer[i])
    /\ Len(buffer) <= Capacity - Mtu
    /\ out # <<>> => config.delimiter < 128
    /\ live => /\ Cat(FlattenSeq(out), buffer) = bytes
               /\ out # <<>> => Starts(buffer)

Live(fd) == Watched(fd) /\ fate = "running"

BuffersAreLines ==
    \A fd \in Local :
        /\ LineBuffer(PayloadsFrom(fd), input_buffer[fd], received[fd], Live(fd))
        /\ fd > Out(spawned) =>
              forwarded[fd] = <<>> /\ received[fd] = <<>> /\ input_buffer[fd] = <<>>

\* Who is served by which child.
Key(d) == IF config.demux = "merge" THEN arg_address ELSE d.packet.origin

KeepSource(s) == \A k \in DOMAIN s : s[k].kind = "data" => s[k].source = s[k].origin

\* A node that does not demux keeps the sources of data; one that is started with
\* an address keeps the address.
Addresses ==
    /\ config.demux = "noop" => KeepSource(pending) /\ KeepSource(fromRouter.packets)
    /\ config.address # 0 => arg_address = config.address

\* What has been given to a child came before what has not.
GivenBefore(s) ==
    \A i \in DOMAIN delivered, k \in DOMAIN s :
        s[k].kind = "data" => delivered[i].packet.number < s[k].number

DeliveredInOrder ==
    /\ \A i, j \in DOMAIN delivered :
          i < j => delivered[i].packet.number < delivered[j].packet.number
    /\ \A i \in DOMAIN delivered : delivered[i].packet.number <= sent
    /\ GivenBefore(pending) /\ GivenBefore(fromRouter.packets)

\* While the child of a stream lives, it is the sink of that stream.
ServedBy(d) ==
    /\ d.child <= spawned
    /\ pipe[Out(d.child)].open =>
          Key(d) \in DOMAIN sinkTable /\ sinkTable[Key(d)] = d.child
    /\ config.demux = "noop" =>
          \A a \in DOMAIN sinkTable : sinkTable[a] = d.child => a = d.packet.origin

AllServed ==
    NamesStay => \A i \in DOMAIN delivered : ServedBy(delivered[i])

ChildrenAreKept == Addresses /\ DeliveredInOrder /\ AllServed

NodeInv ==
    /\ Types /\ DataInOrder /\ SlotsAndSinks /\ BuffersAreLines /\ ChildrenAreKept
    /\ OnlyLongLinesOverflow /\ OneChildPerStream

-----------------------------------------------------------------------------
(* Types.                                                                  *)

\* What is assumed of the constants, for the proofs below.
LEMMA NodeConstants ==
    /\ \A o \in Config :
          /\ o.address \in {0} \cup Source /\ o.watched \in Nat
          /\ o.echo \in BOOLEAN /\ o.immediate \in BOOLEAN /\ o.router \in BOOLEAN
          /\ o.delimiter \in Nat /\ o.demux \in {"noop", "spawn", "merge"}
          /\ o.input \in {"none", "pipe", "file"}
    /\ Source \subseteq Nat \ {0} /\ Issued \in Source
    /\ Streams \in Nat \ {0} /\ Capacity \in Nat \ {0} /\ Mtu \in Nat \ {0}
    /\ PipeSize \in Nat \ {0} /\ MaxData \in Nat \ {0}
    /\ 2 * Mtu <= Capacity
    /\ Script \in [Local -> Seq(Seq(Nat))]
    /\ Inner \in Seq(Source) /\ Inner # <<>>
BY NodeAssumption

\* The descriptors: stdin is none of the children's.
LEMMA Descriptors ==
    /\ Child = 1..(MaxData + 1)
    /\ Local \subseteq Nat /\ Stdin \in Local /\ RouterFd \notin Local
    /\ IgnoreFd \notin Local
    /\ \A c \in Child : Out(c) \in Local /\ Out(c) > RouterFd /\ Out(c) = c + 1
    /\ \A fd \in Local : fd = Stdin \/ (fd > RouterFd /\ fd - 1 \in Child
                                        /\ fd = Out(fd - 1))
BY NodeConstants DEF Child, Local, Stdin, RouterFd, IgnoreFd, Out

\* A write to the router's socket, or what the kernel does to it.
LEMMA WriteFacts ==
    ASSUME OutsideTypes, WriteToRouter
    PROVE  /\ fromRouter' \in [packets : Seq(Message), open : BOOLEAN]
           /\ fromRouter'.open = fromRouter.open
           /\ \/ fromRouter'.packets = fromRouter.packets
              \/ fromRouter'.packets = <<>> /\ ~ fromRouter.open /\ router_fd # IgnoreFd
           /\ fate' \in {fate, "sigpipe"}
<1>1. fromRouter \in [packets : Seq(Message), open : BOOLEAN]
  BY DEF OutsideTypes
<1>2. <<>> \in Seq(Message)
  OBVIOUS
<1> DEFINE M == Seq(Message)
<1> HIDE DEF M
<1>3. fromRouter \in [packets : M, open : BOOLEAN] /\ <<>> \in M
  BY <1>1, <1>2 DEF M
<1>4. CASE fromRouter.open \/ router_fd = IgnoreFd
  BY <1>3, <1>4 DEF WriteToRouter, M
<1>5. CASE ~ (fromRouter.open \/ router_fd = IgnoreFd)
  <2>1. /\ fate' \in {fate, "sigpipe"}
        /\ fromRouter' \in {fromRouter, [fromRouter EXCEPT !.packets = <<>>]}
    BY <1>5 DEF WriteToRouter
  <2> QED
    BY <1>3, <1>5, <2>1 DEF M
<1> QED
  BY <1>4, <1>5

\* Bytes taken from a pipe.
LEMMA TakeFacts ==
    ASSUME OutsideTypes, NEW fd \in Local, NEW n \in 1..Len(pipe[fd].bytes),
           TakeBytes(fd, n)
    PROVE  LET more == SubSeq(pipe[fd].bytes, 1, n)
           IN  /\ more \in Seq(Nat) /\ Len(more) = n
               /\ pipe' \in [Local -> [bytes : Seq(Nat), written : Nat, open : BOOLEAN]]
               /\ \A f \in Local : pipe'[f].open = pipe[f].open
               /\ received' \in [Local -> Seq(Nat)]
               /\ received'[fd] = Cat(received[fd], more)
               /\ \A f \in Local : f # fd => received'[f] = received[f]
<1> DEFINE b == pipe[fd].bytes
           more == SubSeq(b, 1, n)
           rest == SubSeq(b, n + 1, Len(b))
<1>1. /\ pipe \in [Local -> [bytes : Seq(Nat), written : Nat, open : BOOLEAN]]
      /\ received \in [Local -> Seq(Nat)]
  BY DEF OutsideTypes
<1>2. b \in Seq(Nat) /\ n \in 0..Len(b)
  BY <1>1
<1>3. more \in Seq(Nat) /\ Len(more) = n /\ rest \in Seq(Nat)
  <2> HIDE DEF b
  <2>1. more \in Seq(Nat) /\ Len(more) = n
    BY <1>2, CatSplit
  <2>2. rest \in Seq(Nat)
    BY <1>2, CatSplit
  <2> QED
    BY <2>1, <2>2
<1>4. pipe' = [pipe EXCEPT ![fd].bytes = rest]
  BY DEF TakeBytes
<1>5. received' = [received EXCEPT ![fd] = Cat(received[fd], more)]
  BY DEF TakeBytes, Cat
<1>6. Cat(received[fd], more) \in Seq(Nat)
  BY <1>1, <1>3, CatType
<1> HIDE DEF more, rest, b
<1>7. /\ pipe' \in [Local -> [bytes : Seq(Nat), written : Nat, open : BOOLEAN]]
      /\ \A f \in Local : pipe'[f].open = pipe[f].open
  BY <1>1, <1>3, <1>4
<1>8. /\ received' \in [Local -> Seq(Nat)]
      /\ received'[fd] = Cat(received[fd], more)
      /\ \A f \in Local : f # fd => received'[f] = received[f]
  BY <1>1, <1>5, <1>6
<1> QED
  BY <1>3, <1>7, <1>8 DEF more, b

\* The head of the queue of packets, and the rest of it.
LEMMA PendingFacts ==
    ASSUME Types, pending # <<>>
    PROVE  /\ Head(pending) = pending[1] /\ pending[1] \in Message
           /\ 1 \in DOMAIN pending /\ DOMAIN pending = 1..Len(pending)
           /\ Tail(pending) \in Seq(Message)
           /\ \A k \in DOMAIN Tail(pending) :
                 /\ k + 1 \in DOMAIN pending /\ k + 1 > 1 /\ k \in Nat /\ k >= 1
                 /\ Tail(pending)[k] = pending[k + 1]
<1>1. pending \in Seq(Message)
  BY DEF Types, NodeTypes
<1> DEFINE M == Message
<1> HIDE DEF M
<1>2. pending \in Seq(M)
  BY <1>1 DEF M
<1>3. pending[1] \in M /\ Tail(pending) \in Seq(M)
  BY <1>2
<1> QED
  BY <1>2, <1>3 DEF M

\* A message is an address or data.
LEMMA MessageKinds ==
    ASSUME NEW p \in Message
    PROVE  /\ p.kind \in {"address", "data"}
           /\ p.kind = "address" => p.address \in Source
           /\ p.kind = "data" => /\ p \in Data /\ p.source \in {0} \cup Source
                                 /\ p.origin \in Source /\ p.number \in Nat
BY DEF Message, Address, Data

\* What SpawnSink does, in one place.
SpawnEffect(a) ==
    /\ fate = "running" /\ pending # <<>> /\ pending[1].kind = "data" /\ ~ config.echo
    /\ Stream(pending[1].source) \notin DOMAIN sinkTable
    /\ a \in {0} \cup Source
    /\ a = IF config.demux = "spawn" THEN NextInner ELSE Stream(pending[1].source)
    /\ pending' \in Seq(Message) /\ DOMAIN pending' = DOMAIN pending
    /\ \A k \in DOMAIN pending : k # 1 => pending'[k] = pending[k]
    /\ pending'[1].kind = "data" /\ pending'[1].source = a
    /\ pending'[1].number = pending[1].number /\ pending'[1].origin = pending[1].origin
    /\ spawned' = spawned + 1
    /\ sinkTable' = [x \in DOMAIN sinkTable \cup {a} |->
                        IF x = a THEN spawned + 1 ELSE sinkTable[x]]
    /\ fromRouter' \in [packets : Seq(Message), open : BOOLEAN]
    /\ fromRouter'.open = fromRouter.open
    /\ \/ fromRouter'.packets = fromRouter.packets
       \/ fromRouter'.packets = <<>> /\ ~ fromRouter.open
    /\ fate' \in {"running", "sigpipe"}
    /\ nextLocalAddress' \in Nat /\ owed' \in Seq(Source)
    /\ config.demux # "spawn" =>
          UNCHANGED <<nextLocalAddress, owed, fate, fromRouter>>
    /\ \E i \in Slot :
          /\ stream_fd[i] = IgnoreFd
          /\ stream_fd' = [stream_fd EXCEPT ![i] = Out(spawned + 1)]
    /\ UNCHANGED <<config, router_fd, arg_address, input_buffer, pipe, sent, history>>

\* Inner addresses are addresses, in whatever order they are taken.
LEMMA NextInnerType ==
    ASSUME Types
    PROVE  NextInner \in Source
<1> DEFINE l == Len(Inner)
<1>1. Inner \in Seq(Source) /\ l \in Nat /\ l > 0 /\ nextLocalAddress \in Nat
  BY NodeConstants DEF Types, NodeTypes
<1>2. (nextLocalAddress % l) + 1 \in 1..l
  <2> HIDE DEF l
  <2> QED
    BY <1>1
<1>3. Inner[(nextLocalAddress % l) + 1] \in Source
  BY <1>1, <1>2
<1> QED
  BY <1>3 DEF NextInner

\* SpawnSink takes the effect above, for the stream it serves.
LEMMA SpawnFacts ==
    ASSUME Types, SpawnSink
    PROVE  \E a \in {0} \cup Source : SpawnEffect(a)
<1> DEFINE a == IF config.demux = "spawn" THEN NextInner
                ELSE Stream(pending[1].source)
<1>1. /\ fate = "running" /\ pending # <<>> /\ Head(pending) = pending[1]
      /\ pending[1].kind = "data" /\ ~ config.echo
      /\ Stream(pending[1].source) \notin DOMAIN sinkTable
  BY PendingFacts DEF SpawnSink, Spawns
<1>2. /\ pending[1] \in Data /\ 1 \in DOMAIN pending /\ pending \in Seq(Message)
      /\ pending[1].source \in {0} \cup Source
  BY <1>1, PendingFacts, MessageKinds DEF Types, NodeTypes
<1>3. a \in {0} \cup Source
  BY <1>2, NextInnerType DEF Stream, Types, NodeTypes
<1>4. pending' = [pending EXCEPT ![1].source = a]
  BY <1>1 DEF SpawnSink
<1>5. /\ pending' \in Seq(Message) /\ DOMAIN pending' = DOMAIN pending
      /\ \A k \in DOMAIN pending : k # 1 => pending'[k] = pending[k]
      /\ pending'[1].kind = "data" /\ pending'[1].source = a
      /\ pending'[1].number = pending[1].number
      /\ pending'[1].origin = pending[1].origin
  <2> DEFINE p == [pending[1] EXCEPT !.source = a]
             M == Message
  <2>1. p \in Data /\ p.kind = "data" /\ p.source = a /\ p.number = pending[1].number
        /\ p.origin = pending[1].origin
    BY <1>2, <1>3 DEF Data
  <2>2. p \in M /\ pending \in Seq(M)
    BY <1>2, <2>1 DEF Message
  <2>3. pending' = [pending EXCEPT ![1] = p]
    BY <1>2, <1>4
  <2> HIDE DEF p, M
  <2>4. pending' \in Seq(M)
    BY <1>2, <2>2, <2>3
  <2> QED
    BY <1>2, <2>1, <2>3, <2>4 DEF M
<1>6. /\ spawned' = spawned + 1
      /\ sinkTable' = [x \in DOMAIN sinkTable \cup {a} |->
                          IF x = a THEN spawned + 1 ELSE sinkTable[x]]
  BY <1>1 DEF SpawnSink, WithSink
<1>7. /\ fromRouter' \in [packets : Seq(Message), open : BOOLEAN]
      /\ fromRouter'.open = fromRouter.open
      /\ \/ fromRouter'.packets = fromRouter.packets
         \/ fromRouter'.packets = <<>> /\ ~ fromRouter.open
      /\ fate' \in {"running", "sigpipe"}
      /\ config.demux # "spawn" =>
            UNCHANGED <<nextLocalAddress, owed, fate, fromRouter>>
  <2>1. CASE config.demux = "spawn"
    <3>1. WriteToRouter
      BY <2>1 DEF SpawnSink
    <3> QED
      BY <1>1, <2>1, <3>1, WriteFacts DEF Types
  <2>2. CASE config.demux # "spawn"
    <3>1. UNCHANGED <<nextLocalAddress, owed, fate, fromRouter>>
      BY <2>2 DEF SpawnSink
    <3>2. fromRouter \in [packets : Seq(Message), open : BOOLEAN]
      BY DEF Types, OutsideTypes
    <3> QED
      BY <1>1, <2>2, <3>1, <3>2
  <2> QED
    BY <2>1, <2>2
<1>8. nextLocalAddress' \in Nat /\ owed' \in Seq(Source)
  <2>1. nextLocalAddress \in Nat /\ owed \in Seq(Source) /\ NextInner \in Source
    BY NextInnerType DEF Types, NodeTypes, OutsideTypes
  <2>2. \/ nextLocalAddress' = nextLocalAddress + 1 /\ owed' = Append(owed, NextInner)
        \/ nextLocalAddress' = nextLocalAddress /\ owed' = owed
    BY DEF SpawnSink
  <2> QED
    BY <2>1, <2>2, SMTT(30)
<1>9. \E i \in Slot :
        /\ stream_fd[i] = IgnoreFd
        /\ stream_fd' = [stream_fd EXCEPT ![i] = Out(spawned + 1)]
  <2>1. FreeSlots # {} /\ FreeSlots \subseteq Nat
    <3>1. FreeSlots # {}
      BY DEF SpawnSink
    <3> QED
      BY <3>1, NodeConstants DEF FreeSlots
  <2>2. Min(FreeSlots) \in FreeSlots
    BY <2>1, MinIsLeast
  <2>3. stream_fd' = [stream_fd EXCEPT ![Min(FreeSlots)] = Out(spawned + 1)]
    BY <1>6 DEF SpawnSink
  <2> QED
    BY <2>2, <2>3 DEF FreeSlots, Slot
<1>10. UNCHANGED <<config, router_fd, arg_address, input_buffer, pipe, sent, history>>
  BY DEF SpawnSink
<1> HIDE DEF a
<1>11. a = IF config.demux = "spawn" THEN NextInner ELSE Stream(pending[1].source)
  BY DEF a
<1> QED
  BY <1>1, <1>3, <1>5, <1>6, <1>7, <1>8, <1>9, <1>10, <1>11 DEF SpawnEffect

\* What a read of a local descriptor may return.
LEMMA ReadsFacts ==
    ASSUME Types, BuffersAreLines, NEW fd \in Local, NEW n \in Reads(fd)
    PROVE  /\ n \in 1..Len(pipe[fd].bytes)
           /\ config.input # "file" => n <= PipeSize
<1> DEFINE most == IF fd = Stdin /\ config.input = "file" THEN Capacity ELSE PipeSize
           a == Len(pipe[fd].bytes)
           b == Capacity - Len(input_buffer[fd])
<1>1. a \in Nat /\ most \in Nat
  BY NodeConstants DEF Types, OutsideTypes
<1>2. b \in Nat
  <2>1. Len(input_buffer[fd]) \in Nat /\ Len(input_buffer[fd]) <= Capacity - Mtu
    BY DEF Types, NodeTypes, BuffersAreLines, LineBuffer
  <2> QED
    BY <2>1, NodeConstants
<1>3. n \in 1..Min({a, most, b})
  BY DEF Reads
<1>4. config.input # "file" => most = PipeSize
  OBVIOUS
<1> HIDE DEF a, b, most
<1>5. /\ Min({a, most, b}) \in {a, most, b}
      /\ \A y \in {a, most, b} : Min({a, most, b}) <= y
  <2>1. {a, most, b} \subseteq Nat
    BY <1>1, <1>2
  <2> QED
    BY <2>1, MinIsLeast
<1>6. n <= a /\ n <= most /\ n >= 1 /\ n \in Nat
  BY <1>1, <1>2, <1>3, <1>5
<1> QED
  BY <1>1, <1>4, <1>6 DEF a

\* What ReadLocal does: lines go out, and the last one stays.
ReadEffect(fd, more, lines) ==
    /\ fate = "running" /\ Watched(fd) /\ pending = <<>>
    /\ more \in Seq(Nat) /\ Len(more) > 0
    /\ AreLines(lines, Cat(input_buffer[fd], more))
    /\ Len(Cat(input_buffer[fd], more)) <= Capacity - Mtu
    /\ pipe' \in [Local -> [bytes : Seq(Nat), written : Nat, open : BOOLEAN]]
    /\ \A f \in Local : pipe'[f].open = pipe[f].open
    /\ received' \in [Local -> Seq(Nat)]
    /\ received'[fd] = Cat(received[fd], more)
    /\ \A f \in Local : f # fd => received'[f] = received[f]
    /\ forwarded' = [forwarded EXCEPT ![fd] = Cat(forwarded[fd], Packets(lines))]
    /\ input_buffer' = [input_buffer EXCEPT ![fd] = lines[Len(lines)]]
    /\ fromRouter' \in [packets : Seq(Message), open : BOOLEAN]
    /\ fromRouter'.open = fromRouter.open
    /\ \/ fromRouter'.packets = fromRouter.packets
       \/ fromRouter'.packets = <<>> /\ ~ fromRouter.open
    /\ fate' \in {"running", "sigpipe"}
    /\ Connects
    /\ UNCHANGED <<config, arg_address, nextLocalAddress, stream_fd, sinkTable,
                   pending, spawned, owed, sent, delivered>>

\* ReadLocal takes the effect above, for the lines of its buffer.
LEMMA ReadLocalFacts ==
    ASSUME Types, BuffersAreLines, ReadLocal
    PROVE  \E fd \in Local : \E more, lines : ReadEffect(fd, more, lines)
<1>1. PICK i \in Slot, fd \in Local :
        /\ Served(i) /\ stream_fd[i] = fd /\ Connects
        /\ \E n \in Reads(fd) :
             LET lines == Lines(input_buffer[fd] \o SubSeq(pipe[fd].bytes, 1, n))
             IN  /\ TakeBytes(fd, n)
                 /\ ~ Full(fd, n)
                 /\ IF Len(lines) = 1 THEN UNCHANGED <<fate, fromRouter>>
                    ELSE WriteToRouter
                 /\ forwarded' = [forwarded EXCEPT ![fd] = @ \o Packets(lines)]
                 /\ input_buffer' = [input_buffer EXCEPT ![fd] = Kept(lines)]
        /\ UNCHANGED <<config, arg_address, nextLocalAddress, stream_fd, sinkTable,
                       pending, spawned, owed, sent, delivered>>
  BY DEF ReadLocal, Slot
<1>2. PICK n \in Reads(fd) :
             LET lines == Lines(input_buffer[fd] \o SubSeq(pipe[fd].bytes, 1, n))
             IN  /\ TakeBytes(fd, n)
                 /\ ~ Full(fd, n)
                 /\ IF Len(lines) = 1 THEN UNCHANGED <<fate, fromRouter>>
                    ELSE WriteToRouter
                 /\ forwarded' = [forwarded EXCEPT ![fd] = @ \o Packets(lines)]
                 /\ input_buffer' = [input_buffer EXCEPT ![fd] = Kept(lines)]
  BY <1>1
<1> DEFINE more == SubSeq(pipe[fd].bytes, 1, n)
           bytes == Cat(input_buffer[fd], more)
           lines == Lines(bytes)
<1>3. n \in 1..Len(pipe[fd].bytes) /\ n \in Nat /\ n > 0
  BY <1>2, ReadsFacts, NodeConstants, SMTT(30) DEF Types, OutsideTypes
<1>4. /\ more \in Seq(Nat) /\ Len(more) = n
      /\ pipe' \in [Local -> [bytes : Seq(Nat), written : Nat, open : BOOLEAN]]
      /\ \A f \in Local : pipe'[f].open = pipe[f].open
      /\ received' \in [Local -> Seq(Nat)]
      /\ received'[fd] = Cat(received[fd], more)
      /\ \A f \in Local : f # fd => received'[f] = received[f]
  BY <1>2, <1>3, TakeFacts DEF Types
<1>5. lines = Lines(input_buffer[fd] \o SubSeq(pipe[fd].bytes, 1, n))
  BY DEF Cat
<1>6. /\ IF Len(lines) = 1 THEN UNCHANGED <<fate, fromRouter>> ELSE WriteToRouter
      /\ forwarded' = [forwarded EXCEPT ![fd] = Cat(forwarded[fd], Packets(lines))]
      /\ input_buffer' = [input_buffer EXCEPT ![fd] = Kept(lines)]
  BY <1>2, <1>5 DEF Cat
<1> HIDE DEF more
<1>7. input_buffer[fd] \in Seq(Nat)
  BY DEF Types, NodeTypes
<1>8. /\ bytes \in Seq(Nat) /\ Len(bytes) = Len(input_buffer[fd]) + n
  BY <1>4, <1>7, CatType, CatLength
<1> HIDE DEF bytes
<1>9. bytes # <<>> /\ Len(bytes) <= Capacity - Mtu
  <2>1. ~ (Capacity - (Len(input_buffer[fd]) + n) < Mtu)
    BY <1>2 DEF Full
  <2>2. Len(input_buffer[fd]) \in Nat
    BY <1>7
  <2> QED
    BY <1>3, <1>8, <2>1, <2>2, NodeConstants
<1>10. AreLines(lines, bytes)
  BY <1>8, <1>9, LinesFacts
<1>11. Kept(lines) = lines[Len(lines)]
  BY DEF Kept, Last
<1>12. /\ fate = "running" /\ Watched(fd) /\ pending = <<>> /\ Connects
  BY <1>1 DEF Served, Watched, Slot
<1> HIDE DEF lines
<1>13. /\ fromRouter' \in [packets : Seq(Message), open : BOOLEAN]
       /\ fromRouter'.open = fromRouter.open
       /\ \/ fromRouter'.packets = fromRouter.packets
          \/ fromRouter'.packets = <<>> /\ ~ fromRouter.open
       /\ fate' \in {"running", "sigpipe"}
  <2>1. CASE WriteToRouter
    BY <1>12, <2>1, WriteFacts DEF Types
  <2>2. CASE UNCHANGED <<fate, fromRouter>>
    BY <1>12, <2>2 DEF Types, OutsideTypes
  <2> QED
    BY <1>6, <2>1, <2>2
<1>14. UNCHANGED <<config, arg_address, nextLocalAddress, stream_fd, sinkTable,
                   pending, spawned, owed, sent, delivered>>
  BY <1>1
<1>15. ReadEffect(fd, more, lines)
  BY <1>3, <1>4, <1>6, <1>9, <1>10, <1>11, <1>12, <1>13, <1>14 DEF ReadEffect, bytes
<1> QED
  BY <1>1, <1>15

EmergencyEffect(fd, n) ==
    /\ n \in 1..Len(pipe[fd].bytes) /\ TakeBytes(fd, n) /\ Full(fd, n) /\ Watched(fd)
    /\ config.input # "file" => n <= PipeSize
    /\ fate' = "segv"
    /\ Connects
    /\ UNCHANGED <<config, arg_address, nextLocalAddress, stream_fd, sinkTable,
                   input_buffer, pending, spawned, owed, fromRouter, sent,
                   forwarded, delivered>>

\* EmergencySend does only this.
LEMMA EmergencyFacts ==
    ASSUME Types, BuffersAreLines, EmergencySend
    PROVE  \E fd \in Local : \E n \in Reads(fd) : EmergencyEffect(fd, n)
<1>1. PICK i \in 1..Streams, fd \in Local :
        /\ stream_fd[i] = fd /\ Connects
        /\ \E n \in Reads(fd) : TakeBytes(fd, n) /\ Full(fd, n)
  BY DEF EmergencySend
<1>2. PICK n \in Reads(fd) : TakeBytes(fd, n) /\ Full(fd, n)
  BY <1>1
<1>3. n \in 1..Len(pipe[fd].bytes) /\ (config.input # "file" => n <= PipeSize)
  BY <1>2, ReadsFacts
<1>4. /\ fate' = "segv"
      /\ UNCHANGED <<config, arg_address, nextLocalAddress, stream_fd, sinkTable,
                     input_buffer, pending, spawned, owed, fromRouter, sent,
                     forwarded, delivered>>
  BY DEF EmergencySend
<1>5. EmergencyEffect(fd, n)
  BY <1>1, <1>2, <1>3, <1>4 DEF EmergencyEffect, Watched
<1> QED
  BY <1>2, <1>5

EndEffect(i, fd) ==
    /\ fate = "running" /\ pending = <<>> /\ stream_fd[i] = fd /\ ~ pipe[fd].open
    /\ fate' = IF fd = Stdin THEN "shutdown" ELSE fate
    /\ sinkTable' = SinksWithout(fd)
    /\ input_buffer' = [input_buffer EXCEPT ![fd] = <<>>]
    /\ stream_fd' = [stream_fd EXCEPT ![i] = IgnoreFd]
    /\ Connects
    /\ UNCHANGED <<config, arg_address, nextLocalAddress, pending, outside, history>>

\* LocalEnds takes the slot and the sink of what has ended.
LEMMA EndFacts ==
    ASSUME Types, LocalEnds
    PROVE  \E i \in Slot, fd \in Local : EndEffect(i, fd)
<1>1. PICK i \in Slot, fd \in Local :
        /\ Served(i) /\ stream_fd[i] = fd /\ Connects
        /\ pipe[fd].bytes = <<>>
        /\ fate' = IF fd = Stdin THEN "shutdown" ELSE fate
        /\ sinkTable' = SinksWithout(fd)
        /\ input_buffer' = [input_buffer EXCEPT ![fd] = <<>>]
        /\ stream_fd' = [stream_fd EXCEPT ![i] = IgnoreFd]
        /\ UNCHANGED <<config, arg_address, nextLocalAddress, pending, outside,
                       history>>
  BY DEF LocalEnds, Slot
<1>2. fate = "running" /\ pending = <<>> /\ Event(fd)
  BY <1>1 DEF Served
<1>3. ~ pipe[fd].open
  BY <1>1, <1>2, Descriptors DEF Event
<1> QED
  BY <1>1, <1>2, <1>3 DEF EndEffect

\* A read from the router's socket takes the front of what is on the way.
RemoteEffect(n) ==
    /\ n \in 1..Len(fromRouter.packets) /\ pending = <<>>
    /\ pending' \in Seq(Message) /\ Len(pending') = n
    /\ \A k \in 1..n : pending'[k] = fromRouter.packets[k]
    /\ fromRouter' \in [packets : Seq(Message), open : BOOLEAN]
    /\ fromRouter'.open = fromRouter.open
    /\ Len(fromRouter'.packets) = Len(fromRouter.packets) - n
    /\ \A k \in 1..(Len(fromRouter.packets) - n) :
          fromRouter'.packets[k] = fromRouter.packets[n + k]
    /\ UNCHANGED <<config, router_fd, arg_address, nextLocalAddress, stream_fd,
                   sinkTable, input_buffer, fate, pipe, spawned, owed, sent,
                   history>>

\* ReadRemote moves packets, and changes none.
LEMMA RemoteFacts ==
    ASSUME Types, ReadRemote
    PROVE  \E n \in Nat : RemoteEffect(n)
<1> DEFINE M == Message
           q == fromRouter.packets
           l == Len(q)
<1>1. PICK i \in 1..Streams, n \in 1..l :
        /\ pending = <<>>
        /\ pending' = SubSeq(q, 1, n)
        /\ fromRouter' = [fromRouter EXCEPT !.packets = SubSeq(q, n + 1, l)]
  BY DEF ReadRemote, Served
<1>2. fromRouter \in [packets : Seq(M), open : BOOLEAN]
  BY DEF Types, OutsideTypes
<1> HIDE DEF M
<1>3. q \in Seq(M) /\ l \in Nat /\ n \in 0..l /\ n \in Nat
  BY <1>2
<1>4. /\ pending' \in Seq(M) /\ Len(pending') = n
      /\ SubSeq(q, n + 1, l) \in Seq(M) /\ Len(SubSeq(q, n + 1, l)) = l - n
  BY <1>1, <1>3, CatSplit
<1>5. /\ \A k \in 1..n : SubSeq(q, 1, n)[k] = q[k]
      /\ \A k \in 1..(l - n) : SubSeq(q, n + 1, l)[k] = q[n + k]
  <2> HIDE DEF q
  <2>1. \A k \in 1..n : SubSeq(q, 1, n)[k] = q[k]
    BY <1>3
  <2>2. ASSUME NEW k \in 1..(l - n)
        PROVE  SubSeq(q, n + 1, l)[k] = q[n + k]
    <3>1. SubSeq(q, n + 1, l)[k] = q[n + 1 + k - 1]
      BY <1>3
    <3>2. n + 1 + k - 1 = n + k
      BY <1>3
    <3> QED
      BY <3>1, <3>2
  <2> QED
    BY <2>1, <2>2
<1>6. /\ fromRouter' \in [packets : Seq(M), open : BOOLEAN]
      /\ fromRouter'.open = fromRouter.open
      /\ fromRouter'.packets = SubSeq(q, n + 1, l)
  BY <1>1, <1>2, <1>4
<1>7. UNCHANGED <<config, router_fd, arg_address, nextLocalAddress, stream_fd,
                  sinkTable, input_buffer, fate, pipe, spawned, owed, sent,
                  history>>
  BY DEF ReadRemote
<1> QED
  BY <1>1, <1>3, <1>4, <1>5, <1>6, <1>7 DEF RemoteEffect, M

\* A packet is added to what is on the way: the answer to a claim, or data.
ArrivalEffect(p) ==
    /\ p \in Message /\ fromRouter.open
    /\ fromRouter' = [packets |-> Append(fromRouter.packets, p), open |-> TRUE]
    /\ \/ /\ p.kind = "address" /\ owed # <<>>
          /\ owed' = Tail(owed) /\ UNCHANGED sent
       \/ /\ p.kind = "data" /\ config.router
          /\ p.source = p.origin /\ p.number = sent + 1
          /\ sent < MaxData
          /\ sent' = sent + 1 /\ UNCHANGED owed
    /\ UNCHANGED <<node, pipe, spawned, history>>

\* Answers and SendsData add a message behind the others.
LEMMA ArrivalFacts ==
    ASSUME Types, Answers \/ SendsData
    PROVE  \E p \in Message : ArrivalEffect(p)
<1>1. fromRouter \in [packets : Seq(Message), open : BOOLEAN] /\ owed \in Seq(Source)
      /\ sent \in 0..MaxData
  BY DEF Types, OutsideTypes
<1>2. CASE Answers
  <2> DEFINE p == [kind |-> "address", address |-> Head(owed)]
  <2>1. p \in Message
    <3>1. Head(owed) \in Source
      BY <1>1, <1>2 DEF Answers
    <3> QED
      BY <3>1 DEF Message, Address
  <2>2. p.kind = "address"
    OBVIOUS
  <2>3. /\ fromRouter.open /\ owed # <<>> /\ owed' = Tail(owed)
        /\ fromRouter' = [fromRouter EXCEPT !.packets = Append(@, p)]
        /\ UNCHANGED <<node, pipe, spawned, sent, history>>
    BY <1>2 DEF Answers
  <2> HIDE DEF p
  <2>4. fromRouter' = [packets |-> Append(fromRouter.packets, p), open |-> TRUE]
    BY <1>1, <2>3
  <2> QED
    BY <2>1, <2>2, <2>3, <2>4 DEF ArrivalEffect
<1>3. CASE SendsData
  <2>1. PICK a \in Source :
          /\ config.router /\ sent < MaxData /\ fromRouter.open
          /\ sent' = sent + 1
          /\ fromRouter' = [fromRouter EXCEPT !.packets =
                              Append(@, [kind |-> "data", source |-> a, origin |-> a,
                                         number |-> sent'])]
          /\ UNCHANGED <<node, pipe, spawned, owed, history>>
    BY <1>3 DEF SendsData
  <2> DEFINE p == [kind |-> "data", source |-> a, origin |-> a, number |-> sent + 1]
  <2>2. p \in Message
    BY <1>1, NodeConstants DEF Message, Data
  <2>3. p.kind = "data" /\ p.source = p.origin /\ p.number = sent + 1
    OBVIOUS
  <2>4. fromRouter' = [fromRouter EXCEPT !.packets = Append(@, p)]
    BY <2>1
  <2> HIDE DEF p
  <2>5. fromRouter' = [packets |-> Append(fromRouter.packets, p), open |-> TRUE]
    BY <1>1, <2>1, <2>4
  <2> QED
    BY <2>1, <2>2, <2>3, <2>5 DEF ArrivalEffect
<1> QED
  BY <1>2, <1>3

\* What is appended is the last, and all before it stays.
LEMMA AppendFacts ==
    ASSUME NEW S, NEW s \in Seq(S), NEW p \in S
    PROVE  /\ Append(s, p) \in Seq(S)
           /\ Append(s, p)[Len(s) + 1] = p
           /\ Len(s) \in Nat /\ DOMAIN s = 1..Len(s)
           /\ \A k \in DOMAIN s : k \in DOMAIN Append(s, p) /\ Append(s, p)[k] = s[k]
           /\ \A k \in DOMAIN Append(s, p) :
                 k \in DOMAIN s \/ k = Len(s) + 1
           /\ Len(s) + 1 \in DOMAIN Append(s, p)
OBVIOUS

\* What a child or stdin does to its pipe.
LEMMA PipeFacts ==
    ASSUME Types, Writes \/ Ends
    PROVE  /\ pipe' \in [Local -> [bytes : Seq(Nat), written : Nat, open : BOOLEAN]]
           /\ \A f \in Local : pipe'[f].open => pipe[f].open
           /\ UNCHANGED <<node, spawned, owed, fromRouter, sent, history>>
<1> DEFINE P == [bytes : Seq(Nat), written : Nat, open : BOOLEAN]
<1>1. pipe \in [Local -> P]
  BY DEF Types, OutsideTypes
<1>2. ASSUME NEW f, NEW r \in P, pipe' = [pipe EXCEPT ![f] = r],
             f \in Local => (r.open => pipe[f].open)
      PROVE  /\ pipe' \in [Local -> P]
             /\ \A x \in Local : pipe'[x].open => pipe[x].open
  <2> HIDE DEF P
  <2> QED
    BY <1>1, <1>2
<1>3. CASE Writes
  <2>1. PICK fd \in Writers :
          /\ pipe[fd].written < Len(Script[fd])
          /\ pipe' = [pipe EXCEPT ![fd].written = @ + 1,
                          ![fd].bytes = @ \o Script[fd][pipe[fd].written + 1]]
    BY <1>3 DEF Writes
  <2>2. CASE fd \in Local
    <3>1. pipe[fd] \in P /\ pipe[fd].written \in Nat /\ pipe[fd].bytes \in Seq(Nat)
      BY <1>1, <2>2
    <3> DEFINE more == Script[fd][pipe[fd].written + 1]
               both == Cat(pipe[fd].bytes, more)
               r == [pipe[fd] EXCEPT !.written = pipe[fd].written + 1, !.bytes = both]
    <3>2. more \in Seq(Nat)
      <4>1. Script[fd] \in Seq(Seq(Nat))
        BY <2>2, NodeConstants
      <4>2. pipe[fd].written + 1 \in 1..Len(Script[fd])
        BY <2>1, <3>1, <4>1
      <4> QED
        BY <4>1, <4>2
    <3>3. both \in Seq(Nat)
      BY <3>1, <3>2, CatType
    <3>5. pipe' = [pipe EXCEPT ![fd] = r]
      BY <1>1, <2>1, <2>2 DEF Cat
    <3> HIDE DEF both
    <3>4. r \in P /\ r.open = pipe[fd].open
      <4> DEFINE B == Seq(Nat)
                 w == pipe[fd].written + 1
      <4>1. pipe[fd] \in [bytes : B, written : Nat, open : BOOLEAN] /\ both \in B
            /\ w \in Nat
        BY <3>1, <3>3
      <4> HIDE DEF B, w
      <4>2. [pipe[fd] EXCEPT !.written = w, !.bytes = both]
               \in [bytes : B, written : Nat, open : BOOLEAN]
        BY <4>1
      <4>3. [pipe[fd] EXCEPT !.written = w, !.bytes = both].open = pipe[fd].open
        BY <4>1
      <4> QED
        BY <4>2, <4>3 DEF B, w
    <3> HIDE DEF r
    <3> QED
      BY <1>2, <1>3, <3>4, <3>5 DEF Writes
  <2>3. CASE fd \notin Local
    <3>1. pipe' = pipe
      BY <1>1, <2>1, <2>3
    <3> QED
      BY <1>1, <1>3, <3>1 DEF Writes
  <2> QED
    BY <2>2, <2>3
<1>4. CASE Ends
  <2>1. PICK fd \in Writers : pipe' = [pipe EXCEPT ![fd].open = FALSE]
    BY <1>4 DEF Ends
  <2>2. CASE fd \in Local
    <3> DEFINE r == [pipe[fd] EXCEPT !.open = FALSE]
    <3>1. r \in P /\ r.open = FALSE
      BY <1>1, <2>2
    <3>2. pipe' = [pipe EXCEPT ![fd] = r]
      BY <1>1, <2>1, <2>2
    <3> HIDE DEF r
    <3> QED
      BY <1>2, <1>4, <3>1, <3>2 DEF Ends
  <2>3. CASE fd \notin Local
    <3>1. pipe' = pipe
      BY <1>1, <2>1, <2>3
    <3> QED
      BY <1>1, <1>4, <3>1 DEF Ends
  <2> QED
    BY <2>2, <2>3
<1> QED
  BY <1>3, <1>4

\* What goes to a child.
LEMMA GiveFacts ==
    ASSUME Types, GiveToSink
    PROVE  /\ fate = "running" /\ pending # <<>> /\ pending' = Tail(pending)
           /\ pending[1].kind = "data" /\ ~ config.echo
           /\ Stream(pending[1].source) \in DOMAIN sinkTable
           /\ \/ /\ pipe[Out(sinkTable[Stream(pending[1].source)])].open
                 /\ delivered' = Append(delivered, [packet |-> pending[1],
                                   child |-> sinkTable[Stream(pending[1].source)]])
                 /\ UNCHANGED fate
              \/ fate' = "sigpipe" /\ UNCHANGED delivered
           /\ UNCHANGED <<config, router_fd, arg_address, nextLocalAddress, stream_fd,
                          sinkTable, input_buffer, outside, forwarded, received>>
<1>1. pending # <<>> /\ Head(pending) = pending[1]
  BY PendingFacts DEF GiveToSink, NextPending
<1> QED
  BY <1>1 DEF GiveToSink, NextPending

\* Every step is one of these.
LEMMA StepCases ==
    ASSUME NodeNext
    PROVE  \/ ReadRemote \/ RouterGone \/ HandleCommand \/ Echo \/ GiveToSink
           \/ SpawnSink \/ SpawnPastTable \/ ReadLocal \/ EmergencySend \/ LocalEnds
           \/ PassesOver \/ (Answers \/ SendsData) \/ RouterCloses \/ RouterStarts
           \/ (Writes \/ Ends)
BY DEF NodeNext, NodeStep, OutsideStep

\* Each child has been started for a packet of its own, so there are enough numbers.
LEMMA NextChild ==
    ASSUME Types, DataInOrder, NEW a, SpawnEffect(a)
    PROVE  spawned + 1 \in Child
<1> DEFINE n == pending[1].number
<1>1. n \in 1..sent /\ sent \in 0..MaxData /\ 1 \in DOMAIN pending
  BY PendingFacts DEF SpawnEffect, DataInOrder, Numbered, Types, OutsideTypes
<1>2. spawned <= n /\ spawned \in Nat
  BY <1>1 DEF SpawnEffect, DataInOrder, HasSink, Types, OutsideTypes
<1> HIDE DEF n
<1>3. spawned + 1 \in 1..(MaxData + 1)
  BY <1>1, <1>2, NodeConstants
<1> QED
  BY <1>3, Descriptors

\* The types are kept.
LEMMA TypesStep ==
    ASSUME Types, DataInOrder, BuffersAreLines, NodeNext
    PROVE  Types'
<1>1. /\ sinkTable \in [DOMAIN sinkTable -> 1..spawned]
      /\ DOMAIN sinkTable \subseteq {0} \cup Source
      /\ stream_fd \in [Slot -> {IgnoreFd, RouterFd} \cup Local]
      /\ input_buffer \in [Local -> Seq(Nat)] /\ forwarded \in [Local -> Seq(Line)]
      /\ spawned \in Nat /\ pending \in Seq(Message)
  BY DEF Types, NodeTypes, OutsideTypes
<1>2. CASE ReadRemote
  <2>1. PICK n \in Nat : RemoteEffect(n)
    BY <1>2, RemoteFacts
  <2> QED
    BY <2>1 DEF RemoteEffect, history, Types, NodeTypes, OutsideTypes
<1>3. CASE RouterGone
  <2>1. stream_fd' \in [Slot -> {IgnoreFd, RouterFd} \cup Local]
    BY <1>1, <1>3 DEF RouterGone
  <2> QED
    BY <1>3, <2>1 DEF RouterGone, outside, history, Types, NodeTypes, OutsideTypes
<1>4. CASE HandleCommand
  <2>1. /\ pending # <<>> /\ Head(pending) \in Message /\ Head(pending).kind = "address"
        /\ pending' = Tail(pending) /\ Tail(pending) \in Seq(Message)
    BY <1>4, PendingFacts DEF HandleCommand, NextPending
  <2>2. Head(pending).address \in Source
    BY <2>1, MessageKinds
  <2>3. arg_address' \in {0} \cup Source
    BY <1>4, <2>2 DEF HandleCommand, Types, NodeTypes
  <2> QED
    BY <1>4, <2>1, <2>3
       DEF HandleCommand, outside, history, Types, NodeTypes, OutsideTypes
<1>5. CASE Echo
  <2>1. pending' \in Seq(Message)
    BY <1>5, PendingFacts DEF Echo, NextPending
  <2> QED
    BY <1>5, <2>1 DEF Echo, outside, history, Types, NodeTypes, OutsideTypes
<1>6. CASE GiveToSink
  <2>1. pending' \in Seq(Message) /\ pending[1] \in Data
    BY <1>6, GiveFacts, PendingFacts, MessageKinds
  <2>2. delivered' \in Seq([packet : Data, child : Child])
    <3> DEFINE c == sinkTable[Stream(pending[1].source)]
    <3>1. c \in 1..spawned
      BY <1>1, <1>6, GiveFacts
    <3>2. spawned <= MaxData + 1
      <4>1. spawned <= sent + 1 /\ sent \in 0..MaxData /\ spawned \in Nat
        BY <1>1 DEF DataInOrder, Types, OutsideTypes
      <4> QED
        BY <4>1, NodeConstants
    <3>3. c \in Child
      <4>1. spawned \in Nat /\ MaxData \in Nat
        BY NodeConstants DEF Types, OutsideTypes
      <4> HIDE DEF c
      <4> QED
        BY <3>1, <3>2, <4>1 DEF Child
    <3>4. delivered \in Seq([packet : Data, child : Child])
      BY DEF Types, OutsideTypes
    <3> DEFINE d == [packet |-> pending[1], child |-> c]
               D == [packet : Data, child : Child]
    <3>6. delivered' = delivered \/ delivered' = Append(delivered, d)
      BY <1>6, GiveFacts
    <3> HIDE DEF c
    <3>5. d \in D
      BY <2>1, <3>3
    <3> HIDE DEF d, D
    <3>7. delivered \in Seq(D)
      BY <3>4 DEF D
    <3>8. Append(delivered, d) \in Seq(D)
      BY <3>5, <3>7, AppendFacts
    <3> QED
      BY <3>6, <3>7, <3>8 DEF D
  <2>3. fate' \in {"running", "shutdown", "sigpipe", "segv", "undefined"}
    BY <1>6, GiveFacts DEF Types, NodeTypes
  <2> QED
    BY <1>6, GiveFacts, <2>1, <2>2, <2>3 DEF outside, Types, NodeTypes, OutsideTypes
<1>7. CASE SpawnSink
  <2>1. PICK a \in {0} \cup Source : SpawnEffect(a)
    BY <1>7, SpawnFacts
  <2>2. PICK i \in Slot :
          stream_fd' = [stream_fd EXCEPT ![i] = Out(spawned + 1)]
    BY <2>1 DEF SpawnEffect
  <2>3. spawned + 1 \in Child
    BY <2>1, NextChild
  <2>4. stream_fd' \in [Slot -> {IgnoreFd, RouterFd} \cup Local]
    BY <1>1, <2>2, <2>3, Descriptors
  <2>5. /\ sinkTable' \in [DOMAIN sinkTable' -> 1..spawned']
        /\ DOMAIN sinkTable' \subseteq {0} \cup Source
    BY <1>1, <2>1 DEF SpawnEffect
  <2>6. NodeTypes'
    BY <2>1, <2>4, <2>5 DEF SpawnEffect, Types, NodeTypes
  <2>7. OutsideTypes'
    <3>1. /\ spawned' \in Nat /\ owed' \in Seq(Source)
          /\ fromRouter' \in [packets : Seq(Message), open : BOOLEAN]
          /\ UNCHANGED <<pipe, sent, forwarded, received, delivered>>
      BY <1>1, <2>1 DEF SpawnEffect, history, Types, OutsideTypes
    <3> QED
      BY <3>1 DEF Types, OutsideTypes
  <2> QED
    BY <2>6, <2>7 DEF Types
<1>8. CASE SpawnPastTable
  BY <1>8 DEF SpawnPastTable, outside, history, Types, NodeTypes, OutsideTypes
<1>9. CASE ReadLocal
  <2>1. PICK fd \in Local : \E more, lines : ReadEffect(fd, more, lines)
    BY <1>9, ReadLocalFacts
  <2>2. PICK more, lines : ReadEffect(fd, more, lines)
    BY <2>1
  <2>3. /\ lines \in Seq(Seq(Nat)) /\ Len(lines) \in Nat /\ Len(lines) > 0
    BY <2>2 DEF ReadEffect, AreLines
  <2>4. Packets(lines) \in Seq(Line)
    <3>1. \A k \in 1..(Len(lines) - 1) :
             [source |-> arg_address, payload |-> lines[k]] \in Line
      BY <2>3 DEF Line, Types, NodeTypes
    <3> DEFINE L == Line
    <3> HIDE DEF L
    <3>2. Packets(lines) \in [1..(Len(lines) - 1) -> L]
      BY <3>1 DEF Packets, L
    <3>3. Len(lines) - 1 \in Nat
      BY <2>3
    <3> HIDE DEF Packets
    <3> QED
      BY <3>2, <3>3 DEF L
  <2>5. forwarded' \in [Local -> Seq(Line)]
    <3>1. Cat(forwarded[fd], Packets(lines)) \in Seq(Line)
      BY <1>1, <2>4, CatType
    <3>2. forwarded' = [forwarded EXCEPT ![fd] = Cat(forwarded[fd], Packets(lines))]
      BY <2>2 DEF ReadEffect
    <3> QED
      BY <1>1, <3>1, <3>2
  <2>6. input_buffer' \in [Local -> Seq(Nat)]
    <3>1. lines[Len(lines)] \in Seq(Nat)
      BY <2>3
    <3>2. input_buffer' = [input_buffer EXCEPT ![fd] = lines[Len(lines)]]
      BY <2>2 DEF ReadEffect
    <3> QED
      BY <1>1, <3>1, <3>2
  <2>7. router_fd' \in {IgnoreFd, RouterFd}
    BY <2>2 DEF ReadEffect, Connects, Types, NodeTypes
  <2> QED
    BY <2>2, <2>5, <2>6, <2>7 DEF ReadEffect, Types, NodeTypes, OutsideTypes
<1>10. CASE EmergencySend
  <2>1. PICK fd \in Local, n \in Nat : EmergencyEffect(fd, n)
    <3>1. PICK fd \in Local : \E n \in Reads(fd) : EmergencyEffect(fd, n)
      BY <1>10, EmergencyFacts
    <3>2. PICK n \in Reads(fd) : EmergencyEffect(fd, n)
      BY <3>1
    <3>3. n \in Nat
      BY <3>2 DEF EmergencyEffect, Types, OutsideTypes
    <3> QED
      BY <3>2, <3>3
  <2>2. /\ pipe' \in [Local -> [bytes : Seq(Nat), written : Nat, open : BOOLEAN]]
        /\ received' \in [Local -> Seq(Nat)]
    BY <2>1, TakeFacts DEF EmergencyEffect, Types
  <2>3. router_fd' \in {IgnoreFd, RouterFd}
    BY <2>1 DEF EmergencyEffect, Connects, Types, NodeTypes
  <2> QED
    BY <2>1, <2>2, <2>3 DEF EmergencyEffect, Types, NodeTypes, OutsideTypes
<1>11. CASE LocalEnds
  <2>1. PICK i \in Slot, fd \in Local : EndEffect(i, fd)
    BY <1>11, EndFacts
  <2>2. stream_fd' \in [Slot -> {IgnoreFd, RouterFd} \cup Local]
    BY <1>1, <2>1 DEF EndEffect
  <2>3. input_buffer' \in [Local -> Seq(Nat)]
    BY <1>1, <2>1 DEF EndEffect
  <2>4. /\ sinkTable' \in [DOMAIN sinkTable' -> 1..spawned]
        /\ DOMAIN sinkTable' \subseteq {0} \cup Source
    BY <1>1, <2>1 DEF EndEffect, SinksWithout
  <2>5. router_fd' \in {IgnoreFd, RouterFd}
    BY <2>1 DEF EndEffect, Connects, Types, NodeTypes
  <2> QED
    BY <2>1, <2>2, <2>3, <2>4, <2>5
       DEF EndEffect, outside, history, Types, NodeTypes, OutsideTypes
<1>12. CASE PassesOver
  <2>1. router_fd' \in {IgnoreFd, RouterFd}
    BY <1>12 DEF PassesOver, Connects, Types, NodeTypes
  <2> QED
    BY <1>12, <2>1 DEF PassesOver, outside, history, Types, NodeTypes, OutsideTypes
<1>13. CASE Answers \/ SendsData
  <2>1. PICK p \in Message : ArrivalEffect(p)
    BY <1>13, ArrivalFacts
  <2>2. fromRouter.packets \in Seq(Message)
    BY DEF Types, OutsideTypes
  <2>3. Append(fromRouter.packets, p) \in Seq(Message)
    BY <2>2, AppendFacts
  <2>4. fromRouter' \in [packets : Seq(Message), open : BOOLEAN]
    BY <2>1, <2>3 DEF ArrivalEffect
  <2>5. owed' \in Seq(Source) /\ sent' \in 0..MaxData
    <3>1. owed \in Seq(Source) /\ sent \in 0..MaxData
      BY DEF Types, OutsideTypes
    <3>2. owed # <<>> => Tail(owed) \in Seq(Source)
      BY <3>1
    <3>3. owed' \in Seq(Source)
      BY <2>1, <3>1, <3>2 DEF ArrivalEffect
    <3>4. sent' = sent \/ (sent < MaxData /\ sent' = sent + 1)
      BY <2>1 DEF ArrivalEffect
    <3>5. sent' \in 0..MaxData
      BY <3>1, <3>4, NodeConstants
    <3> QED
      BY <3>3, <3>5
  <2> QED
    BY <2>1, <2>4, <2>5 DEF ArrivalEffect, node, history, Types, NodeTypes, OutsideTypes
<1>14. CASE RouterCloses \/ RouterStarts
  <2>1. fromRouter' \in [packets : Seq(Message), open : BOOLEAN]
    BY <1>14 DEF RouterCloses, RouterStarts, Types, OutsideTypes
  <2> QED
    BY <1>14, <2>1
       DEF RouterCloses, RouterStarts, node, history, Types, NodeTypes, OutsideTypes
<1>15. CASE Writes \/ Ends
  BY <1>15, PipeFacts DEF node, history, Types, NodeTypes, OutsideTypes
<1> QED
  BY <1>2, <1>3, <1>4, <1>5, <1>6, <1>7, <1>8, <1>9, <1>10, <1>11, <1>12, <1>13,
     <1>14, <1>15, StepCases

-----------------------------------------------------------------------------
(* Data stays in order, and a packet starts one child at most.             *)

\* The packets on the way and those being handled are sequences; data has a number.
LEMMA QueueFacts ==
    ASSUME Types
    PROVE  /\ pending \in Seq(Message) /\ Len(pending) \in Nat
           /\ DOMAIN pending = 1..Len(pending)
           /\ fromRouter.packets \in Seq(Message) /\ Len(fromRouter.packets) \in Nat
           /\ DOMAIN fromRouter.packets = 1..Len(fromRouter.packets)
           /\ \A k \in DOMAIN pending :
                 /\ pending[k] \in Message
                 /\ pending[k].kind = "data" => pending[k].number \in Nat
           /\ \A k \in DOMAIN fromRouter.packets :
                 /\ fromRouter.packets[k] \in Message
                 /\ fromRouter.packets[k].kind = "data" =>
                       fromRouter.packets[k].number \in Nat
           /\ sent \in Nat /\ spawned \in Nat
<1>1. pending \in Seq(Message) /\ fromRouter.packets \in Seq(Message)
  BY DEF Types, NodeTypes, OutsideTypes
<1>2. sent \in Nat /\ spawned \in Nat
  BY NodeConstants DEF Types, OutsideTypes
<1> DEFINE M == Message
<1>3. \A p \in M : p.kind = "data" => p.number \in Nat
  BY MessageKinds
<1> HIDE DEF M
<1>4. ASSUME NEW s \in Seq(M)
      PROVE  /\ Len(s) \in Nat /\ DOMAIN s = 1..Len(s)
             /\ \A k \in DOMAIN s : s[k] \in M
  OBVIOUS
<1>5. pending \in Seq(M) /\ fromRouter.packets \in Seq(M)
  BY <1>1 DEF M
<1> QED
  BY <1>2, <1>3, <1>4, <1>5 DEF M

\* What is read, and what stays on the way.
LEMMA ReadParts ==
    ASSUME Types, NEW n \in Nat, RemoteEffect(n)
    PROVE  LET q == fromRouter.packets
               r == fromRouter'.packets
               l == Len(q)
           IN  /\ l \in Nat /\ n \in 1..l /\ DOMAIN q = 1..l
               /\ DOMAIN pending' = 1..n /\ DOMAIN r = 1..(l - n)
               /\ \A k \in 1..n : pending'[k] = q[k]
               /\ \A k \in 1..(l - n) : r[k] = q[n + k]
<1> DEFINE r == fromRouter'.packets
<1>1. DOMAIN pending' = 1..Len(pending') /\ DOMAIN r = 1..Len(r)
  <2>1. pending' \in Seq(Message) /\ r \in Seq(Message)
    BY DEF RemoteEffect
  <2> DEFINE M == Message
  <2> HIDE DEF M, r
  <2>2. pending' \in Seq(M) /\ r \in Seq(M)
    BY <2>1 DEF M
  <2> QED
    BY <2>2
<1> QED
  BY <1>1, QueueFacts DEF RemoteEffect

\* Where a packet is added.
LEMMA AddedParts ==
    ASSUME Types, NEW p \in Message, ArrivalEffect(p)
    PROVE  LET q == fromRouter.packets
               r == fromRouter'.packets
               l == Len(q)
           IN  /\ l \in Nat /\ DOMAIN q = 1..l /\ l + 1 \in DOMAIN r /\ r[l + 1] = p
               /\ \A k \in DOMAIN q : k \in DOMAIN r /\ r[k] = q[k]
               /\ \A k \in DOMAIN r : k \in DOMAIN q \/ k = l + 1
<1> DEFINE q == fromRouter.packets
           r == fromRouter'.packets
<1>1. r = Append(q, p) /\ q \in Seq(Message)
  BY QueueFacts DEF ArrivalEffect
<1> HIDE DEF q, r
<1>2. /\ Len(q) \in Nat /\ DOMAIN q = 1..Len(q) /\ Len(q) + 1 \in DOMAIN r
      /\ r[Len(q) + 1] = p
      /\ \A k \in DOMAIN q : k \in DOMAIN r /\ r[k] = q[k]
      /\ \A k \in DOMAIN r : k \in DOMAIN q \/ k = Len(q) + 1
  BY <1>1, AppendFacts
<1> QED
  BY <1>2 DEF q, r

\* Some of the packets on the way may be lost, all at once.
KeepsQueue ==
    fromRouter'.packets = fromRouter.packets \/ fromRouter'.packets = <<>>

\* The order is kept where nothing is added or taken,
LEMMA OrderKept ==
    ASSUME Types, DataInOrder, KeepsQueue, UNCHANGED <<pending, spawned, sent, config>>,
           pending # <<>> => UNCHANGED <<arg_address, sinkTable>>
    PROVE  DataInOrder'
<1>1. CASE fromRouter'.packets = fromRouter.packets
  BY <1>1 DEF DataInOrder, Ordered, Ahead, Numbered, SpawnedBefore, HasSink, Stream
<1>2. CASE fromRouter'.packets = <<>>
  BY <1>2 DEF DataInOrder, Ordered, Ahead, Numbered, SpawnedBefore, HasSink, Stream
<1> QED
  BY <1>1, <1>2 DEF KeepsQueue

\* where one packet has been handled,
LEMMA OrderPopped ==
    ASSUME Types, DataInOrder, pending # <<>>, pending' = Tail(pending),
           UNCHANGED <<fromRouter, spawned, sent>>
    PROVE  DataInOrder'
<1> DEFINE q == fromRouter.packets
<1>1. /\ \A k \in DOMAIN pending' : /\ k + 1 \in DOMAIN pending /\ k + 1 > 1
                                    /\ k \in Nat /\ pending'[k] = pending[k + 1]
      /\ fromRouter'.packets = q
  BY PendingFacts
<1>2. /\ Ordered(pending) /\ Ordered(q) /\ Ahead(pending, q)
      /\ Numbered(pending) /\ Numbered(q) /\ spawned <= sent + 1
      /\ \A k \in DOMAIN pending :
            (pending[k].kind = "data" /\ k # 1) => spawned <= pending[k].number
      /\ SpawnedBefore(q)
  BY DEF DataInOrder
<1> HIDE DEF q
<1>3. Ordered(pending')
  BY <1>1, <1>2 DEF Ordered
<1>4. Ahead(pending', q)
  BY <1>1, <1>2 DEF Ahead
<1>5. \A k \in DOMAIN pending' : pending'[k].kind = "data" =>
         spawned <= pending'[k].number /\ pending'[k].number \in 1..sent
  BY <1>1, <1>2 DEF Numbered
<1> QED
  BY <1>1, <1>2, <1>3, <1>4, <1>5 DEF DataInOrder, Numbered, SpawnedBefore

\* and where the front of the queue has been read.
LEMMA OrderRead ==
    ASSUME Types, DataInOrder, NEW n \in Nat, RemoteEffect(n)
    PROVE  DataInOrder'
<1> DEFINE q == fromRouter.packets
           l == Len(q)
           r == fromRouter'.packets
<1>2. /\ l \in Nat /\ n \in 1..l /\ DOMAIN q = 1..l
      /\ DOMAIN pending' = 1..n /\ DOMAIN r = 1..(l - n)
      /\ \A k \in 1..n : pending'[k] = q[k]
      /\ \A k \in 1..(l - n) : r[k] = q[n + k]
      /\ UNCHANGED <<spawned, sent>>
  BY ReadParts DEF RemoteEffect
<1>3. Ordered(q) /\ Numbered(q) /\ spawned <= sent + 1 /\ SpawnedBefore(q)
  BY DEF DataInOrder
<1> HIDE DEF q, r, l
<1>4. /\ \A k \in 1..n : k \in 1..l
      /\ \A k \in 1..(l - n) : n + k \in 1..l
      /\ \A j \in 1..n, k \in 1..(l - n) : j < n + k
      /\ \A j, k \in 1..(l - n) : j < k => n + j < n + k
  BY <1>2
<1>5. Ordered(pending')
  BY <1>2, <1>3, <1>4 DEF Ordered
<1>6. Ordered(r)
  BY <1>2, <1>3, <1>4, SMTT(30) DEF Ordered
<1>7. Ahead(pending', r)
  BY <1>2, <1>3, <1>4 DEF Ordered, Ahead
<1>8. /\ \A k \in DOMAIN pending' : pending'[k].kind = "data" =>
            spawned <= pending'[k].number /\ pending'[k].number \in 1..sent
      /\ \A k \in DOMAIN r : r[k].kind = "data" =>
            spawned <= r[k].number /\ r[k].number \in 1..sent
  BY <1>2, <1>3, <1>4 DEF Numbered, SpawnedBefore
<1> QED
  BY <1>2, <1>3, <1>5, <1>6, <1>7, <1>8 DEF DataInOrder, Numbered, SpawnedBefore, r

\* A new packet has a new number.
LEMMA OrderAdded ==
    ASSUME Types, DataInOrder, NEW p \in Message, ArrivalEffect(p)
    PROVE  DataInOrder'
<1> DEFINE q == fromRouter.packets
           r == fromRouter'.packets
           l == Len(q)
<1>1. /\ l \in Nat /\ DOMAIN q = 1..l /\ l + 1 \in DOMAIN r /\ r[l + 1] = p
      /\ \A k \in DOMAIN q : k \in DOMAIN r /\ r[k] = q[k]
      /\ \A k \in DOMAIN r : k \in DOMAIN q \/ k = l + 1
  BY AddedParts
<1>2. /\ sent \in Nat /\ sent' \in Nat /\ sent <= sent'
      /\ p.kind = "data" => p.number = sent + 1 /\ sent' = sent + 1
      /\ UNCHANGED <<pending, spawned, config, arg_address, sinkTable>>
  BY QueueFacts DEF ArrivalEffect, node
<1>3. DataInOrder /\ Ordered(pending) /\ Ordered(q) /\ Ahead(pending, q)
      /\ Numbered(pending) /\ Numbered(q) /\ spawned <= sent + 1 /\ SpawnedBefore(q)
  BY DEF DataInOrder
<1>4. spawned \in Nat /\ \A k \in DOMAIN pending :
        pending[k].kind = "data" => pending[k].number \in Nat
  BY QueueFacts
<1> HIDE DEF q, r, l
<1>5. Ordered(r)
  BY <1>1, <1>2, <1>3 DEF Ordered, Numbered
<1>6. Ahead(pending, r)
  BY <1>1, <1>2, <1>3 DEF Ahead, Numbered
<1>7. \A k \in DOMAIN r : r[k].kind = "data" =>
        spawned <= r[k].number /\ r[k].number \in 1..sent'
  BY <1>1, <1>2, <1>3, <1>4 DEF Numbered, SpawnedBefore
<1>8. \A k \in DOMAIN pending : pending[k].kind = "data" =>
        pending[k].number \in 1..sent'
  BY <1>2, <1>3 DEF Numbered
<1>9. spawned <= sent' + 1
  <2>1. \A x, y, z \in Nat : (x <= y + 1 /\ y <= z) => x <= z + 1
    OBVIOUS
  <2> QED
    BY <1>2, <1>3, <1>4, <2>1, Zenon
<1>10. \A k \in DOMAIN pending' : pending'[k].kind = "data" =>
          \/ spawned' <= pending'[k].number
          \/ /\ k = 1 /\ spawned' = pending'[k].number + 1
             /\ HasSink(pending[k])'
  BY <1>2 DEF DataInOrder, HasSink, Stream
<1>11. Ordered(pending') /\ Numbered(pending)' /\ spawned' <= sent' + 1
  BY <1>2, <1>3, <1>8, <1>9 DEF Numbered
<1>12. /\ Ordered(r) /\ Ahead(pending', r) /\ Numbered(fromRouter.packets)'
       /\ SpawnedBefore(fromRouter.packets)'
  BY <1>2, <1>5, <1>6, <1>7 DEF Numbered, SpawnedBefore, r
<1> QED
  BY <1>10, <1>11, <1>12 DEF DataInOrder, r

\* The packet at the head starts a child, and then has its sink.
LEMMA OrderSpawned ==
    ASSUME Types, DataInOrder, NEW a, SpawnEffect(a)
    PROVE  DataInOrder'
<1> DEFINE q == fromRouter.packets
           r == fromRouter'.packets
           n == pending[1].number
<1>1. /\ 1 \in DOMAIN pending /\ pending[1].kind = "data" /\ n \in 1..sent
      /\ sent \in Nat /\ spawned \in Nat
      /\ \A k \in DOMAIN pending : k \in Nat /\ k >= 1
  BY QueueFacts, PendingFacts, SMTT(30) DEF SpawnEffect, DataInOrder, Numbered
<1>2. spawned <= n
  BY <1>1 DEF SpawnEffect, DataInOrder, HasSink
<1>3. /\ DOMAIN pending' = DOMAIN pending
      /\ \A k \in DOMAIN pending :
            /\ pending'[k].kind = pending[k].kind
            /\ pending'[k].kind = "data" => pending'[k].number = pending[k].number
  BY <1>1 DEF SpawnEffect
<1>4. HasSink(pending[1])'
  <2>1. pending'[1].source = a /\ a \in DOMAIN sinkTable'
    BY DEF SpawnEffect
  <2>2. config.demux = "merge" => arg_address = a
    BY DEF SpawnEffect, Stream
  <2>3. config' = config /\ arg_address' = arg_address
    BY DEF SpawnEffect
  <2> QED
    BY <2>1, <2>2, <2>3 DEF HasSink, Stream
<1>5. r = q \/ r = <<>>
  BY DEF SpawnEffect
<1>6. spawned' = spawned + 1 /\ sent' = sent
  BY DEF SpawnEffect
<1>7. /\ Ordered(pending) /\ Ordered(q) /\ Ahead(pending, q)
      /\ Numbered(pending) /\ Numbered(q) /\ SpawnedBefore(q)
  BY DEF DataInOrder
<1>8. \A k \in DOMAIN q : q[k].kind = "data" => q[k].number \in Nat
  BY QueueFacts
<1> HIDE DEF q, r
<1>9. /\ Ordered(r) /\ Ahead(pending, r) /\ Numbered(r)
      /\ \A k \in DOMAIN r : r[k].kind = "data" => n < r[k].number /\ r[k].number \in Nat
  BY <1>1, <1>5, <1>7, <1>8 DEF Ordered, Ahead, Numbered
<1>10. Ordered(pending') /\ Ahead(pending', r)
  BY <1>3, <1>7, <1>9 DEF Ordered, Ahead
<1>11. \A k \in DOMAIN pending' : pending'[k].kind = "data" =>
          /\ pending'[k].number \in 1..sent
          /\ k # 1 => n < pending'[k].number
          /\ k = 1 => pending'[k].number = n
  BY <1>1, <1>3, <1>7 DEF Ordered, Numbered
<1> HIDE DEF n
<1>12. /\ \A k \in DOMAIN pending' : pending'[k].kind = "data" =>
             /\ k # 1 => spawned + 1 <= pending'[k].number
             /\ k = 1 => \/ spawned + 1 <= pending'[k].number
                         \/ spawned + 1 = pending'[k].number + 1
       /\ \A k \in DOMAIN r : r[k].kind = "data" => spawned + 1 <= r[k].number
       /\ spawned + 1 <= sent + 1
  BY <1>1, <1>2, <1>9, <1>11
<1> QED
  BY <1>4, <1>6, <1>9, <1>10, <1>11, <1>12
     DEF DataInOrder, Numbered, SpawnedBefore, r

\* So every step keeps the data in order.
LEMMA DataInOrderStep ==
    ASSUME Types, DataInOrder, BuffersAreLines, NodeNext
    PROVE  DataInOrder'
<1>1. CASE ReadRemote
  BY <1>1, RemoteFacts, OrderRead
<1>2. CASE RouterGone \/ SpawnPastTable \/ PassesOver
  BY <1>2, OrderKept DEF RouterGone, SpawnPastTable, PassesOver, outside, KeepsQueue
<1>3. CASE HandleCommand \/ Echo
  BY <1>3, OrderPopped DEF HandleCommand, Echo, NextPending, outside
<1>4. CASE GiveToSink
  BY <1>4, GiveFacts, OrderPopped DEF outside
<1>5. CASE SpawnSink
  BY <1>5, SpawnFacts, OrderSpawned
<1>6. CASE ReadLocal
  <2>1. PICK fd \in Local : \E more, lines : ReadEffect(fd, more, lines)
    BY <1>6, ReadLocalFacts
  <2> QED
    BY <2>1, OrderKept DEF ReadEffect, KeepsQueue
<1>7. CASE EmergencySend
  <2>1. PICK fd \in Local : \E n \in Reads(fd) : EmergencyEffect(fd, n)
    BY <1>7, EmergencyFacts
  <2> QED
    BY <2>1, OrderKept DEF EmergencyEffect, KeepsQueue
<1>8. CASE LocalEnds
  <2>1. PICK i \in Slot, fd \in Local : EndEffect(i, fd)
    BY <1>8, EndFacts
  <2> QED
    BY <2>1, OrderKept DEF EndEffect, outside, KeepsQueue
<1>9. CASE Answers \/ SendsData
  BY <1>9, ArrivalFacts, OrderAdded
<1>10. CASE RouterCloses \/ RouterStarts
  <2>1. fromRouter'.packets = fromRouter.packets
    BY <1>10 DEF RouterCloses, RouterStarts, Types, OutsideTypes
  <2> QED
    BY <1>10, <2>1, OrderKept DEF RouterCloses, RouterStarts, node, KeepsQueue
<1>11. CASE Writes \/ Ends
  BY <1>11, PipeFacts, OrderKept DEF node, KeepsQueue
<1> QED
  BY <1>1, <1>2, <1>3, <1>4, <1>5, <1>6, <1>7, <1>8, <1>9, <1>10, <1>11, StepCases

-----------------------------------------------------------------------------
(* Every sink has its slot.                                                *)

SlotsKept ==
    /\ UNCHANGED <<stream_fd, sinkTable, spawned>>
    /\ fate' = "running" => fate = "running"

\* Nothing happens to the slots,
LEMMA SlotsStay ==
    ASSUME SlotsAndSinks, SlotsKept
    PROVE  SlotsAndSinks'
BY DEF SlotsAndSinks, SlotsKept

\* a slot is given up, with the sinks of its child,
LEMMA SlotsFreed ==
    ASSUME Types, SlotsAndSinks, NEW i \in Slot,
           stream_fd' = [stream_fd EXCEPT ![i] = IgnoreFd], UNCHANGED spawned,
           \/ fate' # "running" /\ UNCHANGED sinkTable
           \/ fate = "running" /\ sinkTable' = SinksWithout(stream_fd[i])
    PROVE  SlotsAndSinks'
<1>1. stream_fd \in [Slot -> {IgnoreFd, RouterFd} \cup Local]
  BY DEF Types, NodeTypes
<1>2. stream_fd'[i] = IgnoreFd /\ \A j \in Slot : j # i => stream_fd'[j] = stream_fd[j]
  BY <1>1
<1>3. /\ \A a \in DOMAIN sinkTable' :
            a \in DOMAIN sinkTable /\ sinkTable'[a] = sinkTable[a]
      /\ fate' = "running" =>
            /\ fate = "running"
            /\ \A a \in DOMAIN sinkTable' : Out(sinkTable[a]) # stream_fd[i]
  BY DEF SinksWithout
<1>4. \A c \in Child : Out(c) # IgnoreFd
  BY Descriptors DEF IgnoreFd, RouterFd, Out
<1>5. IgnoreFd <= RouterFd /\ ~ (IgnoreFd > RouterFd)
  BY DEF IgnoreFd, RouterFd
<1>6. \A j \in Slot, c \in Child : stream_fd'[j] = Out(c) => c <= spawned
  BY <1>2, <1>4 DEF SlotsAndSinks
<1>7. \A j, k \in Slot :
        (stream_fd'[j] = stream_fd'[k] /\ stream_fd'[j] > RouterFd) => j = k
  BY <1>2, <1>5 DEF SlotsAndSinks
<1>8. fate' = "running" => \A a \in DOMAIN sinkTable' :
        \E j \in Slot : stream_fd'[j] = Out(sinkTable'[a])
  BY <1>2, <1>3 DEF SlotsAndSinks
<1>9. \A a, b \in DOMAIN sinkTable' : sinkTable'[a] = sinkTable'[b] => a = b
  BY <1>3 DEF SlotsAndSinks
<1> QED
  BY <1>6, <1>7, <1>8, <1>9 DEF SlotsAndSinks

\* and a free one is taken for a new child.
LEMMA SlotsTaken ==
    ASSUME Types, DataInOrder, SlotsAndSinks, NEW a, SpawnEffect(a)
    PROVE  SlotsAndSinks'
<1> DEFINE c == spawned + 1
<1>1. PICK i \in Slot : /\ stream_fd[i] = IgnoreFd
                        /\ stream_fd' = [stream_fd EXCEPT ![i] = Out(c)]
  BY DEF SpawnEffect
<1>2. /\ stream_fd \in [Slot -> {IgnoreFd, RouterFd} \cup Local]
      /\ sinkTable \in [DOMAIN sinkTable -> 1..spawned] /\ spawned \in Nat
  BY DEF Types, NodeTypes, OutsideTypes
<1>3. stream_fd'[i] = Out(c) /\ \A j \in Slot : j # i => stream_fd'[j] = stream_fd[j]
  BY <1>1, <1>2
<1>4. c \in Child /\ \A x \in Child : Out(x) = x + 1 /\ Out(x) # IgnoreFd
  BY NextChild, Descriptors DEF IgnoreFd, RouterFd
<1>5. /\ \A j \in Slot : stream_fd[j] # Out(c)
      /\ \A j \in Slot, x \in Child : stream_fd[j] = Out(x) => x <= spawned
  BY <1>2, <1>4 DEF SlotsAndSinks
<1>6. /\ spawned' = c /\ DOMAIN sinkTable' = DOMAIN sinkTable \cup {a}
      /\ sinkTable'[a] = c
      /\ \A x \in DOMAIN sinkTable : x # a => sinkTable'[x] = sinkTable[x]
      /\ \A x \in DOMAIN sinkTable : sinkTable[x] # c
      /\ fate = "running"
  BY <1>2 DEF SpawnEffect
<1>7. \A x \in DOMAIN sinkTable : Out(sinkTable[x]) # IgnoreFd
  BY <1>2, <1>4, NodeConstants DEF Out, IgnoreFd, RouterFd
<1>8. \A x, y \in Child : Out(x) = Out(y) => x = y
  BY Descriptors DEF Out, RouterFd
<1>9. \A j \in Slot, x \in Child : stream_fd'[j] = Out(x) => x <= spawned + 1
  <2> SUFFICES ASSUME NEW j \in Slot, NEW x \in Child, stream_fd'[j] = Out(x)
               PROVE  x <= c
    OBVIOUS
  <2>1. CASE j = i
    BY <1>2, <1>3, <1>4, <1>8, <2>1
  <2>2. CASE j # i
    <3>1. stream_fd[j] = Out(x)
      BY <1>3, <2>2
    <3>2. x <= spawned
      BY <1>5, <3>1
    <3>3. x \in Nat
      BY Descriptors, NodeConstants
    <3> QED
      BY <1>2, <3>2, <3>3
  <2> QED
    BY <2>1, <2>2
<1>10. fate' = "running" => \A x \in DOMAIN sinkTable' :
          \E j \in Slot : stream_fd'[j] = Out(sinkTable'[x])
  <2> SUFFICES ASSUME NEW x \in DOMAIN sinkTable'
               PROVE  \E j \in Slot : stream_fd'[j] = Out(sinkTable'[x])
    OBVIOUS
  <2>1. CASE x = a
    BY <1>3, <1>6, <2>1
  <2>2. CASE x # a
    <3>1. PICK j \in Slot : stream_fd[j] = Out(sinkTable[x])
      BY <1>6, <2>2 DEF SlotsAndSinks
    <3>2. j # i
      BY <1>1, <1>6, <1>7, <2>2, <3>1
    <3> QED
      BY <1>3, <1>6, <2>2, <3>1, <3>2
  <2> QED
    BY <2>1, <2>2
<1> HIDE DEF c
<1>11. \A j, k \in Slot :
          (stream_fd'[j] = stream_fd'[k] /\ stream_fd'[j] > RouterFd) => j = k
  BY <1>3, <1>5 DEF SlotsAndSinks
<1>12. \A x, y \in DOMAIN sinkTable' : sinkTable'[x] = sinkTable'[y] => x = y
  BY <1>6 DEF SlotsAndSinks
<1> QED
  BY <1>6, <1>9, <1>10, <1>11, <1>12 DEF SlotsAndSinks, c

\* So every step keeps the sinks watched.
LEMMA SlotsAndSinksStep ==
    ASSUME Types, DataInOrder, SlotsAndSinks, BuffersAreLines, NodeNext
    PROVE  SlotsAndSinks'
<1>1. CASE ReadRemote
  BY <1>1, RemoteFacts, SlotsStay DEF RemoteEffect, SlotsKept
<1>2. CASE RouterGone
  <2>1. PICK i \in Slot : stream_fd' = [stream_fd EXCEPT ![i] = IgnoreFd]
    BY <1>2 DEF RouterGone, Slot
  <2>2. fate' # "running" /\ UNCHANGED sinkTable /\ UNCHANGED spawned
    BY <1>2 DEF RouterGone, outside
  <2> QED
    BY <2>1, <2>2, SlotsFreed
<1>3. CASE HandleCommand \/ Echo \/ SpawnPastTable \/ PassesOver
  BY <1>3, SlotsStay
     DEF HandleCommand, Echo, SpawnPastTable, PassesOver, SlotsKept, outside
<1>4. CASE GiveToSink
  BY <1>4, GiveFacts, SlotsStay DEF SlotsKept, outside
<1>5. CASE SpawnSink
  BY <1>5, SpawnFacts, SlotsTaken
<1>6. CASE ReadLocal
  <2>1. PICK fd \in Local : \E more, lines : ReadEffect(fd, more, lines)
    BY <1>6, ReadLocalFacts
  <2> QED
    BY <2>1, SlotsStay DEF ReadEffect, SlotsKept
<1>7. CASE EmergencySend
  <2>1. PICK fd \in Local : \E n \in Reads(fd) : EmergencyEffect(fd, n)
    BY <1>7, EmergencyFacts
  <2> QED
    BY <2>1, SlotsStay DEF EmergencyEffect, SlotsKept
<1>8. CASE LocalEnds
  <2>1. PICK i \in Slot, fd \in Local : EndEffect(i, fd)
    BY <1>8, EndFacts
  <2> QED
    BY <2>1, SlotsFreed DEF EndEffect, outside
<1>9. CASE Answers \/ SendsData
  BY <1>9, ArrivalFacts, SlotsStay DEF ArrivalEffect, node, SlotsKept
<1>10. CASE RouterCloses \/ RouterStarts
  BY <1>10, SlotsStay DEF RouterCloses, RouterStarts, node, SlotsKept
<1>11. CASE Writes \/ Ends
  BY <1>11, PipeFacts, SlotsStay DEF node, SlotsKept
<1> QED
  BY <1>1, <1>2, <1>3, <1>4, <1>5, <1>6, <1>7, <1>8, <1>9, <1>10, <1>11, StepCases

-----------------------------------------------------------------------------
(* What is sent are lines.                                                 *)

\* The payloads that were sent from a descriptor.
LEMMA PayloadFacts ==
    ASSUME Types, NEW fd \in Local
    PROVE  /\ PayloadsFrom(fd) \in Seq(Seq(Nat))
           /\ Len(PayloadsFrom(fd)) = Len(forwarded[fd])
           /\ forwarded[fd] \in Seq(Line) /\ Len(forwarded[fd]) \in Nat
           /\ \A k \in 1..Len(forwarded[fd]) : PayloadsFrom(fd)[k] = forwarded[fd][k].payload
           /\ forwarded[fd] = <<>> <=> PayloadsFrom(fd) = <<>>
<1> DEFINE e == forwarded[fd]
           p == PayloadsFrom(fd)
           N == Seq(Nat)
           L == Line
<1>1. e \in Seq(L)
  BY DEF Types, OutsideTypes
<1>2. \A x \in L : x.payload \in N
  BY DEF Line
<1>3. p = [k \in DOMAIN e |-> e[k].payload]
  BY DEF PayloadsFrom
<1> HIDE DEF L, N, e, p
<1>4. Len(e) \in Nat /\ DOMAIN e = 1..Len(e) /\ \A k \in 1..Len(e) : e[k] \in L
  BY <1>1
<1>5. p \in [1..Len(e) -> N] /\ \A k \in 1..Len(e) : p[k] = e[k].payload
  BY <1>2, <1>3, <1>4
<1>6. p \in Seq(N) /\ Len(p) = Len(e)
  BY <1>4, <1>5
<1>7. e = <<>> <=> p = <<>>
  BY <1>1, <1>6
<1> QED
  BY <1>1, <1>4, <1>5, <1>6, <1>7 DEF L, N, e, p

\* All lines but the last.
Complete(lines) == [k \in 1..(Len(lines) - 1) |-> lines[k]]

\* The lines that go out with a read, after those that went out before, and the one
\* that stays.
LEMMA ReadKeepsLines ==
    ASSUME NEW out \in Seq(Seq(Nat)), NEW buffer \in Seq(Nat), NEW bytes \in Seq(Nat),
           NEW more \in Seq(Nat), NEW lines, AreLines(lines, Cat(buffer, more)),
           Len(Cat(buffer, more)) <= Capacity - Mtu,
           LineBuffer(out, buffer, bytes, TRUE)
    PROVE  /\ Complete(lines) \in Seq(Seq(Nat))
           /\ LineBuffer(Cat(out, Complete(lines)), lines[Len(lines)], Cat(bytes, more), TRUE)
<1> DEFINE N == Seq(Nat)
           all == Cat(buffer, more)
           m == Len(lines)
           last == lines[m]
           o == Len(out)
           front == Complete(lines)
           both == Cat(out, front)
<1>1. /\ lines \in Seq(N) /\ m \in Nat /\ m > 0 /\ Len(lines) = m
      /\ FlattenSeq(lines) = all
      /\ \A k \in 1..m : LineShape(lines[k]) /\ Len(lines[k]) <= Len(all)
      /\ \A k \in 1..m : k # 1 => Starts(lines[k])
      /\ lines[1][1] = all[1]
  BY DEF AreLines
<1> HIDE DEF m
<1>2. /\ SentShape(out)
      /\ out # <<>> => config.delimiter < 128
      /\ Cat(FlattenSeq(out), buffer) = bytes
      /\ out # <<>> => Starts(buffer)
  BY DEF LineBuffer
<1>3. all \in N /\ Len(all) \in Nat
  BY CatType
<1>4. front \in Seq(N) /\ Len(front) = m - 1
      /\ \A k \in 1..(m - 1) : front[k] = lines[k]
  <2> HIDE DEF N
  <2>1. front = [k \in 1..(m - 1) |-> lines[k]]
    BY <1>1 DEF Complete
  <2>2. m - 1 \in Nat /\ \A k \in 1..(m - 1) : k \in 1..m
    BY <1>1
  <2>3. front \in [1..(m - 1) -> N] /\ \A k \in 1..(m - 1) : front[k] = lines[k]
    BY <1>1, <2>1, <2>2
  <2>4. front \in Seq(N) /\ Len(front) = m - 1
    BY <2>2, <2>3, FunctionIsSeq
  <2> QED
    BY <2>3, <2>4
<1>5. last \in N
  BY <1>1
<1>6. lines = Append(front, last)
  <2> HIDE DEF N
  <2>1. Len(Append(front, last)) = m
    BY <1>1, <1>4
  <2>2. \A k \in 1..m : Append(front, last)[k] = lines[k]
    BY <1>1, <1>4
  <2>3. Append(front, last) \in Seq(N)
    BY <1>4, <1>5
  <2> QED
    BY <1>1, <2>1, <2>2, <2>3, SeqEqual
<1>7. /\ both \in Seq(N) /\ o \in Nat /\ Len(both) = o + m - 1
      /\ \A k \in 1..o : both[k] = out[k]
      /\ \A k \in 1..(m - 1) : both[o + k] = lines[k]
  <2> HIDE DEF N
  <2>1. /\ both \in Seq(N) /\ o \in Nat /\ Len(both) = o + Len(front)
        /\ \A k \in 1..o : both[k] = out[k]
        /\ \A k \in 1..Len(front) : both[o + k] = front[k]
    <3>1. out \in Seq(N) /\ front \in Seq(N)
      BY <1>4 DEF N
    <3>2. both \in Seq(N) /\ o \in Nat /\ Len(both) = o + Len(front)
      BY <3>1, CatFacts
    <3>3. \A k \in 1..o : both[k] = out[k]
      BY <3>1, CatFacts
    <3>4. \A k \in 1..Len(front) : both[o + k] = front[k]
      BY <3>1, CatSecond
    <3> QED
      BY <3>2, <3>3, <3>4, Zenon
  <2> HIDE DEF both, o
  <2> QED
    BY <1>1, <1>4, <2>1
<1>8. Cat(FlattenSeq(both), last) = Cat(bytes, more)
  <2>1. FlattenSeq(both) = Cat(FlattenSeq(out), FlattenSeq(front))
    BY <1>4, FlattenConcat DEF Cat
  <2>2. Cat(FlattenSeq(front), last) = all
    BY <1>1, <1>4, <1>5, <1>6, FlattenAppend DEF Cat
  <2>3. FlattenSeq(out) \in N /\ FlattenSeq(front) \in N
    BY <1>4, FlattenType
  <2>4. Cat(FlattenSeq(both), last) = Cat(FlattenSeq(out), all)
    BY <1>5, <2>1, <2>2, <2>3, CatAssociative
  <2>5. Cat(FlattenSeq(out), all) = Cat(Cat(FlattenSeq(out), buffer), more)
    BY <2>3, CatAssociative
  <2> QED
    BY <1>2, <2>4, <2>5
<1>9. out # <<>> => Starts(lines[1])
  <2> SUFFICES ASSUME out # <<>>
               PROVE  Starts(lines[1])
    OBVIOUS
  <2>1. buffer # <<>> /\ Delimits(buffer[1])
    BY <1>2 DEF Starts
  <2>2. all[1] = buffer[1]
    <3>1. 1 \in 1..Len(buffer)
      BY <2>1
    <3> QED
      BY <3>1, CatFacts
  <2>3. lines[1] # <<>>
    BY <1>1 DEF LineShape
  <2> QED
    BY <1>1, <2>1, <2>2, <2>3 DEF Starts
<1>10. both # <<>> => Starts(last) /\ config.delimiter < 128
  <2>1. CASE m = 1
    <3>1. both # <<>> => out # <<>>
      BY <1>7, <2>1
    <3> QED
      BY <1>2, <1>9, <2>1, <3>1
  <2>2. CASE m # 1
    <3>1. m \in 1..m
      BY <1>1
    <3>2. Starts(last)
      BY <1>1, <2>2, <3>1
    <3> QED
      BY <3>2 DEF Starts, Delimits
  <2> QED
    BY <2>1, <2>2
<1>11. \A i \in 2..Len(last) : ~ Delimits(last[i])
  <2>1. m \in 1..m
    BY <1>1
  <2> QED
    BY <1>1, <2>1 DEF LineShape
<1>12. Len(last) <= Capacity - Mtu
  <2>1. Len(last) <= Len(all) /\ Len(last) \in Nat
    BY <1>1, <1>5
  <2> QED
    BY <1>3, <2>1, NodeConstants
<1>13. SentShape(both)
  <2> SUFFICES ASSUME NEW k \in DOMAIN both
               PROVE  LineShape(both[k]) /\ (k > 1 => Starts(both[k]))
    BY DEF SentShape
  <2>1. k \in 1..(o + m - 1)
    BY <1>7
  <2>2. CASE k \in 1..o
    <3>1. k \in DOMAIN out
      BY <2>2
    <3> QED
      BY <1>2, <1>7, <2>2, <3>1 DEF SentShape
  <2>3. CASE k \notin 1..o
    <3> DEFINE j == k - o
    <3>1. j \in 1..(m - 1) /\ j \in 1..m /\ k = o + j
      <4>1. o \in Nat /\ m \in Nat
        BY <1>1, <1>7
      <4> HIDE DEF o
      <4> QED
        BY <2>1, <2>3, <4>1
    <3>2. both[k] = lines[j] /\ LineShape(lines[j])
      BY <1>1, <1>7, <3>1
    <3>3. j = 1 /\ k > 1 => out # <<>>
      BY <3>1
    <3> HIDE DEF j
    <3> QED
      BY <1>1, <1>9, <3>1, <3>2, <3>3
  <2> QED
    BY <2>2, <2>3
<1> HIDE DEF both, last, N, m
<1>14. LineBuffer(both, last, Cat(bytes, more), TRUE)
  BY <1>8, <1>10, <1>11, <1>12, <1>13 DEF LineBuffer
<1> QED
  BY <1>4, <1>14 DEF both, last, N, m

\* The same is said of the next state as of the next values.
LEMMA SameLines ==
    ASSUME config' = config, NEW fd \in Local,
           LineBuffer(PayloadsFrom(fd)', input_buffer'[fd], received'[fd], Live(fd)')
    PROVE  LineBuffer(PayloadsFrom(fd), input_buffer[fd], received[fd], Live(fd))'
BY DEF LineBuffer, SentShape, LineShape, Starts, Delimits

\* A descriptor at which nothing is read, and that is not watched anew, is as before.
LEMMA OtherLines ==
    ASSUME BuffersAreLines, config' = config, NEW fd \in Local,
           UNCHANGED <<forwarded[fd], received[fd], input_buffer[fd]>>,
           Live(fd)' => (Live(fd) \/ fd > Out(spawned))
    PROVE  LineBuffer(PayloadsFrom(fd), input_buffer[fd], received[fd], Live(fd))'
<1>1. /\ LineBuffer(PayloadsFrom(fd), input_buffer[fd], received[fd], Live(fd))
      /\ fd > Out(spawned) =>
            forwarded[fd] = <<>> /\ received[fd] = <<>> /\ input_buffer[fd] = <<>>
  BY DEF BuffersAreLines
<1>2. PayloadsFrom(fd)' = PayloadsFrom(fd)
  BY DEF PayloadsFrom
<1>3. fd > Out(spawned) =>
        /\ PayloadsFrom(fd) = <<>>
        /\ Cat(FlattenSeq(PayloadsFrom(fd)), input_buffer[fd]) = received[fd]
  <2> SUFFICES ASSUME fd > Out(spawned)
               PROVE  /\ PayloadsFrom(fd) = <<>>
                      /\ Cat(FlattenSeq(PayloadsFrom(fd)), input_buffer[fd])
                            = received[fd]
    OBVIOUS
  <2>1. forwarded[fd] = <<>> /\ received[fd] = <<>> /\ input_buffer[fd] = <<>>
    BY <1>1
  <2>2. PayloadsFrom(fd) = <<>>
    BY <2>1 DEF PayloadsFrom
  <2>3. Cat(<<>>, <<>>) = <<>>
    <3>1. <<>> \in Seq(Nat)
      OBVIOUS
    <3> QED
      BY <3>1, CatNothing
  <2> QED
    BY <2>1, <2>2, <2>3, FlattenEmpty
<1>4. LineBuffer(PayloadsFrom(fd)', input_buffer'[fd], received'[fd], Live(fd)')
  BY <1>1, <1>2, <1>3 DEF LineBuffer
<1> QED
  BY <1>4, SameLines

BuffersKept ==
    /\ UNCHANGED <<config, forwarded, received, input_buffer>>
    /\ spawned <= spawned'
    /\ \A fd \in Local : Live(fd)' => (Live(fd) \/ fd > Out(spawned))

\* No buffer is changed,
LEMMA BuffersStay ==
    ASSUME Types, BuffersAreLines, BuffersKept, spawned' \in Nat
    PROVE  BuffersAreLines'
<1>1. ASSUME NEW fd \in Local
      PROVE  /\ LineBuffer(PayloadsFrom(fd), input_buffer[fd], received[fd], Live(fd))'
             /\ fd > Out(spawned') =>
                  forwarded'[fd] = <<>> /\ received'[fd] = <<>> /\ input_buffer'[fd] = <<>>
  <2>1. LineBuffer(PayloadsFrom(fd), input_buffer[fd], received[fd], Live(fd))'
    BY OtherLines DEF BuffersKept
  <2>2. fd > Out(spawned') => fd > Out(spawned)
    <3>1. fd \in Nat /\ spawned \in Nat /\ spawned <= spawned'
      BY Descriptors DEF BuffersKept, Types, OutsideTypes
    <3>2. \A x, y, z \in Nat : (x <= y /\ z > 1 + y) => z > 1 + x
      OBVIOUS
    <3> QED
      BY <3>1, <3>2 DEF Out, RouterFd
  <2> QED
    BY <2>1, <2>2 DEF BuffersAreLines, BuffersKept
<1> QED
  BY <1>1 DEF BuffersAreLines

\* a child that has ended leaves an empty one, which is not watched,
LEMMA BufferEmptied ==
    ASSUME Types, SlotsAndSinks, BuffersAreLines, NEW i \in Slot, NEW fd \in Local,
           EndEffect(i, fd)
    PROVE  BuffersAreLines'
<1>1. /\ stream_fd \in [Slot -> {IgnoreFd, RouterFd} \cup Local]
      /\ input_buffer \in [Local -> Seq(Nat)]
  BY DEF Types, NodeTypes
<1>2. /\ stream_fd[i] = fd /\ fate = "running"
      /\ stream_fd' = [stream_fd EXCEPT ![i] = IgnoreFd]
      /\ input_buffer' = [input_buffer EXCEPT ![fd] = <<>>]
      /\ fd = Stdin => fate' # "running"
      /\ UNCHANGED <<config, forwarded, received, spawned>>
  BY DEF EndEffect, outside, history
<1>3. input_buffer'[fd] = <<>>
      /\ \A f \in Local : f # fd => input_buffer'[f] = input_buffer[f]
  BY <1>1, <1>2
<1>4. ~ Live(fd)'
  <2> SUFFICES ASSUME fd # Stdin, NEW j \in Slot, stream_fd'[j] = fd
               PROVE  FALSE
    BY <1>2 DEF Live, Watched, Slot
  <2>1. fd > RouterFd /\ IgnoreFd # fd
    BY Descriptors
  <2>2. j # i /\ stream_fd[j] = fd
    BY <1>1, <1>2, <2>1
  <2> QED
    BY <1>2, <2>1, <2>2 DEF SlotsAndSinks
<1>5. LineBuffer(PayloadsFrom(fd), input_buffer[fd], received[fd], Live(fd))'
  <2>1. LineBuffer(PayloadsFrom(fd), input_buffer[fd], received[fd], Live(fd))
    BY DEF BuffersAreLines
  <2>2. PayloadsFrom(fd)' = PayloadsFrom(fd)
    BY <1>2 DEF PayloadsFrom
  <2>3. Len(<<>>) = 0 /\ 0 <= Capacity - Mtu /\ 2..0 = {}
    BY NodeConstants
  <2>4. LineBuffer(PayloadsFrom(fd)', input_buffer'[fd], received'[fd], Live(fd)')
    BY <1>3, <1>4, <2>1, <2>2, <2>3 DEF LineBuffer
  <2> QED
    BY <1>2, <2>4, SameLines
<1>6. ASSUME NEW f \in Local, f # fd
      PROVE  LineBuffer(PayloadsFrom(f), input_buffer[f], received[f], Live(f))'
  <2>1. Live(f)' => Live(f)
    <3>1. f # IgnoreFd
      BY Descriptors
    <3> QED
      BY <1>1, <1>2, <3>1 DEF Live, Watched, Slot
  <2> QED
    BY <1>2, <1>3, <1>6, <2>1, OtherLines
<1>7. ASSUME NEW f \in Local, f > Out(spawned')
      PROVE  forwarded'[f] = <<>> /\ received'[f] = <<>> /\ input_buffer'[f] = <<>>
  BY <1>2, <1>3, <1>7 DEF BuffersAreLines
<1> QED
  BY <1>5, <1>6, <1>7 DEF BuffersAreLines

\* What is watched is stdin, or a child that has been started.
LEMMA WatchedFacts ==
    ASSUME Types, SlotsAndSinks, NEW fd \in Local, Watched(fd)
    PROVE  ~ (fd > Out(spawned))
<1>1. spawned \in Nat
  BY DEF Types, OutsideTypes
<1>2. CASE fd = Stdin
  BY <1>1, <1>2 DEF Stdin, Out, RouterFd
<1>3. CASE fd # Stdin
  <2>1. fd - 1 \in Child /\ fd = Out(fd - 1) /\ fd \in Nat
    BY <1>3, Descriptors
  <2>2. fd - 1 <= spawned
    BY <2>1 DEF Watched, SlotsAndSinks, Slot
  <2> QED
    BY <1>1, <2>1, <2>2 DEF Out, RouterFd
<1> QED
  BY <1>2, <1>3

\* the emergency send ends the node,
LEMMA BufferOverflows ==
    ASSUME Types, SlotsAndSinks, BuffersAreLines, NEW fd \in Local, NEW n,
           EmergencyEffect(fd, n)
    PROVE  BuffersAreLines'
<1>1. /\ \A f \in Local : f # fd => received'[f] = received[f]
      /\ ~ (fd > Out(spawned))
      /\ UNCHANGED <<config, forwarded, input_buffer, spawned>>
      /\ \A f \in Local : ~ Live(f)'
  BY TakeFacts, WatchedFacts DEF EmergencyEffect, Live, Types
<1>2. ASSUME NEW f \in Local
      PROVE  LineBuffer(PayloadsFrom(f), input_buffer[f], received[f], Live(f))'
  <2>1. LineBuffer(PayloadsFrom(f), input_buffer[f], received[f], Live(f))
    BY DEF BuffersAreLines
  <2>2. PayloadsFrom(f)' = PayloadsFrom(f)
    BY <1>1 DEF PayloadsFrom
  <2>3. LineBuffer(PayloadsFrom(f)', input_buffer'[f], received'[f], Live(f)')
    BY <1>1, <2>1, <2>2 DEF LineBuffer
  <2> QED
    BY <1>1, <2>3, SameLines
<1>3. ASSUME NEW f \in Local, f > Out(spawned')
      PROVE  forwarded'[f] = <<>> /\ received'[f] = <<>> /\ input_buffer'[f] = <<>>
  BY <1>1, <1>3 DEF BuffersAreLines
<1> QED
  BY <1>2, <1>3 DEF BuffersAreLines

\* and a read adds lines.
LEMMA BufferRead ==
    ASSUME Types, SlotsAndSinks, BuffersAreLines, NEW fd \in Local, NEW more, NEW lines,
           ReadEffect(fd, more, lines)
    PROVE  BuffersAreLines'
<1> DEFINE out == PayloadsFrom(fd)
           front == Complete(lines)
<1>1. /\ input_buffer \in [Local -> Seq(Nat)] /\ forwarded \in [Local -> Seq(Line)]
      /\ received \in [Local -> Seq(Nat)]
  BY DEF Types, NodeTypes, OutsideTypes
<1>2. /\ fate = "running" /\ Watched(fd) /\ Live(fd)
      /\ more \in Seq(Nat) /\ AreLines(lines, Cat(input_buffer[fd], more))
      /\ Len(Cat(input_buffer[fd], more)) <= Capacity - Mtu
      /\ received'[fd] = Cat(received[fd], more)
      /\ \A f \in Local : f # fd => received'[f] = received[f]
      /\ forwarded' = [forwarded EXCEPT ![fd] = Cat(forwarded[fd], Packets(lines))]
      /\ input_buffer' = [input_buffer EXCEPT ![fd] = lines[Len(lines)]]
      /\ UNCHANGED <<config, stream_fd, spawned>>
  BY DEF ReadEffect, Live
<1>3. /\ forwarded'[fd] = Cat(forwarded[fd], Packets(lines))
      /\ input_buffer'[fd] = lines[Len(lines)]
      /\ \A f \in Local : f # fd => UNCHANGED <<forwarded[f], input_buffer[f]>>
  BY <1>1, <1>2
<1>4. LineBuffer(out, input_buffer[fd], received[fd], TRUE)
  BY <1>2 DEF BuffersAreLines, LineBuffer
<1>5. out \in Seq(Seq(Nat))
  BY PayloadFacts
<1>6. /\ front \in Seq(Seq(Nat))
      /\ LineBuffer(Cat(out, front), lines[Len(lines)], Cat(received[fd], more), TRUE)
  BY <1>1, <1>2, <1>4, <1>5, ReadKeepsLines
<1>7. PayloadsFrom(fd)' = Cat(out, front)
  <2> DEFINE e == forwarded[fd]
             p == Packets(lines)
             m == Len(lines)
             L == Line
             N == Seq(Nat)
  <2>1. /\ e \in Seq(L) /\ Len(out) = Len(e) /\ out \in Seq(N)
        /\ \A k \in 1..Len(e) : out[k] = e[k].payload
    BY PayloadFacts
  <2>2. m \in Nat /\ m > 0 /\ \A k \in 1..m : lines[k] \in N
    BY <1>2 DEF AreLines
  <2>3. p = [k \in 1..(m - 1) |-> [source |-> arg_address, payload |-> lines[k]]]
    BY DEF Packets
  <2>4. \A k \in 1..(m - 1) : [source |-> arg_address, payload |-> lines[k]] \in L
    BY <2>2 DEF Line, Types, NodeTypes
  <2>5. PayloadsFrom(fd)' = [k \in DOMAIN Cat(e, p) |-> Cat(e, p)[k].payload]
    BY <1>3 DEF PayloadsFrom
  <2> HIDE DEF e, m, L, N, out
  <2>6. \A k \in 1..(m - 1) : p[k].payload = lines[k]
    BY <2>3
  <2>7. p \in [1..(m - 1) -> L] /\ m - 1 \in Nat
    BY <2>2, <2>3, <2>4
  <2> HIDE DEF p
  <2>8. p \in Seq(L) /\ Len(p) = m - 1
    BY <2>7
  <2>9. /\ Cat(e, p) \in Seq(L) /\ Len(Cat(e, p)) = Len(e) + (m - 1)
        /\ \A k \in 1..Len(e) : Cat(e, p)[k] = e[k]
        /\ \A k \in 1..(m - 1) : Cat(e, p)[Len(e) + k] = p[k]
    <3>1. e \in Seq(L) /\ p \in Seq(L)
      BY <2>1, <2>8
    <3>2. Cat(e, p) \in Seq(L) /\ Len(Cat(e, p)) = Len(e) + Len(p)
      BY <3>1, CatFacts
    <3>3. \A k \in 1..Len(e) : Cat(e, p)[k] = e[k]
      BY <3>1, CatFacts
    <3>4. \A k \in 1..Len(p) : Cat(e, p)[Len(e) + k] = p[k]
      BY <3>1, CatSecond
    <3> QED
      BY <2>8, <3>2, <3>3, <3>4, Zenon
  <2>10. /\ front \in Seq(N) /\ Len(front) = m - 1
         /\ \A k \in 1..(m - 1) : front[k] = lines[k]
    BY <1>6, <2>2 DEF N, m, Complete
  <2> HIDE DEF front
  <2>11. /\ Cat(out, front) \in Seq(N) /\ Len(Cat(out, front)) = Len(out) + (m - 1)
         /\ \A k \in 1..Len(out) : Cat(out, front)[k] = out[k]
         /\ \A k \in 1..(m - 1) : Cat(out, front)[Len(out) + k] = front[k]
    <3>1. out \in Seq(N) /\ front \in Seq(N)
      BY <2>1, <2>10
    <3>2. Cat(out, front) \in Seq(N) /\ Len(Cat(out, front)) = Len(out) + Len(front)
      BY <3>1, CatFacts
    <3>3. \A k \in 1..Len(out) : Cat(out, front)[k] = out[k]
      BY <3>1, CatFacts
    <3>4. \A k \in 1..Len(front) : Cat(out, front)[Len(out) + k] = front[k]
      BY <3>1, CatSecond
    <3> QED
      BY <2>10, <3>2, <3>3, <3>4, Zenon
  <2> DEFINE w == Cat(e, p)
             v == Cat(out, front)
             u == [k \in DOMAIN w |-> w[k].payload]
             l == Len(e)
  <2> HIDE DEF w, v, l
  <2>12. l \in Nat /\ DOMAIN w = 1..(l + (m - 1))
    BY <2>1, <2>9 DEF w, l
  <2>13. \A k \in 1..(l + (m - 1)) : k \in 1..l \/ (k - l \in 1..(m - 1) /\ k = l + (k - l))
    BY <2>7, <2>12
  <2>14. \A k \in 1..(l + (m - 1)) : w[k].payload = v[k]
    <3> SUFFICES ASSUME NEW k \in 1..(l + (m - 1))
                 PROVE  w[k].payload = v[k]
      OBVIOUS
    <3>1. CASE k \in 1..l
      BY <2>1, <2>9, <2>11, <3>1 DEF w, v, l
    <3>2. CASE k - l \in 1..(m - 1) /\ k = l + (k - l)
      <4> DEFINE j == k - l
      <4>1. j \in 1..(m - 1) /\ k = l + j
        BY <3>2
      <4> HIDE DEF j
      <4>2. w[l + j] = p[j] /\ v[l + j] = front[j]
        BY <2>1, <2>9, <2>11, <4>1 DEF w, v, l
      <4> QED
        BY <2>6, <2>10, <4>1, <4>2
    <3> QED
      BY <2>13, <3>1, <3>2
  <2>15. v \in Seq(N) /\ Len(v) = l + (m - 1)
    BY <2>1, <2>11 DEF v, l
  <2>16. v = [k \in 1..(l + (m - 1)) |-> v[k]]
    BY <2>15
  <2>17. u = [k \in 1..(l + (m - 1)) |-> w[k].payload]
    BY <2>12
  <2>18. u = v
    BY <2>14, <2>16, <2>17
  <2> QED
    BY <2>5, <2>18 DEF w, v
<1> HIDE DEF out, front
<1>8. LineBuffer(PayloadsFrom(fd), input_buffer[fd], received[fd], Live(fd))'
  <2>1. LineBuffer(PayloadsFrom(fd)', input_buffer'[fd], received'[fd], Live(fd)')
    BY <1>2, <1>3, <1>6, <1>7 DEF LineBuffer
  <2> QED
    BY <1>2, <2>1, SameLines
<1>9. ASSUME NEW f \in Local, f # fd
      PROVE  LineBuffer(PayloadsFrom(f), input_buffer[f], received[f], Live(f))'
  <2>1. Live(f)' => Live(f)
    BY <1>2 DEF Live, Watched
  <2> QED
    BY <1>2, <1>3, <1>9, <2>1, OtherLines
<1>10. ASSUME NEW f \in Local, f > Out(spawned')
       PROVE  forwarded'[f] = <<>> /\ received'[f] = <<>> /\ input_buffer'[f] = <<>>
  <2>1. f # fd
    BY <1>2, <1>10, WatchedFacts
  <2> QED
    BY <1>2, <1>3, <1>10, <2>1 DEF BuffersAreLines
<1> QED
  BY <1>8, <1>9, <1>10 DEF BuffersAreLines

LiveKept ==
    /\ UNCHANGED <<config, forwarded, received, input_buffer, spawned>>
    /\ fate' = "running" => fate = "running" /\ stream_fd' = stream_fd

\* Where neither buffers nor slots change, and where the loop has ended.
LEMMA LiveStays ==
    ASSUME Types, BuffersAreLines, LiveKept
    PROVE  BuffersAreLines'
<1>1. spawned \in Nat
  BY DEF Types, OutsideTypes
<1>2. BuffersKept /\ spawned' \in Nat
  BY <1>1 DEF LiveKept, BuffersKept, Live, Watched
<1> QED
  BY <1>2, BuffersStay

\* So every step keeps what is sent, and what is kept, lines.
LEMMA BuffersAreLinesStep ==
    ASSUME Types, DataInOrder, SlotsAndSinks, BuffersAreLines, NodeNext
    PROVE  BuffersAreLines'
<1>1. CASE ReadRemote
  BY <1>1, RemoteFacts, LiveStays DEF RemoteEffect, LiveKept, history
<1>2. CASE RouterGone \/ HandleCommand \/ Echo \/ SpawnPastTable \/ PassesOver
  BY <1>2, LiveStays DEF RouterGone, HandleCommand, Echo, SpawnPastTable, PassesOver,
                         LiveKept, outside, history
<1>3. CASE GiveToSink
  BY <1>3, GiveFacts, LiveStays DEF LiveKept, outside
<1>4. CASE SpawnSink
  <2>1. PICK a \in {0} \cup Source : SpawnEffect(a)
    BY <1>4, SpawnFacts
  <2>2. PICK i \in Slot : stream_fd' = [stream_fd EXCEPT ![i] = Out(spawned + 1)]
    BY <2>1 DEF SpawnEffect
  <2>3. stream_fd \in [Slot -> {IgnoreFd, RouterFd} \cup Local] /\ spawned \in Nat
    BY DEF Types, NodeTypes, OutsideTypes
  <2>4. spawned' = spawned + 1 /\ fate = "running"
        /\ UNCHANGED <<config, forwarded, received, input_buffer>>
    BY <2>1 DEF SpawnEffect, history
  <2>5. spawned' \in Nat /\ spawned <= spawned' /\ Out(spawned + 1) > Out(spawned)
    BY <2>3, <2>4 DEF Out, RouterFd
  <2>6. ASSUME NEW fd \in Local, Watched(fd)'
        PROVE  Watched(fd) \/ fd > Out(spawned)
    <3>1. PICK j \in Slot : stream_fd'[j] = fd
      BY <2>6 DEF Watched, Slot
    <3>2. stream_fd[j] = fd \/ fd = Out(spawned + 1)
      BY <2>2, <2>3, <3>1
    <3> QED
      BY <2>5, <3>2 DEF Watched, Slot
  <2>7. BuffersKept
    BY <2>4, <2>5, <2>6 DEF BuffersKept, Live
  <2> QED
    BY <2>5, <2>7, BuffersStay
<1>5. CASE ReadLocal
  BY <1>5, ReadLocalFacts, BufferRead
<1>6. CASE EmergencySend
  BY <1>6, EmergencyFacts, BufferOverflows
<1>7. CASE LocalEnds
  BY <1>7, EndFacts, BufferEmptied
<1>8. CASE Answers \/ SendsData
  BY <1>8, ArrivalFacts, LiveStays DEF ArrivalEffect, node, history, LiveKept
<1>9. CASE RouterCloses \/ RouterStarts
  BY <1>9, LiveStays DEF RouterCloses, RouterStarts, node, history, LiveKept
<1>10. CASE Writes \/ Ends
  BY <1>10, PipeFacts, LiveStays DEF node, history, LiveKept
<1> QED
  BY <1>1, <1>2, <1>3, <1>4, <1>5, <1>6, <1>7, <1>8, <1>9, <1>10, StepCases

\* Only one long line overflows the buffer of a pipe.
LEMMA OverflowStep ==
    ASSUME Types, BuffersAreLines, OnlyLongLinesOverflow, NodeNext
    PROVE  OnlyLongLinesOverflow'
<1>1. CASE EmergencySend
  <2>1. PICK fd \in Local : \E n \in Reads(fd) : EmergencyEffect(fd, n)
    BY <1>1, EmergencyFacts
  <2>2. PICK n \in Reads(fd) : EmergencyEffect(fd, n)
    BY <2>1
  <2>3. /\ n \in 1..Len(pipe[fd].bytes) /\ Full(fd, n)
        /\ config.input # "file" => n <= PipeSize
        /\ UNCHANGED <<config, input_buffer>>
    BY <2>2 DEF EmergencyEffect
  <2>4. /\ n \in Nat /\ Len(input_buffer[fd]) \in Nat
        /\ Capacity - (Len(input_buffer[fd]) + n) < Mtu
    BY <2>3, SMTT(30) DEF Full, Types, NodeTypes, OutsideTypes
  <2>5. config.input # "file" =>
          Len(input_buffer[fd]) > Capacity - Mtu - PipeSize
    BY <2>3, <2>4, NodeConstants
  <2>6. \A i \in 2..Len(input_buffer[fd]) : ~ Delimits(input_buffer[fd][i])
    BY DEF BuffersAreLines, LineBuffer
  <2>7. config.delimiter < 128 =>
          \A i \in 2..Len(input_buffer[fd]) : input_buffer[fd][i] # config.delimiter
    BY <2>6 DEF Delimits
  <2> QED
    BY <2>3, <2>5, <2>7 DEF OnlyLongLinesOverflow
<1>2. ASSUME UNCHANGED node
      PROVE  OnlyLongLinesOverflow'
  BY <1>2 DEF node, OnlyLongLinesOverflow
<1>3. ASSUME fate' # "segv"
      PROVE  OnlyLongLinesOverflow'
  BY <1>3 DEF OnlyLongLinesOverflow
<1>4. CASE ReadRemote \/ RouterGone \/ HandleCommand \/ Echo \/ SpawnPastTable
           \/ PassesOver
  BY <1>3, <1>4 DEF ReadRemote, RouterGone, HandleCommand, Echo, SpawnPastTable,
                    PassesOver, NextPending, Served
<1>5. CASE GiveToSink
  BY <1>3, <1>5, GiveFacts
<1>6. CASE SpawnSink
  BY <1>3, <1>6, SpawnFacts DEF SpawnEffect
<1>7. CASE ReadLocal
  BY <1>3, <1>7, ReadLocalFacts DEF ReadEffect
<1>8. CASE LocalEnds
  BY <1>3, <1>8, EndFacts DEF EndEffect
<1>9. CASE (Answers \/ SendsData) \/ RouterCloses \/ RouterStarts
  BY <1>2, <1>9 DEF Answers, SendsData, RouterCloses, RouterStarts
<1>10. CASE Writes \/ Ends
  BY <1>2, <1>10, PipeFacts
<1> QED
  BY <1>1, <1>4, <1>5, <1>6, <1>7, <1>8, <1>9, <1>10, StepCases

-----------------------------------------------------------------------------
(* Streams keep their child.                                               *)

\* Which addresses data has, step by step: nothing but the queue, or a part of it, is
\* left as it is,
LEMMA AddressesStay ==
    ASSUME Addresses, KeepsQueue, UNCHANGED <<config, arg_address, pending>>
    PROVE  Addresses'
BY DEF Addresses, KeepSource, KeepsQueue

\* the front of the queue is read,
LEMMA AddressesRead ==
    ASSUME Types, Addresses, NEW n \in Nat, RemoteEffect(n)
    PROVE  Addresses'
<1> DEFINE q == fromRouter.packets
           r == fromRouter'.packets
           l == Len(q)
<1>1. /\ l \in Nat /\ n \in 1..l /\ DOMAIN q = 1..l
      /\ DOMAIN pending' = 1..n /\ DOMAIN r = 1..(l - n)
      /\ \A k \in 1..n : pending'[k] = q[k]
      /\ \A k \in 1..(l - n) : r[k] = q[n + k]
  BY ReadParts
<1>2. UNCHANGED <<config, arg_address>>
  BY DEF RemoteEffect
<1> HIDE DEF q, r, l
<1>3. /\ \A k \in 1..n : k \in 1..l
      /\ \A k \in 1..(l - n) : n + k \in 1..l
  BY <1>1
<1>4. KeepSource(q) => KeepSource(pending') /\ KeepSource(r)
  BY <1>1, <1>3, SMTT(30) DEF KeepSource
<1> QED
  BY <1>2, <1>4 DEF Addresses, q, r

\* a packet has been handled,
LEMMA AddressesPopped ==
    ASSUME Types, Addresses, pending # <<>>, pending' = Tail(pending),
           UNCHANGED <<config, fromRouter>>, arg_address # 0 => UNCHANGED arg_address
    PROVE  Addresses'
<1>1. \A k \in DOMAIN pending' : k + 1 \in DOMAIN pending /\ pending'[k] = pending[k + 1]
  BY PendingFacts
<1>2. KeepSource(pending) => KeepSource(pending')
  BY <1>1 DEF KeepSource
<1> QED
  BY <1>2 DEF Addresses

\* one comes from the router,
LEMMA AddressesAdded ==
    ASSUME Types, Addresses, NEW p \in Message, ArrivalEffect(p)
    PROVE  Addresses'
<1> DEFINE q == fromRouter.packets
           r == fromRouter'.packets
           l == Len(q)
<1>1. /\ \A k \in DOMAIN q : k \in DOMAIN r /\ r[k] = q[k]
      /\ \A k \in DOMAIN r : k \in DOMAIN q \/ k = l + 1
      /\ r[l + 1] = p
  BY AddedParts
<1>2. /\ UNCHANGED <<config, arg_address, pending>>
      /\ p.kind = "data" => p.source = p.origin
  BY DEF ArrivalEffect, node
<1> HIDE DEF q, r, l
<1>3. KeepSource(q) => KeepSource(r)
  BY <1>1, <1>2 DEF KeepSource
<1> QED
  BY <1>2, <1>3 DEF Addresses, q, r

\* or a child is started for one.
LEMMA AddressesSpawned ==
    ASSUME Types, Addresses, NEW a, SpawnEffect(a)
    PROVE  Addresses'
<1>1. /\ pending[1].kind = "data" /\ 1 \in DOMAIN pending
      /\ \A k \in DOMAIN pending : k >= 1 /\ k \in Nat
  BY PendingFacts DEF SpawnEffect
<1>2. UNCHANGED <<config, arg_address>>
  BY DEF SpawnEffect
<1>3. config.demux = "noop" => (KeepSource(pending) /\ KeepSource(fromRouter.packets))'
  <2> SUFFICES ASSUME config.demux = "noop"
               PROVE  (KeepSource(pending) /\ KeepSource(fromRouter.packets))'
    OBVIOUS
  <2>1. KeepSource(pending) /\ KeepSource(fromRouter.packets) /\ fromRouter' = fromRouter
    BY DEF Addresses, SpawnEffect
  <2>2. a = pending[1].source /\ pending'[1].source = a
        /\ pending'[1].origin = pending[1].origin
        /\ DOMAIN pending' = DOMAIN pending
        /\ \A k \in DOMAIN pending : k # 1 => pending'[k] = pending[k]
    BY DEF SpawnEffect, Stream
  <2>3. KeepSource(pending')
    BY <1>1, <2>1, <2>2 DEF KeepSource
  <2> QED
    BY <2>1, <2>3
<1> QED
  BY <1>2, <1>3 DEF Addresses

\* So every step keeps what is known of the addresses.
LEMMA AddressesStep ==
    ASSUME Types, Addresses, BuffersAreLines, NodeNext
    PROVE  Addresses'
<1>1. CASE ReadRemote
  BY <1>1, RemoteFacts, AddressesRead
<1>2. CASE RouterGone \/ SpawnPastTable
  BY <1>2, AddressesStay DEF RouterGone, SpawnPastTable, outside, KeepsQueue
<1>3. CASE HandleCommand \/ Echo
  <2>1. pending # <<>> /\ pending' = Tail(pending)
    BY <1>3 DEF HandleCommand, Echo, NextPending
  <2> QED
    BY <1>3, <2>1, AddressesPopped DEF HandleCommand, Echo, outside
<1>4. CASE GiveToSink
  BY <1>4, GiveFacts, AddressesPopped DEF outside
<1>5. CASE SpawnSink
  BY <1>5, SpawnFacts, AddressesSpawned
<1>6. CASE ReadLocal
  <2>1. PICK fd \in Local : \E more, lines : ReadEffect(fd, more, lines)
    BY <1>6, ReadLocalFacts
  <2> QED
    BY <2>1, AddressesStay DEF ReadEffect, KeepsQueue
<1>7. CASE EmergencySend
  <2>1. PICK fd \in Local : \E n \in Reads(fd) : EmergencyEffect(fd, n)
    BY <1>7, EmergencyFacts
  <2> QED
    BY <2>1, AddressesStay DEF EmergencyEffect, KeepsQueue
<1>8. CASE LocalEnds
  <2>1. PICK i \in Slot, fd \in Local : EndEffect(i, fd)
    BY <1>8, EndFacts
  <2> QED
    BY <2>1, AddressesStay DEF EndEffect, outside, KeepsQueue
<1>9. CASE PassesOver
  BY <1>9, AddressesStay DEF PassesOver, outside, KeepsQueue
<1>10. CASE Answers \/ SendsData
  BY <1>10, ArrivalFacts, AddressesAdded
<1>11. CASE RouterCloses \/ RouterStarts
  <2>1. fromRouter'.packets = fromRouter.packets
    BY <1>11 DEF RouterCloses, RouterStarts, Types, OutsideTypes
  <2> QED
    BY <1>11, <2>1, AddressesStay DEF RouterCloses, RouterStarts, node, KeepsQueue
<1>12. CASE Writes \/ Ends
  BY <1>12, PipeFacts, AddressesStay DEF node, KeepsQueue
<1> QED
  BY <1>1, <1>2, <1>3, <1>4, <1>5, <1>6, <1>7, <1>8, <1>9, <1>10, <1>11, <1>12, StepCases

\* What is known of what has been given to children.
LEMMA DeliveredFacts ==
    ASSUME Types
    PROVE  /\ delivered \in Seq([packet : Data, child : Child])
           /\ Len(delivered) \in Nat /\ DOMAIN delivered = 1..Len(delivered)
           /\ \A i \in DOMAIN delivered :
                 /\ delivered[i].child \in Child /\ delivered[i].packet \in Data
                 /\ delivered[i].packet.number \in Nat
<1> DEFINE D == [packet : Data, child : Child]
<1>1. delivered \in Seq(D)
  BY DEF Types, OutsideTypes
<1>2. \A d \in D : d.child \in Child /\ d.packet \in Data /\ d.packet.number \in Nat
  BY DEF Data
<1> HIDE DEF D
<1>3. Len(delivered) \in Nat /\ DOMAIN delivered = 1..Len(delivered)
      /\ \A i \in DOMAIN delivered : delivered[i] \in D
  BY <1>1
<1> QED
  BY <1>1, <1>2, <1>3 DEF D

\* A packet that is given to a child, and which one.
GivenEffect(d) ==
    /\ pending # <<>> /\ pending[1].kind = "data" /\ pending' = Tail(pending)
    /\ d = [packet |-> pending[1], child |-> sinkTable[Stream(pending[1].source)]]
    /\ Stream(pending[1].source) \in DOMAIN sinkTable
    /\ delivered' = Append(delivered, d)
    /\ pipe[Out(d.child)].open
    /\ UNCHANGED <<config, arg_address, sinkTable, outside>>

\* The last one is new, and the others are as they were.
LEMMA GivenParts ==
    ASSUME Types, NEW d, GivenEffect(d)
    PROVE  LET l == Len(delivered)
           IN  /\ l \in Nat /\ DOMAIN delivered = 1..l /\ l + 1 \in DOMAIN delivered'
               /\ delivered'[l + 1] = d
               /\ \A i \in DOMAIN delivered :
                     i \in DOMAIN delivered' /\ delivered'[i] = delivered[i]
               /\ \A i \in DOMAIN delivered' : i \in DOMAIN delivered \/ i = l + 1
               /\ d.packet = pending[1]
               /\ d.child = sinkTable[Stream(pending[1].source)]
<1> DEFINE G == [packet : Data, child : Child]
           D == {d} \cup G
           s == delivered
           l == Len(s)
<1>1. s \in Seq(G) /\ delivered' = Append(s, d)
  BY DeliveredFacts DEF GivenEffect
<1>2. d \in D /\ G \subseteq D
  OBVIOUS
<1>3. d.packet = pending[1] /\ d.child = sinkTable[Stream(pending[1].source)]
  BY DEF GivenEffect
<1> HIDE DEF D, G, s
<1>4. s \in Seq(D)
  <2>1. Len(s) \in Nat /\ s \in [1..Len(s) -> G]
    BY <1>1
  <2>2. s \in [1..Len(s) -> D]
    BY <1>2, <2>1
  <2> QED
    BY <2>1, <2>2, FunctionIsSeq
<1>5. /\ l \in Nat /\ DOMAIN s = 1..l /\ l + 1 \in DOMAIN Append(s, d)
      /\ Append(s, d)[l + 1] = d
      /\ \A i \in DOMAIN s : i \in DOMAIN Append(s, d) /\ Append(s, d)[i] = s[i]
      /\ \A i \in DOMAIN Append(s, d) : i \in DOMAIN s \/ i = l + 1
  BY <1>2, <1>4, AppendFacts
<1> QED
  BY <1>1, <1>3, <1>5 DEF s

\* What is given comes in order, where nothing is given and the queues are a part of
\* what they were,
LEMMA GivenStay ==
    ASSUME DeliveredInOrder, UNCHANGED <<delivered, sent>>,
           \A k \in DOMAIN pending' : pending'[k].kind = "data" =>
              \/ \E j \in DOMAIN pending : /\ pending[j].kind = "data"
                                           /\ pending[j].number = pending'[k].number
              \/ \E j \in DOMAIN fromRouter.packets :
                    /\ fromRouter.packets[j].kind = "data"
                    /\ fromRouter.packets[j].number = pending'[k].number,
           \A k \in DOMAIN fromRouter'.packets :
              fromRouter'.packets[k].kind = "data" =>
                 \E j \in DOMAIN fromRouter.packets :
                    /\ fromRouter.packets[j].kind = "data"
                    /\ fromRouter.packets[j].number = fromRouter'.packets[k].number
    PROVE  DeliveredInOrder'
<1>1. GivenBefore(pending) /\ GivenBefore(fromRouter.packets)
  BY DEF DeliveredInOrder
<1>2. GivenBefore(pending)'
  BY <1>1 DEF GivenBefore
<1>3. GivenBefore(fromRouter.packets)'
  BY <1>1 DEF GivenBefore
<1> QED
  BY <1>2, <1>3 DEF DeliveredInOrder

\* where a packet comes from the router,
LEMMA GivenAdded ==
    ASSUME Types, DeliveredInOrder, NEW p \in Message, ArrivalEffect(p)
    PROVE  DeliveredInOrder'
<1> DEFINE q == fromRouter.packets
           r == fromRouter'.packets
           l == Len(q)
<1>1. /\ l + 1 \in DOMAIN r /\ r[l + 1] = p
      /\ \A k \in DOMAIN q : k \in DOMAIN r /\ r[k] = q[k]
      /\ \A k \in DOMAIN r : k \in DOMAIN q \/ k = l + 1
  BY AddedParts
<1>2. /\ sent \in Nat /\ UNCHANGED <<pending, delivered>>
      /\ \/ p.kind = "address" /\ sent' = sent
         \/ p.kind = "data" /\ p.number = sent + 1 /\ sent' = sent + 1
  BY QueueFacts DEF ArrivalEffect, node, history
<1>3. \A i \in DOMAIN delivered : /\ delivered[i].packet.number \in Nat
                                  /\ delivered[i].packet.number <= sent
  BY DeliveredFacts DEF DeliveredInOrder
<1>4. GivenBefore(pending) /\ GivenBefore(q)
  BY DEF DeliveredInOrder
<1> HIDE DEF q, r, l
<1>5. \A i \in DOMAIN delivered :
        /\ delivered[i].packet.number <= sent'
        /\ p.kind = "data" => delivered[i].packet.number < p.number
  BY <1>2, <1>3
<1>6. GivenBefore(r)
  BY <1>1, <1>4, <1>5 DEF GivenBefore
<1>7. GivenBefore(pending)' /\ GivenBefore(fromRouter.packets)'
  BY <1>2, <1>4, <1>6 DEF GivenBefore, r
<1> QED
  BY <1>2, <1>5, <1>7 DEF DeliveredInOrder

\* and where one is given.
LEMMA GivenMore ==
    ASSUME Types, DataInOrder, DeliveredInOrder, NEW d, GivenEffect(d)
    PROVE  DeliveredInOrder'
<1> DEFINE q == fromRouter.packets
           l == Len(delivered)
           n == pending[1].number
<1>1. /\ l \in Nat /\ DOMAIN delivered = 1..l /\ l + 1 \in DOMAIN delivered'
      /\ delivered'[l + 1] = d /\ d.packet = pending[1]
      /\ \A i \in DOMAIN delivered :
            i \in DOMAIN delivered' /\ delivered'[i] = delivered[i]
      /\ \A i \in DOMAIN delivered' : i \in DOMAIN delivered \/ i = l + 1
  BY GivenParts
<1>2. /\ 1 \in DOMAIN pending /\ pending[1].kind = "data"
      /\ \A k \in DOMAIN pending' : /\ k + 1 \in DOMAIN pending /\ k + 1 > 1
                                    /\ pending'[k] = pending[k + 1]
      /\ UNCHANGED <<fromRouter, sent>>
  BY PendingFacts DEF GivenEffect, outside
<1>3. n \in 1..sent /\ sent \in Nat
  BY <1>2, QueueFacts DEF DataInOrder, Numbered
<1>4. /\ GivenBefore(pending) /\ GivenBefore(q)
      /\ \A i \in DOMAIN delivered : delivered[i].packet.number < n
      /\ \A i, j \in DOMAIN delivered :
            i < j => delivered[i].packet.number < delivered[j].packet.number
      /\ \A i \in DOMAIN delivered : delivered[i].packet.number <= sent
  BY <1>2 DEF DeliveredInOrder, GivenBefore
<1>5. /\ \A k \in DOMAIN pending' : pending'[k].kind = "data" => n < pending'[k].number
      /\ \A k \in DOMAIN q : q[k].kind = "data" => n < q[k].number
  <2>1. Ordered(pending) /\ Ahead(pending, q)
    BY DEF DataInOrder
  <2> QED
    BY <1>2, <2>1 DEF Ordered, Ahead
<1> HIDE DEF q, l
<1>6. GivenBefore(pending)'
  <2> SUFFICES ASSUME NEW i \in DOMAIN delivered', NEW k \in DOMAIN pending',
                      pending'[k].kind = "data"
               PROVE  delivered'[i].packet.number < pending'[k].number
    BY DEF GivenBefore
  <2>1. CASE i \in DOMAIN delivered
    BY <1>1, <1>2, <1>4, <2>1 DEF GivenBefore
  <2>2. CASE i = l + 1
    BY <1>1, <1>5, <2>2
  <2> QED
    BY <1>1, <2>1, <2>2
<1>7. GivenBefore(fromRouter.packets)'
  <2> SUFFICES ASSUME NEW i \in DOMAIN delivered', NEW k \in DOMAIN q,
                      q[k].kind = "data"
               PROVE  delivered'[i].packet.number < q[k].number
    BY <1>2 DEF GivenBefore, q
  <2>1. CASE i \in DOMAIN delivered
    BY <1>1, <1>4, <2>1 DEF GivenBefore
  <2>2. CASE i = l + 1
    BY <1>1, <1>5, <2>2
  <2> QED
    BY <1>1, <2>1, <2>2
<1>8. ASSUME NEW i \in DOMAIN delivered', NEW j \in DOMAIN delivered', i < j
      PROVE  delivered'[i].packet.number < delivered'[j].packet.number
  <2>1. i \in DOMAIN delivered
    BY <1>1, <1>8
  <2>2. CASE j \in DOMAIN delivered
    BY <1>1, <1>4, <1>8, <2>1, <2>2
  <2>3. CASE j = l + 1
    BY <1>1, <1>4, <2>1, <2>3
  <2> QED
    BY <1>1, <2>2, <2>3
<1>9. \A i \in DOMAIN delivered' : delivered'[i].packet.number <= sent'
  BY <1>1, <1>2, <1>3, <1>4
<1> QED
  BY <1>6, <1>7, <1>8, <1>9 DEF DeliveredInOrder

\* What no step changes: the options, what has been given to children unless it is
\* GiveToSink.
LEMMA StepKeeps ==
    ASSUME Types, BuffersAreLines, NodeNext
    PROVE  config' = config /\ (delivered' = delivered \/ GiveToSink)
<1>1. CASE ReadLocal \/ EmergencySend \/ LocalEnds \/ PassesOver
  BY <1>1 DEF ReadLocal, EmergencySend, LocalEnds, PassesOver, history
<1>2. CASE ReadRemote \/ RouterGone \/ HandleCommand \/ Echo \/ SpawnSink
           \/ SpawnPastTable
  BY <1>2 DEF ReadRemote, RouterGone, HandleCommand, Echo, SpawnSink, SpawnPastTable,
              history
<1>3. CASE (Answers \/ SendsData) \/ RouterCloses \/ RouterStarts
  BY <1>3 DEF Answers, SendsData, RouterCloses, RouterStarts, node, history
<1>4. CASE Writes \/ Ends
  BY <1>4, PipeFacts DEF node, history
<1>5. CASE GiveToSink
  BY <1>5, GiveFacts
<1> QED
  BY <1>1, <1>2, <1>3, <1>4, <1>5, StepCases

\* A pipe that has been closed stays so.
LEMMA PipesStayClosed ==
    ASSUME Types, BuffersAreLines, NodeNext
    PROVE  \A fd \in Local : pipe'[fd].open => pipe[fd].open
<1>1. CASE ReadLocal
  BY <1>1, ReadLocalFacts DEF ReadEffect
<1>2. CASE EmergencySend
  <2>1. PICK fd \in Local : \E n \in Reads(fd) : EmergencyEffect(fd, n)
    BY <1>2, EmergencyFacts
  <2>2. PICK n \in Reads(fd) : EmergencyEffect(fd, n)
    BY <2>1
  <2> QED
    BY <2>2, TakeFacts DEF EmergencyEffect, Types
<1>3. CASE LocalEnds \/ PassesOver
  BY <1>3 DEF LocalEnds, PassesOver, outside
<1>4. CASE ReadRemote \/ RouterGone \/ HandleCommand \/ Echo \/ SpawnSink
           \/ SpawnPastTable
  BY <1>4 DEF ReadRemote, RouterGone, HandleCommand, Echo, SpawnSink, SpawnPastTable,
              outside
<1>5. CASE (Answers \/ SendsData) \/ RouterCloses \/ RouterStarts
  BY <1>5 DEF Answers, SendsData, RouterCloses, RouterStarts
<1>6. CASE Writes \/ Ends
  BY <1>6, PipeFacts
<1>7. CASE GiveToSink
  BY <1>7, GiveFacts DEF outside
<1> QED
  BY <1>1, <1>2, <1>3, <1>4, <1>5, <1>6, <1>7, StepCases

\* What GiveToSink does, if the child has not ended.
LEMMA GivenFacts ==
    ASSUME Types, GiveToSink
    PROVE  \/ \E d : GivenEffect(d)
           \/ /\ pending # <<>> /\ pending' = Tail(pending)
              /\ UNCHANGED <<config, arg_address, sinkTable, outside, delivered>>
<1>1. CASE UNCHANGED delivered
  BY <1>1, GiveFacts
<1>2. CASE delivered' # delivered
  <2> DEFINE d == [packet |-> pending[1],
                   child |-> sinkTable[Stream(pending[1].source)]]
  <2>1. /\ delivered' = Append(delivered, d)
        /\ pipe[Out(sinkTable[Stream(pending[1].source)])].open
    BY <1>2, GiveFacts
  <2>2. d.child = sinkTable[Stream(pending[1].source)]
    OBVIOUS
  <2>3. d = [packet |-> pending[1], child |-> sinkTable[Stream(pending[1].source)]]
    OBVIOUS
  <2> HIDE DEF d
  <2>4. GivenEffect(d)
    BY <2>1, <2>2, <2>3, GiveFacts DEF GivenEffect
  <2> QED
    BY <2>4
<1> QED
  BY <1>1, <1>2

\* So every step keeps the order in which data is given.
LEMMA DeliveredInOrderStep ==
    ASSUME Types, DataInOrder, BuffersAreLines, DeliveredInOrder, NodeNext
    PROVE  DeliveredInOrder'
<1>1. ASSUME KeepsQueue, UNCHANGED <<delivered, sent, pending>>
      PROVE  DeliveredInOrder'
  BY <1>1, GivenStay DEF KeepsQueue
<1>2. ASSUME UNCHANGED <<delivered, sent, fromRouter>>, pending # <<>>,
             pending' = Tail(pending)
      PROVE  DeliveredInOrder'
  <2>1. \A k \in DOMAIN pending' : /\ k + 1 \in DOMAIN pending
                                   /\ pending'[k] = pending[k + 1]
    BY <1>2, PendingFacts
  <2> QED
    BY <1>2, <2>1, GivenStay
<1>3. CASE ReadRemote
  <2>1. PICK n \in Nat : RemoteEffect(n)
    BY <1>3, RemoteFacts
  <2> DEFINE q == fromRouter.packets
             r == fromRouter'.packets
             l == Len(q)
  <2>2. /\ l \in Nat /\ n \in 1..l /\ DOMAIN q = 1..l
        /\ DOMAIN pending' = 1..n /\ DOMAIN r = 1..(l - n)
        /\ \A k \in 1..n : pending'[k] = q[k]
        /\ \A k \in 1..(l - n) : r[k] = q[n + k]
    BY <2>1, ReadParts
  <2>3. UNCHANGED <<delivered, sent>>
    BY <2>1 DEF RemoteEffect, history
  <2> HIDE DEF q, r, l
  <2>4. \A k \in DOMAIN pending' : k \in DOMAIN q /\ pending'[k] = q[k]
    BY <2>2
  <2>5. \A k \in DOMAIN r : n + k \in DOMAIN q /\ r[k] = q[n + k]
    BY <2>2
  <2> QED
    BY <2>3, <2>4, <2>5, GivenStay DEF q, r
<1>4. CASE RouterGone \/ SpawnPastTable \/ PassesOver
  BY <1>1, <1>4 DEF RouterGone, SpawnPastTable, PassesOver, outside, history, KeepsQueue
<1>5. CASE HandleCommand \/ Echo
  BY <1>2, <1>5 DEF HandleCommand, Echo, NextPending, outside, history
<1>6. CASE GiveToSink
  <2>1. ASSUME NEW d, GivenEffect(d)
        PROVE  DeliveredInOrder'
    BY <2>1, GivenMore
  <2> QED
    BY <1>2, <1>6, <2>1, GivenFacts DEF outside
<1>7. CASE SpawnSink
  <2>1. PICK a \in {0} \cup Source : SpawnEffect(a)
    BY <1>7, SpawnFacts
  <2>2. /\ DOMAIN pending' = DOMAIN pending
        /\ \A k \in DOMAIN pending :
              /\ pending'[k].kind = pending[k].kind
              /\ pending'[k].number = pending[k].number
        /\ KeepsQueue
        /\ UNCHANGED <<delivered, sent>>
    BY <2>1 DEF SpawnEffect, KeepsQueue, history
  <2> QED
    BY <2>2, GivenStay DEF KeepsQueue
<1>8. CASE ReadLocal
  <2>1. PICK fd \in Local : \E more, lines : ReadEffect(fd, more, lines)
    BY <1>8, ReadLocalFacts
  <2> QED
    BY <1>1, <2>1 DEF ReadEffect, KeepsQueue
<1>9. CASE EmergencySend
  <2>1. PICK fd \in Local : \E n \in Reads(fd) : EmergencyEffect(fd, n)
    BY <1>9, EmergencyFacts
  <2> QED
    BY <1>1, <2>1 DEF EmergencyEffect, KeepsQueue
<1>10. CASE LocalEnds
  <2>1. PICK i \in Slot, fd \in Local : EndEffect(i, fd)
    BY <1>10, EndFacts
  <2> QED
    BY <1>1, <2>1 DEF EndEffect, outside, history, KeepsQueue
<1>11. CASE Answers \/ SendsData
  BY <1>11, ArrivalFacts, GivenAdded
<1>12. CASE RouterCloses \/ RouterStarts
  <2>1. fromRouter'.packets = fromRouter.packets
    BY <1>12 DEF RouterCloses, RouterStarts, Types, OutsideTypes
  <2> QED
    BY <1>1, <1>12, <2>1 DEF RouterCloses, RouterStarts, node, history, KeepsQueue
<1>13. CASE Writes \/ Ends
  BY <1>1, <1>13, PipeFacts DEF node, history, KeepsQueue
<1> QED
  BY <1>3, <1>4, <1>5, <1>6, <1>7, <1>8, <1>9, <1>10, <1>11, <1>12, <1>13, StepCases

\* Who serves whom, where neither sinks nor deliveries change: children end, and are
\* not started again.
LEMMA ServedStay ==
    ASSUME Types, AllServed, UNCHANGED <<config, delivered, sinkTable, spawned>>,
           \A fd \in Local : pipe'[fd].open => pipe[fd].open,
           config.address # 0 => UNCHANGED arg_address
    PROVE  AllServed'
<1> SUFFICES ASSUME NamesStay, NEW i \in DOMAIN delivered
             PROVE  ServedBy(delivered[i])'
  BY DEF AllServed, NamesStay
<1>1. ServedBy(delivered[i])
  BY DEF AllServed
<1>2. Out(delivered[i].child) \in Local
  BY DeliveredFacts, Descriptors
<1>3. Key(delivered[i])' = Key(delivered[i])
  BY DEF Key, NamesStay
<1> QED
  BY <1>1, <1>2, <1>3 DEF ServedBy

\* A packet is given to the child that serves its stream.
LEMMA GivenServed ==
    ASSUME Types, SlotsAndSinks, Addresses, NamesStay,
           NEW d, GivenEffect(d)
    PROVE  /\ Key(d) \in DOMAIN sinkTable /\ sinkTable[Key(d)] = d.child
           /\ Key(d) = Stream(pending[1].source)
           /\ ServedBy(d)
<1>1. d.packet = pending[1] /\ d.child = sinkTable[Stream(pending[1].source)]
  BY GivenParts
<1>2. Key(d) = Stream(pending[1].source)
  <2>1. CASE config.demux = "merge"
    BY <2>1 DEF Key, Stream
  <2>2. CASE config.demux # "merge"
    <3>1. config.demux = "noop"
      BY <2>2 DEF NamesStay
    <3>2. pending[1].source = pending[1].origin
      BY <3>1, PendingFacts DEF Addresses, KeepSource, GivenEffect
    <3> QED
      BY <1>1, <2>2, <3>2 DEF Key, Stream
  <2> QED
    BY <2>1, <2>2
<1>3. Key(d) \in DOMAIN sinkTable /\ sinkTable[Key(d)] = d.child
  BY <1>1, <1>2 DEF GivenEffect
<1>4. d.child <= spawned
  <2>1. sinkTable[Key(d)] \in 1..spawned
    BY <1>3 DEF Types, NodeTypes
  <2> QED
    BY <1>3, <2>1 DEF Types, OutsideTypes
<1>5. config.demux = "noop" =>
        \A a \in DOMAIN sinkTable : sinkTable[a] = d.child => a = d.packet.origin
  <2>1. config.demux = "noop" => Key(d) = d.packet.origin
    BY DEF Key
  <2> QED
    BY <1>3, <2>1 DEF SlotsAndSinks
<1> QED
  BY <1>2, <1>3, <1>4, <1>5 DEF ServedBy

\* So every step keeps the children with their streams.
LEMMA AllServedStep ==
    ASSUME Types, SlotsAndSinks, BuffersAreLines, Addresses, AllServed, NodeNext
    PROVE  AllServed'
<1>1. \A fd \in Local : pipe'[fd].open => pipe[fd].open
  BY PipesStayClosed
<1>2. ASSUME UNCHANGED <<config, delivered, sinkTable, spawned, arg_address>>
      PROVE  AllServed'
  BY <1>1, <1>2, ServedStay
<1>3. CASE ReadRemote
  BY <1>2, <1>3, RemoteFacts DEF RemoteEffect, history
<1>4. CASE RouterGone \/ SpawnPastTable \/ PassesOver \/ Echo
  BY <1>2, <1>4 DEF RouterGone, SpawnPastTable, PassesOver, Echo, outside, history
<1>5. CASE HandleCommand
  <2>1. config.address # 0 => arg_address # 0
    BY DEF Addresses
  <2>2. UNCHANGED <<config, delivered, sinkTable, spawned>>
        /\ (arg_address # 0 => UNCHANGED arg_address)
    BY <1>5 DEF HandleCommand, outside, history
  <2> QED
    BY <1>1, <2>1, <2>2, ServedStay
<1>6. CASE GiveToSink
  <2>1. ASSUME NEW d, GivenEffect(d)
        PROVE  AllServed'
    <3> SUFFICES ASSUME NamesStay, NEW i \in DOMAIN delivered'
                 PROVE  ServedBy(delivered[i])'
      BY <2>1 DEF AllServed, GivenEffect, NamesStay
    <3>1. /\ i \in DOMAIN delivered \/ i = Len(delivered) + 1
          /\ delivered'[Len(delivered) + 1] = d
          /\ \A j \in DOMAIN delivered : delivered'[j] = delivered[j]
      BY <2>1, GivenParts
    <3>2. ServedBy(delivered'[i])
      BY <2>1, <3>1, GivenServed DEF AllServed
    <3>3. UNCHANGED <<config, arg_address, sinkTable, pipe, spawned>>
      BY <2>1 DEF GivenEffect, outside
    <3> QED
      BY <3>2, <3>3 DEF ServedBy, Key
  <2> QED
    BY <1>2, <1>6, <2>1, GivenFacts DEF outside
<1>7. CASE SpawnSink
  <2>1. PICK a \in {0} \cup Source : SpawnEffect(a)
    BY <1>7, SpawnFacts
  <2> SUFFICES ASSUME NamesStay, NEW i \in DOMAIN delivered
               PROVE  ServedBy(delivered[i])'
    BY <2>1 DEF AllServed, SpawnEffect, history, NamesStay
  <2> DEFINE d == delivered[i]
  <2>2. /\ a \notin DOMAIN sinkTable
        /\ spawned' = spawned + 1
        /\ sinkTable' = [x \in DOMAIN sinkTable \cup {a} |->
                            IF x = a THEN spawned + 1 ELSE sinkTable[x]]
        /\ UNCHANGED <<config, arg_address, pipe, delivered>>
    <3>1. a = Stream(pending[1].source) /\ a \notin DOMAIN sinkTable
      BY <2>1 DEF SpawnEffect, NamesStay
    <3> QED
      BY <2>1, <3>1 DEF SpawnEffect, history
  <2>3. ServedBy(d) /\ d.child <= spawned /\ d.child \in Nat /\ spawned \in Nat
    <3>1. ServedBy(d) /\ spawned \in Nat
      BY DEF AllServed, Types, OutsideTypes
    <3>2. d.child \in Nat
      <4>1. d.child \in Child
        BY DeliveredFacts
      <4>2. Child \subseteq Nat
        BY NodeConstants DEF Child
      <4> QED
        BY <4>1, <4>2
    <3> QED
      BY <3>1, <3>2 DEF ServedBy
  <2>4. d.child # spawned + 1 /\ d.child <= spawned + 1
    <3> HIDE DEF d
    <3> QED
      BY <2>3
  <2>5. Key(d)' = Key(d)
    BY <2>2 DEF Key
  <2> QED
    BY <2>2, <2>3, <2>4, <2>5 DEF ServedBy
<1>8. CASE ReadLocal
  <2>1. PICK fd \in Local : \E more, lines : ReadEffect(fd, more, lines)
    BY <1>8, ReadLocalFacts
  <2> QED
    BY <1>2, <2>1 DEF ReadEffect
<1>9. CASE EmergencySend
  <2>1. PICK fd \in Local : \E n \in Reads(fd) : EmergencyEffect(fd, n)
    BY <1>9, EmergencyFacts
  <2> QED
    BY <1>2, <2>1 DEF EmergencyEffect
<1>10. CASE LocalEnds
  <2>1. PICK j \in Slot, fd \in Local : EndEffect(j, fd)
    BY <1>10, EndFacts
  <2> SUFFICES ASSUME NamesStay, NEW i \in DOMAIN delivered
               PROVE  ServedBy(delivered[i])'
    BY <2>1 DEF AllServed, EndEffect, history, NamesStay
  <2> DEFINE d == delivered[i]
  <2>2. /\ ~ pipe[fd].open /\ sinkTable' = SinksWithout(fd)
        /\ UNCHANGED <<config, arg_address, pipe, delivered, spawned>>
    BY <2>1 DEF EndEffect, outside, history
  <2>3. ServedBy(d)
    BY DEF AllServed
  <2>4. Key(d)' = Key(d)
    BY <2>2 DEF Key
  <2> QED
    BY <2>2, <2>3, <2>4 DEF ServedBy, SinksWithout
<1>11. CASE Answers \/ SendsData
  BY <1>2, <1>11, ArrivalFacts DEF ArrivalEffect, node, history
<1>12. CASE RouterCloses \/ RouterStarts
  BY <1>2, <1>12 DEF RouterCloses, RouterStarts, node, history
<1>13. CASE Writes \/ Ends
  BY <1>2, <1>13, PipeFacts DEF node, history
<1> QED
  BY <1>3, <1>4, <1>5, <1>6, <1>7, <1>8, <1>9, <1>10, <1>11, <1>12, <1>13, StepCases

\* Data moves to another child only after the first has ended.
LEMMA OneChildStep ==
    ASSUME Types, SlotsAndSinks, BuffersAreLines, ChildrenAreKept, DeliveredInOrder',
           OneChildPerStream, NodeNext
    PROVE  OneChildPerStream'
<1> DEFINE Apart(d, e) ==
             /\ (SameStream(d.packet, e.packet) /\ d.child # e.child)
                   => ~ pipe[Out(d.child)].open
             /\ d.child = e.child => SameStream(d.packet, e.packet)
<1>1. \A fd \in Local : pipe'[fd].open => pipe[fd].open
  BY PipesStayClosed
<1>2. config' = config /\ (delivered' = delivered \/ GiveToSink)
  BY StepKeeps
<1>3. ASSUME NamesStay, NEW i \in DOMAIN delivered,
             NEW j \in DOMAIN delivered, i < j
      PROVE  Apart(delivered[i], delivered[j])
  BY <1>3 DEF OneChildPerStream
<1>4. \A i \in DOMAIN delivered : Out(delivered[i].child) \in Local
  BY DeliveredFacts, Descriptors
<1>5. CASE delivered' = delivered
  <2> SUFFICES ASSUME NamesStay, NEW i \in DOMAIN delivered,
                      NEW j \in DOMAIN delivered, i < j
               PROVE  /\ delivered[i].packet.number < delivered[j].packet.number
                      /\ Apart(delivered[i], delivered[j])'
    BY <1>2, <1>5 DEF OneChildPerStream, NamesStay
  <2>1. Apart(delivered[i], delivered[j])
    BY <1>3
  <2>2. Apart(delivered[i], delivered[j])'
    BY <1>1, <1>2, <1>4, <1>5, <2>1 DEF SameStream
  <2> QED
    BY <1>5, <2>2 DEF ChildrenAreKept, DeliveredInOrder
<1>6. ASSUME NEW d, GivenEffect(d)
      PROVE  OneChildPerStream'
  <2> DEFINE l == Len(delivered)
  <2>1. /\ l \in Nat /\ DOMAIN delivered = 1..l /\ delivered'[l + 1] = d
        /\ \A i \in DOMAIN delivered : delivered'[i] = delivered[i]
        /\ \A i \in DOMAIN delivered' : i \in DOMAIN delivered \/ i = l + 1
    BY <1>6, GivenParts
  <2>2. UNCHANGED <<config, pipe>>
    BY <1>6 DEF GivenEffect, outside
  <2> HIDE DEF l
  <2> SUFFICES ASSUME NamesStay, NEW i \in DOMAIN delivered',
                      NEW j \in DOMAIN delivered', i < j
               PROVE  /\ delivered'[i].packet.number < delivered'[j].packet.number
                      /\ Apart(delivered'[i], delivered'[j])
    BY <2>2 DEF OneChildPerStream, NamesStay, SameStream
  <2>3. i \in DOMAIN delivered
    BY <2>1
  <2>4. delivered'[i].packet.number < delivered'[j].packet.number
    BY DEF DeliveredInOrder
  <2>5. CASE j \in DOMAIN delivered
    BY <1>3, <2>1, <2>3, <2>4, <2>5
  <2>6. CASE j = l + 1
    <3> DEFINE c == delivered[i]
    <3>1. delivered'[i] = c /\ delivered'[j] = d
      BY <2>1, <2>3, <2>6
    <3>2. /\ Key(d) \in DOMAIN sinkTable /\ sinkTable[Key(d)] = d.child
      BY <1>6, GivenServed DEF ChildrenAreKept
    <3>3. ServedBy(c)
      BY <2>3 DEF ChildrenAreKept, AllServed
    <3>4. SameStream(c.packet, d.packet) => Key(c) = Key(d)
      BY DEF SameStream, Key
    <3>5. config.demux # "merge" => config.demux = "noop"
      BY DEF NamesStay
    <3>6. d.child = c.child => SameStream(c.packet, d.packet)
      BY <3>2, <3>3, <3>5 DEF ServedBy, SameStream, Key
    <3>7. (SameStream(c.packet, d.packet) /\ c.child # d.child)
             => ~ pipe[Out(c.child)].open
      BY <3>2, <3>3, <3>4 DEF ServedBy
    <3> HIDE DEF c
    <3> QED
      BY <2>4, <3>1, <3>6, <3>7
  <2> QED
    BY <2>1, <2>5, <2>6
<1> QED
  BY <1>2, <1>5, <1>6, GivenFacts

-----------------------------------------------------------------------------
(* The start.                                                              *)

\* Two sequences of known lengths after each other.
LEMMA CatParts ==
    ASSUME NEW S, NEW a \in Seq(S), NEW b \in Seq(S), NEW m, NEW n,
           Len(a) = m, Len(b) = n
    PROVE  /\ Cat(a, b) \in Seq(S) /\ Len(Cat(a, b)) = m + n
           /\ \A i \in 1..m : Cat(a, b)[i] = a[i]
           /\ \A i \in 1..n : Cat(a, b)[m + i] = b[i]
<1>1. Cat(a, b) \in Seq(S) /\ Len(Cat(a, b)) = Len(a) + Len(b)
  BY CatFacts, Zenon
<1>2. \A i \in 1..Len(a) : Cat(a, b)[i] = a[i]
  BY CatFacts, Zenon
<1>3. \A i \in 1..Len(b) : Cat(a, b)[Len(a) + i] = b[i]
  BY CatSecond
<1> QED
  BY <1>1, <1>2, <1>3, Zenon

\* What is watched at the start: stdin, the router, the child of -i.
LEMMA StartFacts ==
    ASSUME NEW o \in Config
    PROVE  LET w == o.watched
               r == IF o.router THEN 1 ELSE 0
               c == IF o.immediate THEN 1 ELSE 0
               s == Start(o)
           IN  /\ w \in Nat /\ Len(s) = w + r + c /\ w + r + c <= Streams
               /\ s \in Seq({Stdin, RouterFd, Out(1)})
               /\ \A i \in 1..Len(s) :
                     s[i] = IF i <= w THEN Stdin
                            ELSE IF o.router /\ i = w + 1 THEN RouterFd ELSE Out(1)
<1> DEFINE w == o.watched
           D == {Stdin, RouterFd, Out(1)}
           a == [k \in 1..w |-> Stdin]
           b == IF o.router THEN <<RouterFd>> ELSE <<>>
           d == IF o.immediate THEN <<Out(1)>> ELSE <<>>
           r == IF o.router THEN 1 ELSE 0
           c == IF o.immediate THEN 1 ELSE 0
           ab == Cat(a, b)
           s == Cat(ab, d)
<1>1. Start(o) = s
  BY DEF Start, Cat
<1>2. w \in Nat /\ w + r + c <= Streams /\ r \in Nat /\ c \in Nat /\ r <= 1 /\ c <= 1
  <2>1. w \in Nat
    BY NodeConstants
  <2>2. w + r + c <= Streams
    BY NodeAssumption
  <2>3. r \in Nat /\ c \in Nat /\ r <= 1 /\ c <= 1
    OBVIOUS
  <2> QED
    BY <2>1, <2>2, <2>3
<1>3. a \in Seq(D) /\ Len(a) = w /\ \A i \in 1..w : a[i] = Stdin
  BY <1>2
<1>4. b \in Seq(D) /\ Len(b) = r /\ \A i \in 1..r : b[i] = RouterFd
  <2>1. CASE o.router
    BY <2>1
  <2>2. CASE ~ o.router
    BY <2>2
  <2> QED
    BY <2>1, <2>2
<1>5. d \in Seq(D) /\ Len(d) = c /\ \A i \in 1..c : d[i] = Out(1)
  <2>1. CASE o.immediate
    <3>1. Out(1) \in D
      OBVIOUS
    <3> HIDE DEF D
    <3> QED
      BY <2>1, <3>1
  <2>2. CASE ~ o.immediate
    BY <2>2
  <2> QED
    BY <2>1, <2>2
<1>6. r = 1 <=> o.router
  OBVIOUS
<1> HIDE DEF a, b, d, w, r, c, D
<1>7. /\ ab \in Seq(D) /\ Len(ab) = w + r
      /\ \A i \in 1..w : ab[i] = a[i]
      /\ \A i \in 1..r : ab[w + i] = b[i]
  <2>1. a \in Seq(D) /\ b \in Seq(D) /\ Len(a) = w /\ Len(b) = r
    BY <1>3, <1>4
  <2> QED
    BY <2>1, CatParts, SMTT(30)
<1> HIDE DEF ab
<1>10. /\ s \in Seq(D) /\ Len(s) = (w + r) + c
       /\ \A i \in 1..(w + r) : s[i] = ab[i]
       /\ \A i \in 1..c : s[(w + r) + i] = d[i]
  <2>1. ab \in Seq(D) /\ d \in Seq(D) /\ Len(ab) = w + r /\ Len(d) = c
    BY <1>5, <1>7
  <2> DEFINE n == w + r
  <2>2. Len(ab) = n
    BY <2>1
  <2> HIDE DEF n
  <2>3. /\ Cat(ab, d) \in Seq(D) /\ Len(Cat(ab, d)) = n + c
        /\ \A i \in 1..n : Cat(ab, d)[i] = ab[i]
        /\ \A i \in 1..c : Cat(ab, d)[n + i] = d[i]
    BY <2>1, <2>2, CatParts, SMTT(30)
  <2> QED
    BY <2>3 DEF n
<1> HIDE DEF s
<1>13. ASSUME NEW i \in 1..(w + r + c)
       PROVE  s[i] = IF i <= w THEN Stdin
                     ELSE IF o.router /\ i = w + 1 THEN RouterFd ELSE Out(1)
  <2>1. CASE i <= w
    <3>1. i \in 1..w /\ i \in 1..(w + r)
      BY <1>2, <2>1
    <3> QED
      BY <1>3, <1>7, <1>10, <2>1, <3>1
  <2>2. CASE w < i /\ i <= w + r
    <3>1. r = 1 /\ i = w + 1 /\ 1 \in 1..r /\ i \in 1..(w + r) /\ ~ (i <= w)
      BY <1>2, <2>2
    <3> QED
      BY <1>4, <1>6, <1>7, <1>10, <3>1
  <2>3. CASE w + r < i
    <3>1. c = 1 /\ i = (w + r) + 1 /\ 1 \in 1..c /\ ~ (i <= w)
          /\ (o.router => i # w + 1)
      BY <1>2, <1>6, <2>3
    <3> QED
      BY <1>5, <1>10, <3>1
  <2> QED
    BY <1>2, <2>1, <2>2, <2>3
<1> QED
  BY <1>1, <1>2, <1>10, <1>13 DEF w, r, c, D

\* The slots at the start.
LEMMA FirstSlots ==
    ASSUME NodeInit
    PROVE  /\ stream_fd \in [Slot -> {IgnoreFd, RouterFd} \cup Local]
           /\ SlotsAndSinks
<1> DEFINE o == config
           w == o.watched
           r == IF o.router THEN 1 ELSE 0
           c == IF o.immediate THEN 1 ELSE 0
           s == Start(o)
<1>1. /\ o \in Config /\ o.immediate \in BOOLEAN /\ o.router \in BOOLEAN
      /\ stream_fd = [i \in Slot |-> IF i <= Len(s) THEN s[i] ELSE IgnoreFd]
      /\ spawned = c
      /\ sinkTable = [x \in (IF o.immediate THEN {arg_address} ELSE {}) |-> 1]
  BY NodeConstants DEF NodeInit, Slot
<1>2. /\ w \in Nat /\ Len(s) = w + r + c /\ w + r + c <= Streams /\ s \in Seq(
            {Stdin, RouterFd, Out(1)})
      /\ \A i \in 1..Len(s) :
            s[i] = IF i <= w THEN Stdin
                   ELSE IF o.router /\ i = w + 1 THEN RouterFd ELSE Out(1)
  BY <1>1, StartFacts
<1>3. /\ 1 \in Child /\ Out(1) \in Local /\ Out(1) # IgnoreFd /\ Out(1) > RouterFd
      /\ Stdin \in Local /\ Stdin # IgnoreFd /\ Stdin # Out(1)
      /\ ~ (Stdin > RouterFd) /\ ~ (RouterFd > RouterFd) /\ ~ (IgnoreFd > RouterFd)
      /\ \A x \in Child : Out(x) = Out(1) => x = 1
      /\ \A x \in Child : Out(x) > RouterFd
  <2>1. MaxData \in Nat
    BY NodeConstants
  <2>2. 1 \in Child /\ \A x \in Child : x \in Nat /\ x > 0
    BY <2>1 DEF Child
  <2>3. Stdin \in Local /\ Out(1) \in Local
    BY <2>2 DEF Local
  <2> QED
    BY <2>2, <2>3 DEF Out, Stdin, RouterFd, IgnoreFd
<1>4. Slot \subseteq Nat /\ \A i \in Slot : i >= 1
  BY NodeConstants DEF Slot
<1>5. r \in {0, 1} /\ c \in {0, 1} /\ (r = 1 <=> o.router) /\ (c = 1 <=> o.immediate)
  OBVIOUS
<1> HIDE DEF o, w, r, c, s
<1>6. ASSUME NEW i \in Slot
      PROVE  /\ stream_fd[i] \in {IgnoreFd, RouterFd} \cup Local
             /\ stream_fd[i] \in {IgnoreFd, RouterFd, Stdin, Out(1)}
             /\ stream_fd[i] = Out(1) <=> (c = 1 /\ i = w + r + 1)
  <2>1. CASE i <= Len(s)
    <3>1. i \in 1..Len(s) /\ stream_fd[i] = s[i]
      BY <1>1, <1>2, <1>4, <1>5, <2>1
    <3>2. s[i] = IF i <= w THEN Stdin
                 ELSE IF o.router /\ i = w + 1 THEN RouterFd ELSE Out(1)
      BY <1>2, <3>1
    <3>3. RouterFd # Out(1)
      BY <1>3
    <3>4. s[i] = Out(1) <=> ~ (i <= w) /\ ~ (o.router /\ i = w + 1)
      BY <1>3, <3>2, <3>3
    <3>5. (~ (i <= w) /\ ~ (o.router /\ i = w + 1)) <=> (c = 1 /\ i = w + r + 1)
      BY <1>2, <1>4, <1>5, <2>1
    <3> QED
      BY <1>3, <3>1, <3>2, <3>4, <3>5
  <2>2. CASE ~ (i <= Len(s))
    <3>1. stream_fd[i] = IgnoreFd
      BY <1>1, <2>2
    <3>2. ~ (c = 1 /\ i = w + r + 1)
      BY <1>2, <1>4, <1>5, <2>2
    <3> QED
      BY <1>3, <3>1, <3>2
  <2> QED
    BY <2>1, <2>2
<1>7. stream_fd \in [Slot -> {IgnoreFd, RouterFd} \cup Local]
  BY <1>1, <1>6
<1>8. \A i \in Slot, x \in Child : stream_fd[i] = Out(x) => x <= spawned
  <2> SUFFICES ASSUME NEW i \in Slot, NEW x \in Child, stream_fd[i] = Out(x)
               PROVE  x <= spawned
    OBVIOUS
  <2>1. stream_fd[i] = Out(1)
    BY <1>3, <1>6
  <2>2. x = 1 /\ c = 1
    BY <1>3, <1>6, <2>1
  <2> QED
    BY <1>1, <2>2
<1>9. \A i, j \in Slot :
        (stream_fd[i] = stream_fd[j] /\ stream_fd[i] > RouterFd) => i = j
  <2> SUFFICES ASSUME NEW i \in Slot, NEW j \in Slot,
                      stream_fd[i] = stream_fd[j], stream_fd[i] > RouterFd
               PROVE  i = j
    OBVIOUS
  <2>1. stream_fd[i] = Out(1) /\ stream_fd[j] = Out(1)
    BY <1>3, <1>6
  <2> QED
    BY <1>6, <2>1
<1>10. \A a \in DOMAIN sinkTable : \E i \in Slot : stream_fd[i] = Out(sinkTable[a])
  <2> SUFFICES ASSUME NEW a \in DOMAIN sinkTable
               PROVE  \E i \in Slot : stream_fd[i] = Out(sinkTable[a])
    OBVIOUS
  <2>1. sinkTable[a] = 1 /\ c = 1
    BY <1>1, <1>5
  <2>2. w + r + 1 \in Slot
    BY <1>2, <1>5, <2>1, NodeConstants DEF Slot
  <2> QED
    BY <1>6, <2>1, <2>2
<1>11. \A a, b \in DOMAIN sinkTable : sinkTable[a] = sinkTable[b] => a = b
  BY <1>1
<1> QED
  BY <1>7, <1>8, <1>9, <1>10, <1>11 DEF SlotsAndSinks

\* The start has the invariant.
LEMMA NodeInvInit ==
    ASSUME NodeInit
    PROVE  NodeInv
<1>1. /\ config \in Config /\ pending = <<>> /\ fromRouter.packets = <<>>
      /\ delivered = <<>> /\ fate = "running" /\ sent = 0
      /\ forwarded = [fd \in Local |-> <<>>] /\ received = [fd \in Local |-> <<>>]
      /\ input_buffer = [fd \in Local |-> <<>>]
      /\ nextLocalAddress = 0 /\ arg_address = config.address
      /\ spawned \in {0, 1} /\ fromRouter.open = config.router
      /\ spawned = IF config.immediate THEN 1 ELSE 0
      /\ router_fd = IF config.router THEN RouterFd ELSE IgnoreFd
      /\ owed = IF ~ config.router THEN <<>>
                ELSE <<IF arg_address = 0 THEN Issued ELSE arg_address>>
      /\ sinkTable = [a \in (IF config.immediate THEN {arg_address} ELSE {}) |-> 1]
  BY DEF NodeInit
<1>2. /\ config.address \in {0} \cup Source /\ config.router \in BOOLEAN
      /\ config.immediate \in BOOLEAN
  BY <1>1, NodeConstants
<1>3. Types
  <2>1. arg_address \in {0} \cup Source
    BY <1>1, <1>2
  <2>2. /\ sinkTable \in [DOMAIN sinkTable -> 1..spawned]
        /\ DOMAIN sinkTable \subseteq {0} \cup Source
    BY <1>1, <2>1
  <2>3. pending \in Seq(Message) /\ delivered \in Seq([packet : Data, child : Child])
    BY <1>1
  <2>4. <<>> \in Seq(Nat) /\ <<>> \in Seq(Line) /\ <<>> \in Seq(Message)
    OBVIOUS
  <2>5. /\ input_buffer \in [Local -> Seq(Nat)] /\ received \in [Local -> Seq(Nat)]
        /\ forwarded \in [Local -> Seq(Line)]
    BY <1>1, <2>4
  <2>6. NodeTypes
    BY <1>1, <2>1, <2>2, <2>3, <2>5, FirstSlots DEF NodeTypes
  <2>7. owed \in Seq(Source)
    <3>1. (IF arg_address = 0 THEN Issued ELSE arg_address) \in Source
      BY <2>1, NodeConstants
    <3> QED
      BY <1>1, <3>1
  <2>8. fromRouter \in [packets : Seq(Message), open : BOOLEAN]
    <3>1. fromRouter = [packets |-> <<>>, open |-> config.router]
      BY DEF NodeInit
    <3> QED
      BY <1>2, <2>4, <3>1
  <2>9. pipe \in [Local -> [bytes : Seq(Nat), written : Nat, open : BOOLEAN]]
    <3>1. FlattenSeq(Script[Stdin]) \in Seq(Nat)
      <4>1. Script[Stdin] \in Seq(Seq(Nat))
        BY NodeConstants, Descriptors
      <4> QED
        BY <4>1, FlattenType
    <3> DEFINE B == Seq(Nat)
               flat == FlattenSeq(Script[Stdin])
    <3>2. flat \in B /\ <<>> \in B
      BY <2>4, <3>1
    <3>3. pipe = [fd \in Local |->
                    [bytes |-> IF fd = Stdin /\ config.input = "file"
                               THEN flat ELSE <<>>,
                     written |-> 0,
                     open |-> fd # Stdin \/ config.input = "pipe"]]
      BY DEF NodeInit
    <3> HIDE DEF B, flat
    <3>4. \A fd \in Local :
            [bytes |-> IF fd = Stdin /\ config.input = "file" THEN flat ELSE <<>>,
             written |-> 0,
             open |-> fd # Stdin \/ config.input = "pipe"]
                \in [bytes : B, written : Nat, open : BOOLEAN]
      BY <3>2
    <3>5. pipe \in [Local -> [bytes : B, written : Nat, open : BOOLEAN]]
      BY <3>3, <3>4
    <3> QED
      BY <3>5 DEF B
  <2>10. sent \in 0..MaxData /\ spawned \in Nat
    BY <1>1, NodeConstants
  <2>11. OutsideTypes
    BY <2>3, <2>5, <2>7, <2>8, <2>9, <2>10 DEF OutsideTypes
  <2> QED
    BY <2>6, <2>11 DEF Types
<1>4. DataInOrder
  BY <1>1 DEF DataInOrder, Ordered, Ahead, Numbered, SpawnedBefore
<1>5. BuffersAreLines
  <2> SUFFICES ASSUME NEW fd \in Local
               PROVE  LineBuffer(PayloadsFrom(fd), input_buffer[fd], received[fd],
                                 Live(fd))
    BY <1>1 DEF BuffersAreLines
  <2>1. forwarded[fd] = <<>> /\ input_buffer[fd] = <<>> /\ received[fd] = <<>>
    BY <1>1
  <2>2. PayloadsFrom(fd) = <<>>
    BY <2>1 DEF PayloadsFrom
  <2>3. Cat(<<>>, <<>>) = <<>>
    <3>1. <<>> \in Seq(Nat)
      OBVIOUS
    <3> QED
      BY <3>1, CatNothing
  <2>4. Len(<<>>) = 0 /\ 0 <= Capacity - Mtu /\ 2..0 = {} /\ DOMAIN <<>> = {}
    BY NodeConstants
  <2> QED
    BY <2>1, <2>2, <2>3, <2>4, FlattenEmpty DEF LineBuffer, SentShape
<1>6. Addresses
  BY <1>1, <1>2 DEF Addresses, KeepSource
<1>7. DeliveredInOrder /\ AllServed /\ OneChildPerStream
  BY <1>1 DEF DeliveredInOrder, GivenBefore, AllServed, OneChildPerStream
<1>8. OnlyLongLinesOverflow
  BY <1>1 DEF OnlyLongLinesOverflow
<1> QED
  BY <1>3, <1>4, <1>5, <1>6, <1>7, <1>8, FirstSlots DEF NodeInv, ChildrenAreKept

-----------------------------------------------------------------------------
(* The theorems.                                                           *)

\* Every step keeps the invariant, and so does none at all.
LEMMA NodeInvStep ==
    ASSUME NodeInv, [NodeNext]_nodeVars
    PROVE  NodeInv'
<1>1. /\ Types /\ DataInOrder /\ SlotsAndSinks /\ BuffersAreLines
      /\ Addresses /\ DeliveredInOrder /\ AllServed
      /\ OnlyLongLinesOverflow /\ OneChildPerStream
  BY DEF NodeInv, ChildrenAreKept
<1>2. CASE NodeNext
  <2>1. Types' /\ DataInOrder' /\ SlotsAndSinks' /\ BuffersAreLines'
    BY <1>1, <1>2, TypesStep, DataInOrderStep, SlotsAndSinksStep, BuffersAreLinesStep
  <2>2. Addresses' /\ DeliveredInOrder' /\ AllServed'
    BY <1>1, <1>2, AddressesStep, DeliveredInOrderStep, AllServedStep
  <2>3. OnlyLongLinesOverflow' /\ OneChildPerStream'
    BY <1>1, <1>2, <2>2, OverflowStep, OneChildStep DEF ChildrenAreKept
  <2> QED
    BY <2>1, <2>2, <2>3 DEF NodeInv, ChildrenAreKept
<1>3. CASE UNCHANGED nodeVars
  <2> USE <1>1, <1>3 DEF nodeVars, node, outside, history
  <2>1. Types'
    BY DEF Types, NodeTypes, OutsideTypes
  <2>2. DataInOrder'
    BY DEF DataInOrder, Ordered, Ahead, Numbered, SpawnedBefore, HasSink, Stream
  <2>3. SlotsAndSinks'
    BY DEF SlotsAndSinks
  <2>4. BuffersAreLines'
    <3>1. \A fd \in Local : PayloadsFrom(fd)' = PayloadsFrom(fd) /\ Live(fd)' = Live(fd)
      BY DEF PayloadsFrom, Live, Watched
    <3> QED
      BY <3>1 DEF BuffersAreLines, LineBuffer, SentShape, LineShape, Starts, Delimits
  <2>5. Addresses'
    BY DEF Addresses, KeepSource
  <2>6. DeliveredInOrder'
    BY DEF DeliveredInOrder, GivenBefore
  <2>7. AllServed'
    BY DEF AllServed, ServedBy, Key, NamesStay
  <2>8. OnlyLongLinesOverflow'
    BY DEF OnlyLongLinesOverflow
  <2>9. OneChildPerStream'
    BY DEF OneChildPerStream, NamesStay, SameStream
  <2> QED
    BY <2>1, <2>2, <2>3, <2>4, <2>5, <2>6, <2>7, <2>8, <2>9 DEF NodeInv, ChildrenAreKept
<1> QED
  BY <1>2, <1>3

\* The invariant has the children that serve streams watched, by one slot each.
LEMMA InvWatches ==
    ASSUME NodeInv
    PROVE  SinksAreWatched
<1>1. Types /\ DataInOrder /\ SlotsAndSinks /\ BuffersAreLines
  BY DEF NodeInv
<1>2. spawned \in {0} \cup Child
  <2>1. spawned \in Nat /\ spawned <= sent + 1 /\ sent \in 0..MaxData
    BY <1>1 DEF Types, OutsideTypes, DataInOrder
  <2> QED
    BY <2>1, NodeConstants DEF Child
<1>3. Range(sinkTable) \subseteq 1..spawned
  BY <1>1 DEF Types, NodeTypes, Range
<1>4. \A fd \in Local : Len(input_buffer[fd]) <= Capacity - Mtu
  BY <1>1 DEF BuffersAreLines, LineBuffer
<1>5. NodeTypeOK
  BY <1>1, <1>2, <1>3, <1>4 DEF NodeTypeOK, Types, NodeTypes, Slot
<1>6. ASSUME fate = "running", NEW a \in DOMAIN sinkTable
      PROVE  Cardinality({i \in 1..Streams : stream_fd[i] = Out(sinkTable[a])}) = 1
  <2> DEFINE S == {i \in 1..Streams : stream_fd[i] = Out(sinkTable[a])}
  <2>1. PICK i \in Slot : stream_fd[i] = Out(sinkTable[a])
    BY <1>1, <1>6 DEF SlotsAndSinks
  <2>2. Out(sinkTable[a]) > RouterFd
    <3>1. sinkTable[a] \in 1..spawned /\ spawned \in Nat
      BY <1>1 DEF Types, NodeTypes, OutsideTypes
    <3> QED
      BY <3>1 DEF Out, RouterFd
  <2>3. \A j \in S : j = i
    BY <1>1, <2>1, <2>2 DEF SlotsAndSinks, Slot
  <2>4. S = {i}
    BY <2>1, <2>3 DEF Slot
  <2>5. Cardinality({i}) = 1
    BY FS_Singleton
  <2> HIDE DEF S
  <2>6. Cardinality(S) = 1
    BY <2>4, <2>5
  <2> QED
    BY <2>6 DEF S
<1> QED
  BY <1>5, <1>6 DEF SinksAreWatched

\* What is sent are lines.
LEMMA InvSendsLines ==
    ASSUME NodeInv
    PROVE  PacketsAreLines
<1>1. Types /\ BuffersAreLines
  BY DEF NodeInv
<1> SUFFICES ASSUME NEW fd \in Local
             PROVE  LET sent_out == PayloadsFrom(fd)
                    IN  /\ (Watched(fd) /\ fate = "running") =>
                              FlattenSeq(sent_out) \o input_buffer[fd] = received[fd]
                        /\ \A k \in DOMAIN sent_out :
                              /\ sent_out[k] # <<>>
                              /\ k > 1 => sent_out[k][1] = config.delimiter
                              /\ \A i \in 2..Len(sent_out[k]) :
                                    sent_out[k][i] # config.delimiter
  BY DEF PacketsAreLines
<1> DEFINE out == PayloadsFrom(fd)
<1>2. LineBuffer(out, input_buffer[fd], received[fd], Live(fd))
  BY <1>1 DEF BuffersAreLines
<1>3. out \in Seq(Seq(Nat))
  BY <1>1, PayloadFacts
<1> HIDE DEF out
<1>4. Live(fd) => FlattenSeq(out) \o input_buffer[fd] = received[fd]
  BY <1>2 DEF LineBuffer, Cat
<1>5. ASSUME NEW k \in DOMAIN out
      PROVE  /\ out[k] # <<>>
             /\ k > 1 => out[k][1] = config.delimiter
             /\ \A i \in 2..Len(out[k]) : out[k][i] # config.delimiter
  <2>1. /\ LineShape(out[k]) /\ (k > 1 => Starts(out[k]))
        /\ out # <<>> => config.delimiter < 128
    BY <1>2 DEF LineBuffer, SentShape
  <2>2. out # <<>>
    BY <1>3
  <2> QED
    BY <2>1, <2>2 DEF LineShape, Starts, Delimits
<1> QED
  BY <1>4, <1>5 DEF out, Live

\* The node always has the invariant.
LEMMA NodeInvHolds == NodeSpec => []NodeInv
<1>1. NodeInit => NodeInv
  BY NodeInvInit
<1>2. NodeInv /\ [NodeNext]_nodeVars => NodeInv'
  BY NodeInvStep
<1> QED
  BY <1>1, <1>2, PTL DEF NodeSpec

(***************************************************************************)
(* The node of any command line keeps its types and its buffers their      *)
(* room, and every child that serves a stream is watched by exactly one    *)
(* slot of the poll table, though handleRemoteData fills the table of      *)
(* sinks and the poll loop empties it.                                     *)
(***************************************************************************)
THEOREM SinksStayWatched == NodeSpec => []SinksAreWatched
BY NodeInvHolds, InvWatches, PTL

(***************************************************************************)
(* The cursor of handleLocalData cuts a stream into packets at its         *)
(* delimiters and nowhere else, whatever the sizes of the reads are, and   *)
(* what it has sent and what it has kept are all that has been read.       *)
(***************************************************************************)
THEOREM LinesAreSentWhole == NodeSpec => []PacketsAreLines
BY NodeInvHolds, InvSendsLines, PTL

(***************************************************************************)
(* The emergency send of handleLocalData is reached, from a pipe, only by  *)
(* a line that leaves less than a read and an mtu of the buffer.           *)
(***************************************************************************)
THEOREM ShortLinesNeverOverflow == NodeSpec => []OnlyLongLinesOverflow
BY NodeInvHolds, PTL DEF NodeInv

(***************************************************************************)
(* handleRemoteData gives the data of a stream to one child, in the order  *)
(* the router sent it, and to another only when that has ended, as long as *)
(* applyDeMuxPolicy looks for the stream under one name: always with       *)
(* "noop", which gives a child one stream, and with "merge" on a node that *)
(* is started with an address.                                             *)
(***************************************************************************)
THEOREM StreamsHaveOneChild == NodeSpec => []OneChildPerStream
BY NodeInvHolds, PTL DEF NodeInv

=============================================================================
