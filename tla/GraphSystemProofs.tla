------------------------- MODULE GraphSystemProofs -------------------------
(***************************************************************************)
(* Proofs about the whole: for all nodes, links, lines, and sizes of the   *)
(* sockets, buffers and pipes, while the router runs no line is lost,      *)
(* doubled or overtaken on its way to a node that its own is linked to     *)
(* once, the whole stops only when nothing is between the processes or two *)
(* of them write to each other, and the router ends only where a node      *)
(* writes in bursts.                                                       *)
(***************************************************************************)
EXTENDS GraphSystem, StreamLemmas

-----------------------------------------------------------------------------
(* Blocks of which most are empty.                                         *)

\* Empty blocks make an empty stream.
LEMMA FlattenBlanks ==
    ASSUME NEW S, NEW ss \in Seq(Seq(S)), \A i \in 1..Len(ss) : ss[i] = <<>>
    PROVE  FlattenSeq(ss) = <<>>
<1> DEFINE Blank(u) == \A i \in 1..Len(u) : u[i] = <<>>
           T == {m \in Nat : \A u \in Seq(Seq(S)) :
                    Len(u) = m /\ Blank(u) => FlattenSeq(u) = <<>>}
<1>1. 0 \in T
  <2> SUFFICES ASSUME NEW u \in Seq(Seq(S)), Len(u) = 0
               PROVE  FlattenSeq(u) = <<>>
    OBVIOUS
  <2>1. u = <<>>
    OBVIOUS
  <2> QED
    BY <2>1, FlattenEmpty
<1>2. ASSUME NEW m \in Nat, m \in T
      PROVE  m + 1 \in T
  <2> SUFFICES ASSUME NEW u \in Seq(Seq(S)), Len(u) = m + 1, Blank(u)
               PROVE  FlattenSeq(u) = <<>>
    OBVIOUS
  <2>1. u # <<>>
    OBVIOUS
  <2>2. PICK v \in Seq(Seq(S)), x \in Seq(S) : u = Append(v, x)
    BY <2>1, SequenceEmptyOrAppend
  <2>3. Len(v) = m /\ x = u[m + 1] /\ \A i \in 1..m : v[i] = u[i]
    BY <2>2
  <2>4. x = <<>> /\ Blank(v)
    BY <2>3
  <2>5. FlattenSeq(v) = <<>>
    BY <1>2, <2>3, <2>4
  <2>6. FlattenSeq(u) = FlattenSeq(v) \o x
    BY <2>2, FlattenAppend
  <2> QED
    BY <2>4, <2>5, <2>6
<1> HIDE DEF T
<1>3. \A m \in Nat : m \in T
  BY <1>1, <1>2, SetInduction
<1>4. Len(ss) \in T
  BY <1>3
<1> QED
  BY <1>4 DEF T

\* A stream of one block is that block.
LEMMA FlattenSingle ==
    ASSUME NEW S, NEW x \in Seq(S)
    PROVE  FlattenSeq(<<x>>) = x
<1>1. <<>> \in Seq(Seq(S)) /\ <<x>> = Append(<<>>, x)
  OBVIOUS
<1>2. FlattenSeq(<<x>>) = FlattenSeq(<<>>) \o x
  BY <1>1, FlattenAppend
<1> QED
  BY <1>2, FlattenEmpty

\* One block among empty ones is the stream.
LEMMA FlattenOne ==
    ASSUME NEW S, NEW ss \in Seq(Seq(S)), NEW j \in 1..Len(ss),
           \A i \in 1..Len(ss) : i # j => ss[i] = <<>>
    PROVE  FlattenSeq(ss) = ss[j]
<1> DEFINE Q == Seq(S)
<1>0. ss \in Seq(Q) /\ j - 1 \in 0..Len(ss) /\ Len(ss) \in Nat /\ j \in Nat
  OBVIOUS
<1> DEFINE h == SubSeq(ss, 1, j - 1)
           t == SubSeq(ss, j - 1 + 1, Len(ss))
<1>1. /\ h \in Seq(Q) /\ Len(h) = j - 1 /\ t \in Seq(Q) /\ Len(t) = Len(ss) - (j - 1)
      /\ ss = Cat(h, t)
  <2> HIDE DEF Q
  <2> QED
    BY <1>0, CatSplit
<1>2. 1 \in 0..Len(t)
  BY <1>0, <1>1
<1> HIDE DEF h, t
<1> DEFINE a == SubSeq(t, 1, 1)
           b == SubSeq(t, 1 + 1, Len(t))
<1>3. a \in Seq(Q) /\ Len(a) = 1 /\ b \in Seq(Q) /\ Len(b) = Len(t) - 1 /\ t = Cat(a, b)
  <2> HIDE DEF Q
  <2> QED
    BY <1>1, <1>2, CatSplit
<1> HIDE DEF a, b
<1>4. \A i \in 1..Len(h) : h[i] = <<>>
  <2> SUFFICES ASSUME NEW i \in 1..Len(h)
               PROVE  h[i] = <<>>
    OBVIOUS
  <2>1. Cat(h, t)[i] = h[i]
    BY <1>1, CatElement
  <2>2. i \in 1..Len(ss) /\ i # j
    BY <1>0, <1>1
  <2> QED
    BY <1>1, <2>1, <2>2
<1>5. ASSUME NEW i \in 1..Len(t)
      PROVE  ss[j - 1 + i] = t[i]
  <2>1. \A k \in 1..Len(t) : Cat(h, t)[Len(h) + k] = t[k]
    <3> HIDE DEF Q
    <3>1. h \in Seq(Q) /\ t \in Seq(Q)
      BY <1>1
    <3> QED
      BY <3>1, CatSecond, Zenon
  <2> QED
    BY <1>1, <2>1
<1>6. \A i \in 1..Len(b) : b[i] = <<>>
  <2> SUFFICES ASSUME NEW i \in 1..Len(b)
               PROVE  b[i] = <<>>
    OBVIOUS
  <2>1. \A k \in 1..Len(b) : Cat(a, b)[Len(a) + k] = b[k]
    <3> HIDE DEF Q
    <3>1. a \in Seq(Q) /\ b \in Seq(Q)
      BY <1>3
    <3> QED
      BY <3>1, CatSecond, Zenon
  <2>2. Len(a) + i \in 1..Len(t) /\ j - 1 + (Len(a) + i) \in 1..Len(ss)
        /\ j - 1 + (Len(a) + i) # j
    BY <1>0, <1>1, <1>3
  <2>3. ss[j - 1 + (Len(a) + i)] = t[Len(a) + i]
    BY <1>5, <2>2
  <2> QED
    BY <1>3, <2>1, <2>2, <2>3
<1>7. a = <<ss[j]>> /\ ss[j] \in Q
  <2>1. Cat(a, b)[1] = a[1]
    <3> HIDE DEF Q
    <3>1. 1 \in 1..Len(a)
      BY <1>3
    <3>2. \A i \in 1..Len(a) : Cat(a, b)[i] = a[i]
      BY <1>3, CatElement
    <3> QED
      BY <3>1, <3>2
  <2>2. ss[j - 1 + 1] = t[1]
    <3>1. 1 \in 1..Len(t)
      BY <1>2
    <3> QED
      BY <1>5, <3>1
  <2>3. j - 1 + 1 = j
    BY <1>0
  <2>4. a[1] = ss[j]
    BY <1>3, <2>1, <2>2, <2>3
  <2> QED
    BY <1>3, <2>4
<1>8. FlattenSeq(h) = <<>> /\ FlattenSeq(b) = <<>>
  BY <1>1, <1>3, <1>4, <1>6, FlattenBlanks
<1>9. FlattenSeq(a) = ss[j]
  BY <1>7, FlattenSingle
<1>10. FlattenSeq(t) = FlattenSeq(a) \o FlattenSeq(b)
  BY <1>3, FlattenConcat DEF Cat
<1>11. FlattenSeq(ss) = FlattenSeq(h) \o FlattenSeq(t)
  BY <1>1, FlattenConcat DEF Cat
<1>12. FlattenSeq(t) = ss[j]
  BY <1>7, <1>8, <1>9, <1>10, ConcatEmptySeq
<1> QED
  BY <1>7, <1>8, <1>11, <1>12, ConcatEmptySeq

-----------------------------------------------------------------------------
(* Lines that move from the front of one sequence to the end of another.   *)

\* A sequence is its head and the rest.
LEMMA HeadFirst ==
    ASSUME NEW S, NEW y \in Seq(S), y # <<>>
    PROVE  Cat(<<Head(y)>>, Tail(y)) = y /\ Head(y) \in S /\ Tail(y) \in Seq(S)
BY HeadTailProperties DEF Cat

\* One of them.
LEMMA MoveOne ==
    ASSUME NEW S, NEW x \in Seq(S), NEW y \in Seq(S), y # <<>>
    PROVE  /\ Append(x, Head(y)) \in Seq(S) /\ Tail(y) \in Seq(S) /\ Head(y) \in S
           /\ Cat(Append(x, Head(y)), Tail(y)) = Cat(x, y)
<1> DEFINE e == Head(y)
           z == Tail(y)
<1>1. e \in S /\ z \in Seq(S) /\ y = <<e>> \o z
  BY HeadTailProperties
<1> HIDE DEF e, z
<1>2. <<e>> \in Seq(S) /\ Append(x, e) \in Seq(S)
  BY <1>1
<1>3. Append(x, e) = Cat(x, <<e>>)
  BY <1>1, AppendIsConcat DEF Cat
<1>4. y = Cat(<<e>>, z)
  BY <1>1 DEF Cat
<1>5. Cat(Cat(x, <<e>>), z) = Cat(x, Cat(<<e>>, z))
  <2> DEFINE one == <<e>>
  <2>1. one \in Seq(S)
    BY <1>2
  <2> HIDE DEF one
  <2>2. Cat(Cat(x, one), z) = Cat(x, Cat(one, z))
    BY <1>1, <2>1, CatAssociative
  <2> QED
    BY <2>2 DEF one
<1> QED
  BY <1>1, <1>2, <1>3, <1>4, <1>5 DEF e, z

\* The first k of them.
LEMMA CutAt ==
    ASSUME NEW S, NEW s \in Seq(S), NEW k \in DOMAIN s
    PROVE  /\ SubSeq(s, 1, k) \in Seq(S) /\ SubSeq(s, 1, k) # <<>>
           /\ SubSeq(s, k + 1, Len(s)) \in Seq(S)
           /\ s = Cat(SubSeq(s, 1, k), SubSeq(s, k + 1, Len(s)))
<1>1. k \in 0..Len(s) /\ k > 0
  OBVIOUS
<1>2. Len(SubSeq(s, 1, k)) = k
  BY <1>1, CatSplit
<1>3. SubSeq(s, 1, k) # <<>>
  BY <1>1, <1>2
<1> QED
  BY <1>1, <1>3, CatSplit

\* What a node has passed on, and what is behind it.
Three(g, c, w) == Cat(Cat(g, c), w)

\* A read from the socket,
LEMMA ThreeRead ==
    ASSUME NEW S, NEW g \in Seq(S), NEW a \in Seq(S), NEW b \in Seq(S)
    PROVE  Three(g, a, b) = Three(g, <<>>, Cat(a, b))
<1>1. Cat(Cat(g, a), b) = Cat(g, Cat(a, b))
  BY CatAssociative
<1>2. Cat(g, <<>>) = g
  BY CatNothing
<1> QED
  BY <1>1, <1>2 DEF Three

\* a line passed on,
LEMMA ThreePass ==
    ASSUME NEW S, NEW g \in Seq(S), NEW c \in Seq(S), NEW w, c # <<>>
    PROVE  Three(Append(g, Head(c)), Tail(c), w) = Three(g, c, w)
<1> DEFINE g1 == Append(g, Head(c))
           c1 == Tail(c)
<1>1. Cat(g1, c1) = Cat(g, c)
  BY MoveOne, Zenon
<1> QED
  BY <1>1 DEF Three

\* a line more in the socket.
LEMMA ThreeMore ==
    ASSUME NEW S, NEW g \in Seq(S), NEW c \in Seq(S), NEW w \in Seq(S), NEW x \in S
    PROVE  Three(g, c, Append(w, x)) = Cat(Three(g, c, w), <<x>>)
<1>1. <<x>> \in Seq(S) /\ Append(w, x) = Cat(w, <<x>>)
  BY AppendIsConcat DEF Cat
<1> DEFINE one == <<x>>
           gc == Cat(g, c)
<1>2. one \in Seq(S) /\ gc \in Seq(S)
  BY <1>1, CatType
<1> HIDE DEF one, gc
<1>3. Cat(gc, Cat(w, one)) = Cat(Cat(gc, w), one)
  BY <1>2, CatAssociative
<1> QED
  BY <1>1, <1>3 DEF Three, one, gc

\* The lines that the router has not handled.
Four(l, u, g, f) == Cat(Cat(Cat(l, u), g), f)

\* They are a sequence of lines.
LEMMA FourType ==
    ASSUME NEW S, NEW l \in Seq(S), NEW u \in Seq(S), NEW g \in Seq(S), NEW f \in Seq(S)
    PROVE  Four(l, u, g, f) \in Seq(S)
<1> DEFINE lu == Cat(l, u)
           lug == Cat(lu, g)
<1>1. lu \in Seq(S)
  BY CatType
<1> HIDE DEF lu
<1>2. lug \in Seq(S)
  BY <1>1, CatType
<1> HIDE DEF lug
<1>3. Cat(lug, f) \in Seq(S)
  BY <1>2, CatType
<1> QED
  BY <1>3 DEF Four, lu, lug

\* Lines read from stdin,
LEMMA FourFill ==
    ASSUME NEW S, NEW l \in Seq(S), NEW u \in Seq(S), NEW k \in Seq(S)
    PROVE  Four(l, u, k, <<>>) = Cat(Four(l, u, <<>>, <<>>), k)
<1> DEFINE lu == Cat(l, u)
<1>1. lu \in Seq(S)
  BY CatType
<1> HIDE DEF lu
<1>2. Cat(Cat(lu, k), <<>>) = Cat(lu, k)
  <2>1. Cat(lu, k) \in Seq(S)
    BY <1>1, CatType
  <2> QED
    BY <2>1, CatNothing
<1>3. Cat(lu, <<>>) = lu
  BY <1>1, CatNothing
<1> QED
  BY <1>2, <1>3 DEF Four, lu

\* or from the child,
LEMMA FourTake ==
    ASSUME NEW S, NEW l \in Seq(S), NEW u \in Seq(S), NEW a \in Seq(S), NEW b \in Seq(S)
    PROVE  Four(l, u, a, b) = Four(l, u, <<>>, Cat(a, b))
<1>1. Cat(l, u) \in Seq(S)
  BY CatType
<1>2. Three(Cat(l, u), a, b) = Three(Cat(l, u), <<>>, Cat(a, b))
  BY <1>1, ThreeRead
<1> QED
  BY <1>2 DEF Four, Three

\* a line written to the socket,
LEMMA FourWrite ==
    ASSUME NEW S, NEW l \in Seq(S), NEW u \in Seq(S), NEW g \in Seq(S), NEW f, g # <<>>
    PROVE  Four(l, Append(u, Head(g)), Tail(g), f) = Four(l, u, g, f)
<1> DEFINE u1 == Append(u, Head(g))
           g1 == Tail(g)
<1>1. /\ u1 \in Seq(S) /\ g1 \in Seq(S)
      /\ Cat(u1, g1) = Cat(u, g)
  BY MoveOne, Zenon
<1> HIDE DEF u1, g1
<1>2. Cat(Cat(l, u1), g1) = Cat(Cat(l, u), g)
  BY <1>1, CatAssociative
<1> QED
  BY <1>2 DEF Four, u1, g1

\* a line more from the child,
LEMMA FourMore ==
    ASSUME NEW S, NEW l \in Seq(S), NEW u \in Seq(S), NEW g \in Seq(S),
           NEW f \in Seq(S), NEW x \in S
    PROVE  Four(l, u, g, Append(f, x)) = Cat(Four(l, u, g, f), <<x>>)
<1>1. Cat(l, u) \in Seq(S)
  BY CatType
<1>2. Three(Cat(l, u), g, Append(f, x)) = Cat(Three(Cat(l, u), g, f), <<x>>)
  BY <1>1, ThreeMore
<1> QED
  BY <1>2 DEF Four, Three

\* and a packet handled: it comes from the buffer and what is read behind it,
LEMMA HandledFirst ==
    ASSUME NEW S, NEW l \in Seq(S), NEW a \in Seq(S), NEW b \in Seq(S),
           NEW one \in Seq(S), NEW r \in Seq(S), Cat(l, a) = Cat(one, r)
    PROVE  Cat(l, Cat(a, b)) = Cat(one, Cat(r, b))
<1>1. Cat(l, Cat(a, b)) = Cat(Cat(l, a), b)
  BY CatAssociative
<1>2. Cat(l, Cat(a, b)) = Cat(Cat(one, r), b)
  BY <1>1
<1> QED
  BY <1>2, CatAssociative

\* and the others stay behind it.
LEMMA FourBehind ==
    ASSUME NEW S, NEW r \in Seq(S), NEW b \in Seq(S), NEW g \in Seq(S),
           NEW f \in Seq(S), NEW one \in Seq(S)
    PROVE  Cat(Cat(Cat(one, Cat(r, b)), g), f) = Cat(one, Four(r, b, g, f))
<1> DEFINE rb == Cat(r, b)
           rbg == Cat(rb, g)
<1>1. rb \in Seq(S)
  BY CatType
<1>2. rbg \in Seq(S)
  <2> HIDE DEF rb
  <2> QED
    BY <1>1, CatType
<1>3. Cat(Cat(one, rb), g) = Cat(one, rbg)
  <2> HIDE DEF rb
  <2> QED
    BY <1>1, CatAssociative
<1>4. Cat(Cat(Cat(one, rb), g), f) = Cat(one, Cat(rbg, f))
  <2> HIDE DEF rbg
  <2> QED
    BY <1>2, <1>3, CatAssociative
<1> QED
  BY <1>4 DEF Four

-----------------------------------------------------------------------------
(* The lines of one node among others.                                     *)

\* One block for each line: itself or nothing.
Blocks(s, n) == [i \in DOMAIN s |-> IF s[i].of = n THEN <<s[i]>> ELSE <<>>]

\* What is of one node is a sequence of lines.
LEMMA BlocksType ==
    ASSUME NEW S, NEW s \in Seq(S), NEW n
    PROVE  /\ Blocks(s, n) \in Seq(Seq(S)) /\ Len(Blocks(s, n)) = Len(s)
           /\ Of(s, n) \in Seq(S)
<1>1. Len(s) \in Nat /\ DOMAIN s = 1..Len(s)
  OBVIOUS
<1>2. ASSUME NEW i \in 1..Len(s)
      PROVE  Blocks(s, n)[i] \in Seq(S)
  <2>1. Blocks(s, n)[i] = IF s[i].of = n THEN <<s[i]>> ELSE <<>>
    BY DEF Blocks
  <2>2. s[i] \in S
    OBVIOUS
  <2>3. <<s[i]>> \in Seq(S) /\ <<>> \in Seq(S)
    BY <2>2
  <2> QED
    BY <2>1, <2>3
<1>3. Blocks(s, n) \in [1..Len(s) -> Seq(S)]
  <2>1. Blocks(s, n) = [i \in 1..Len(s) |-> Blocks(s, n)[i]]
    BY <1>1 DEF Blocks
  <2> QED
    BY <1>2, <2>1, Zenon
<1>4. Blocks(s, n) \in Seq(Seq(S)) /\ Len(Blocks(s, n)) = Len(s)
  BY <1>1, <1>3, FunctionIsSeq
<1>5. Of(s, n) = FlattenSeq(Blocks(s, n))
  BY DEF Of, Blocks
<1> QED
  BY <1>4, <1>5, FlattenType

\* Of one line it is that line or nothing.
LEMMA OfOne ==
    ASSUME NEW S, NEW x \in S, NEW n
    PROVE  Of(<<x>>, n) = IF x.of = n THEN <<x>> ELSE <<>>
<1> DEFINE b == IF x.of = n THEN <<x>> ELSE <<>>
<1>1. b \in Seq(S)
  OBVIOUS
<1>2. Blocks(<<x>>, n) = <<b>>
  BY DEF Blocks
<1> HIDE DEF b
<1>3. Of(<<x>>, n) = FlattenSeq(<<b>>)
  BY <1>2 DEF Of, Blocks
<1>4. FlattenSeq(<<b>>) = b
  BY <1>1, FlattenSingle
<1> QED
  BY <1>3, <1>4 DEF b

\* Of lines behind lines, those of the first before those of the second.
LEMMA OfCat ==
    ASSUME NEW S, NEW s \in Seq(S), NEW t \in Seq(S), NEW n
    PROVE  Of(Cat(s, t), n) = Cat(Of(s, n), Of(t, n))
<1> DEFINE st == Cat(s, t)
           a == Blocks(s, n)
           b == Blocks(t, n)
           c == Blocks(st, n)
           Q == Seq(S)
<1>1. /\ st \in Seq(S) /\ Len(st) = Len(s) + Len(t)
      /\ \A i \in 1..Len(s) : st[i] = s[i]
      /\ \A i \in 1..Len(t) : st[Len(s) + i] = t[i]
      /\ Len(s) \in Nat /\ Len(t) \in Nat
  <2>1. Cat(s, t) \in Seq(S) /\ Len(Cat(s, t)) = Len(s) + Len(t)
    BY CatType, CatLength, Zenon
  <2>2. \A i \in 1..Len(s) : Cat(s, t)[i] = s[i]
    BY CatElement, Zenon
  <2>3. \A i \in 1..Len(t) : Cat(s, t)[Len(s) + i] = t[i]
    BY CatSecond, Zenon
  <2>4. Len(s) \in Nat /\ Len(t) \in Nat
    OBVIOUS
  <2> QED
    BY <2>1, <2>2, <2>3, <2>4, Zenon
<1>2. /\ a \in Seq(Q) /\ Len(a) = Len(s)
      /\ b \in Seq(Q) /\ Len(b) = Len(t)
      /\ c \in Seq(Q) /\ Len(c) = Len(st)
  BY <1>1, BlocksType
<1> HIDE DEF st
<1>3. /\ \A i \in 1..Len(s) : a[i] = IF s[i].of = n THEN <<s[i]>> ELSE <<>>
      /\ \A i \in 1..Len(t) : b[i] = IF t[i].of = n THEN <<t[i]>> ELSE <<>>
      /\ \A i \in 1..Len(st) : c[i] = IF st[i].of = n THEN <<st[i]>> ELSE <<>>
  BY <1>1 DEF Blocks
<1> HIDE DEF a, b, c, Q
<1>4. /\ Cat(a, b) \in Seq(Q) /\ Len(Cat(a, b)) = Len(a) + Len(b)
      /\ \A i \in 1..Len(a) : Cat(a, b)[i] = a[i]
      /\ \A i \in 1..Len(b) : Cat(a, b)[Len(a) + i] = b[i]
  <2>1. Cat(a, b) \in Seq(Q) /\ Len(Cat(a, b)) = Len(a) + Len(b)
    BY <1>2, CatType, CatLength, Zenon
  <2>2. \A i \in 1..Len(a) : Cat(a, b)[i] = a[i]
    BY <1>2, CatElement, Zenon
  <2>3. \A i \in 1..Len(b) : Cat(a, b)[Len(a) + i] = b[i]
    BY <1>2, CatSecond, Zenon
  <2> QED
    BY <2>1, <2>2, <2>3, Zenon
<1> DEFINE ab == Cat(a, b)
<1> HIDE DEF ab
<1>5. ASSUME NEW i \in 1..Len(c)
      PROVE  c[i] = ab[i]
  <2>1. CASE i \in 1..Len(s)
    <3>1. st[i] = s[i] /\ ab[i] = a[i]
      BY <1>1, <1>2, <1>4, <2>1 DEF ab
    <3>2. i \in 1..Len(st)
      BY <1>2
    <3> QED
      BY <1>3, <2>1, <3>1, <3>2
  <2>2. CASE i \notin 1..Len(s)
    <3>1. PICK j \in 1..Len(t) : i = Len(s) + j
      <4>1. i - Len(s) \in 1..Len(t) /\ i = Len(s) + (i - Len(s))
        BY <1>1, <1>2, <2>2
      <4> QED
        BY <4>1
    <3>2. st[i] = t[j] /\ ab[i] = b[j]
      BY <1>1, <1>2, <1>4, <3>1 DEF ab
    <3>3. i \in 1..Len(st)
      BY <1>2
    <3> QED
      BY <1>3, <3>1, <3>2, <3>3
  <2> QED
    BY <2>1, <2>2
<1>6. c = ab
  <2>1. ab \in Seq(Q) /\ Len(c) = Len(ab)
    BY <1>1, <1>2, <1>4 DEF ab
  <2> QED
    BY <1>2, <1>5, <2>1, SeqEqual
<1>7. FlattenSeq(c) = Cat(FlattenSeq(a), FlattenSeq(b))
  BY <1>2, <1>6, FlattenConcat DEF ab, Cat, Q
<1>8. /\ Of(s, n) = FlattenSeq(a) /\ Of(t, n) = FlattenSeq(b)
      /\ Of(st, n) = FlattenSeq(c)
  BY DEF Of, Blocks, a, b, c
<1> QED
  BY <1>7, <1>8 DEF st

\* The same for what handle_packet has still to write.
For(e, n, d) == [i \in DOMAIN e |->
    IF e[i].to = d /\ e[i].line.of = n THEN <<e[i].line>> ELSE <<>>]

\* It is a sequence of lines.
LEMMA ForType ==
    ASSUME NEW S, NEW C, \A c \in C : c.line \in S, NEW e \in Seq(C), NEW n, NEW d
    PROVE  /\ For(e, n, d) \in Seq(Seq(S)) /\ Len(For(e, n, d)) = Len(e)
           /\ FlattenSeq(For(e, n, d)) \in Seq(S)
<1>1. Len(e) \in Nat /\ DOMAIN e = 1..Len(e)
  OBVIOUS
<1>2. ASSUME NEW i \in 1..Len(e)
      PROVE  For(e, n, d)[i] \in Seq(S)
  <2>1. For(e, n, d)[i]
          = IF e[i].to = d /\ e[i].line.of = n THEN <<e[i].line>> ELSE <<>>
    BY DEF For
  <2>2. e[i].line \in S
    OBVIOUS
  <2>3. <<e[i].line>> \in Seq(S) /\ <<>> \in Seq(S)
    BY <2>2
  <2> QED
    BY <2>1, <2>3
<1>3. For(e, n, d) \in [1..Len(e) -> Seq(S)]
  <2>1. For(e, n, d) = [i \in 1..Len(e) |-> For(e, n, d)[i]]
    BY <1>1 DEF For
  <2> QED
    BY <1>2, <2>1, Zenon
<1>4. For(e, n, d) \in Seq(Seq(S)) /\ Len(For(e, n, d)) = Len(e)
  BY <1>1, <1>3, FunctionIsSeq
<1> QED
  BY <1>4, FlattenType

\* The copy at the head comes first.
LEMMA ForHead ==
    ASSUME NEW S, NEW C, \A c \in C : c.line \in S, NEW e \in Seq(C), e # <<>>, NEW n, NEW d
    PROVE  FlattenSeq(For(e, n, d)) =
              IF Head(e).to = d /\ Head(e).line.of = n
              THEN Cat(<<Head(e).line>>, FlattenSeq(For(Tail(e), n, d)))
              ELSE FlattenSeq(For(Tail(e), n, d))
<1> DEFINE h == Head(e)
           t == Tail(e)
           b == IF h.to = d /\ h.line.of = n THEN <<h.line>> ELSE <<>>
<1>1. /\ h \in C /\ t \in Seq(C) /\ h = e[1] /\ Len(t) = Len(e) - 1
      /\ \A i \in 1..Len(t) : t[i] = e[i + 1]
      /\ Len(e) \in Nat /\ Len(e) > 0
  OBVIOUS
<1> HIDE DEF h, t
<1>2. b \in Seq(S)
  BY <1>1
<1> DEFINE f == For(e, n, d)
           g == For(t, n, d)
           Q == Seq(S)
<1>3. f \in Seq(Q) /\ Len(f) = Len(e) /\ g \in Seq(Q) /\ Len(g) = Len(t)
      /\ FlattenSeq(g) \in Seq(S)
  <2>1. f \in Seq(Q) /\ Len(f) = Len(e)
    BY ForType, Zenon
  <2>2. g \in Seq(Q) /\ Len(g) = Len(t) /\ FlattenSeq(g) \in Seq(S)
    BY <1>1, ForType, Zenon
  <2> QED
    BY <2>1, <2>2
<1>4. f[1] = b /\ \A i \in 1..Len(t) : g[i] = f[i + 1]
  BY <1>1 DEF For
<1> HIDE DEF f, g, b, Q
<1> DEFINE bg == Cat(<<b>>, g)
<1>5. <<b>> \in Seq(Q) /\ Len(<<b>>) = 1 /\ <<b>>[1] = b
  BY <1>2 DEF Q
<1>6. /\ bg \in Seq(Q) /\ Len(bg) = 1 + Len(g)
      /\ bg[1] = b /\ \A i \in 1..Len(g) : bg[1 + i] = g[i]
  <2> DEFINE one == <<b>>
  <2>1. one \in Seq(Q) /\ Len(one) = 1 /\ one[1] = b
    BY <1>5
  <2> HIDE DEF one
  <2>2. /\ Cat(one, g) \in Seq(Q) /\ Len(Cat(one, g)) = Len(one) + Len(g)
        /\ \A i \in 1..Len(one) : Cat(one, g)[i] = one[i]
        /\ \A i \in 1..Len(g) : Cat(one, g)[Len(one) + i] = g[i]
    <3>1. Cat(one, g) \in Seq(Q) /\ Len(Cat(one, g)) = Len(one) + Len(g)
      BY <1>3, <2>1, CatType, CatLength, Zenon
    <3>2. \A i \in 1..Len(one) : Cat(one, g)[i] = one[i]
      BY <1>3, <2>1, CatElement, Zenon
    <3>3. \A i \in 1..Len(g) : Cat(one, g)[Len(one) + i] = g[i]
      BY <1>3, <2>1, CatSecond, Zenon
    <3> QED
      BY <3>1, <3>2, <3>3, Zenon
  <2>3. 1 \in 1..Len(one)
    BY <2>1
  <2>4. Cat(one, g)[1] = b
    BY <2>1, <2>2, <2>3
  <2> QED
    BY <2>1, <2>2, <2>4 DEF one
<1> HIDE DEF bg
<1>7. f = bg
  <2>1. Len(f) = Len(bg)
    BY <1>1, <1>3, <1>6
  <2>2. ASSUME NEW i \in 1..Len(f)
        PROVE  f[i] = bg[i]
    <3>1. CASE i = 1
      BY <1>4, <1>6, <3>1
    <3>2. CASE i # 1
      <4>1. PICK j \in 1..Len(g) : i = 1 + j
        <5>1. i - 1 \in 1..Len(g) /\ i = 1 + (i - 1)
          BY <1>1, <1>3, <3>2
        <5> QED
          BY <5>1
      <4>2. g[j] = f[j + 1] /\ j + 1 = 1 + j
        BY <1>3, <1>4
      <4> QED
        BY <1>6, <4>1, <4>2
    <3> QED
      BY <3>1, <3>2
  <2> QED
    BY <1>3, <1>6, <2>1, <2>2, SeqEqual
<1>8. FlattenSeq(bg) = Cat(FlattenSeq(<<b>>), FlattenSeq(g))
  BY <1>3, <1>5, FlattenConcat DEF bg, Cat, Q
<1>9. FlattenSeq(<<b>>) = b
  BY <1>2, FlattenSingle
<1>10. FlattenSeq(f) = Cat(b, FlattenSeq(g))
  BY <1>7, <1>8, <1>9
<1>11. Cat(<<>>, FlattenSeq(g)) = FlattenSeq(g)
  BY <1>3, CatNothing
<1> QED
  BY <1>10, <1>11 DEF f, g, b, h, t

-----------------------------------------------------------------------------
(* The inductive invariant.                                                *)

AnyLine == [of : Nodes, number : Nat]
OwnLine(n) == [of : {n}, number : Nat]
Copy == [to : Nodes, line : AnyLine]

Types ==
    /\ system \in System
    /\ read \in [Nodes -> Nat] /\ answered \in [Nodes -> Nat]
    /\ ready \in SUBSET Nodes
    /\ emitting \in Seq(Copy)
    /\ got \in [Nodes -> Seq(AnyLine)] /\ coming \in [Nodes -> Seq(AnyLine)]
    /\ downward \in [Nodes -> Seq(AnyLine)]
    /\ toChild \in [Nodes -> Seq(AnyLine)] /\ working \in [Nodes -> Seq(AnyLine)]
    /\ local \in [Nodes -> Seq(AnyLine)] /\ upward \in [Nodes -> Seq(AnyLine)]
    /\ going \in [Nodes -> Seq(AnyLine)] /\ fromChild \in [Nodes -> Seq(AnyLine)]

\* As far as the router, lines are with the node that they are from.
OwnLines ==
    \A n \in Nodes : /\ local[n] \in Seq(OwnLine(n)) /\ upward[n] \in Seq(OwnLine(n))
                     /\ going[n] \in Seq(OwnLine(n)) /\ fromChild[n] \in Seq(OwnLine(n))

OnlyFiltersHaveChildren ==
    \A n \in Nodes : ~ Filters(n) =>
        toChild[n] = <<>> /\ working[n] = <<>> /\ fromChild[n] = <<>>

SystemInv == Types /\ OwnLines /\ OnlyFiltersHaveChildren /\ KeepsLines

-----------------------------------------------------------------------------
(* Lines and links.                                                        *)

\* What is assumed of a system.
LEMMA SystemFacts ==
    ASSUME system \in System
    PROVE  /\ system.kind \in Seq(Kind)
           /\ system.edges \in [Nodes -> Seq(Nodes)]
           /\ system.lines \in [Nodes -> Nat]
           /\ Nodes \subseteq Nat
BY SystemAssumption DEF Nodes

\* Nodes are linked to nodes.
LEMMA LinkedNode ==
    ASSUME Types, NEW n \in Nodes, NEW i \in DOMAIN system.edges[n]
    PROVE  system.edges[n][i] \in Nodes
<1>1. system.edges \in [Nodes -> Seq(Nodes)]
  BY SystemFacts DEF Types
<1>2. system.edges[n] \in Seq(Nodes)
  BY <1>1
<1> QED
  BY <1>2, ElementOfSeq

\* The first b lines of n, and those behind them.
Numbers(n, b) == [k \in 1..b |-> Line(n, k)]

\* They are lines of n.
LEMMA NumbersType ==
    ASSUME NEW n, NEW b \in Nat
    PROVE  /\ Numbers(n, b) \in Seq(OwnLine(n)) /\ Len(Numbers(n, b)) = b
           /\ \A k \in 1..b : Numbers(n, b)[k] = Line(n, k)
<1>1. \A k \in 1..b : Line(n, k) \in OwnLine(n)
  BY DEF Line, OwnLine
<1> DEFINE O == OwnLine(n)
           s == Numbers(n, b)
<1>2. s = [k \in 1..b |-> Line(n, k)]
  BY DEF Numbers
<1> HIDE DEF O, s
<1>3. s \in [1..b -> O]
  BY <1>1, <1>2 DEF O
<1>4. s \in Seq(O) /\ Len(s) = b
  BY <1>3, FunctionIsSeq
<1> QED
  BY <1>2, <1>4 DEF O, s

\* Those that are read next continue them.
LEMMA NumbersCat ==
    ASSUME NEW n, NEW b \in Nat, NEW j \in Nat
    PROVE  LET more == [i \in 1..j |-> Line(n, b + i)]
           IN  /\ more \in Seq(OwnLine(n))
               /\ Cat(Numbers(n, b), more) = Numbers(n, b + j)
<1> DEFINE more == [i \in 1..j |-> Line(n, b + i)]
           O == OwnLine(n)
           first == Numbers(n, b)
           all == Numbers(n, b + j)
<1>1. \A k \in 1..j : Line(n, b + k) \in O
  BY DEF Line, OwnLine
<1> HIDE DEF O
<1>2. more \in [1..j -> O]
  BY <1>1
<1>3. more \in Seq(O) /\ Len(more) = j
  BY <1>2, FunctionIsSeq
<1>4. \A k \in 1..j : more[k] = Line(n, b + k)
  OBVIOUS
<1>5. /\ first \in Seq(O) /\ Len(first) = b /\ \A k \in 1..b : first[k] = Line(n, k)
      /\ all \in Seq(O) /\ Len(all) = b + j
      /\ \A k \in 1..b + j : all[k] = Line(n, k)
  BY NumbersType DEF O
<1> HIDE DEF more, first, all
<1> DEFINE c == Cat(first, more)
<1>6. c \in Seq(O) /\ Len(c) = b + j
  BY <1>3, <1>5, CatType, CatLength
<1>7. \A k \in 1..Len(first) : c[k] = first[k]
  BY <1>3, <1>5, CatElement, Zenon
<1>8. \A k \in 1..Len(more) : c[Len(first) + k] = more[k]
  <2>1. first \in Seq(O) /\ more \in Seq(O)
    BY <1>3, <1>5
  <2> QED
    BY <2>1, CatSecond, Zenon
<1> HIDE DEF c
<1>9. ASSUME NEW k \in 1..Len(c)
      PROVE  c[k] = all[k]
  <2>1. CASE k \in 1..b
    <3>1. k \in 1..b + j
      BY <1>6
    <3> QED
      BY <1>5, <1>7, <2>1, <3>1
  <2>2. CASE k \notin 1..b
    <3>1. PICK i \in 1..j : k = b + i
      <4>1. k - b \in 1..j /\ k = b + (k - b)
        BY <1>6, <2>2
      <4> QED
        BY <4>1
    <3>2. c[k] = more[i] /\ k \in 1..b + j
      BY <1>3, <1>5, <1>6, <1>8, <3>1
    <3> QED
      BY <1>4, <1>5, <3>1, <3>2
  <2> QED
    BY <2>1, <2>2
<1>10. c = all
  BY <1>5, <1>6, <1>9, SeqEqual
<1> QED
  BY <1>3, <1>10 DEF c, more, O, first, all

\* A packet is copied to each node that its source is linked to.
LEMMA CopiesFacts ==
    ASSUME system \in System, NEW p \in AnyLine
    PROVE  /\ Copies(p) \in Seq(Copy)
           /\ \A n, d : p.of # n => FlattenSeq(For(Copies(p), n, d)) = <<>>
           /\ \A i \in DOMAIN system.edges[p.of] : OnlyLink(p.of, i) =>
                 FlattenSeq(For(Copies(p), p.of, system.edges[p.of][i])) = <<p>>
<1> DEFINE e == system.edges[p.of]
           m == Len(e)
           copies == Copies(p)
<1>1. p.of \in Nodes /\ e \in Seq(Nodes) /\ m \in Nat /\ DOMAIN e = 1..m
  BY SystemFacts DEF AnyLine
<1>2. copies = [i \in 1..m |-> [to |-> e[i], line |-> p]]
  BY <1>1 DEF Copies
<1> HIDE DEF e, m, copies
<1>3. copies \in Seq(Copy) /\ Len(copies) = m /\ DOMAIN copies = 1..m
  <2>1. \A i \in 1..m : e[i] \in Nodes
    BY <1>1
  <2>2. \A i \in 1..m : [to |-> e[i], line |-> p] \in Copy
    BY <2>1 DEF Copy
  <2>3. copies \in [1..m -> Copy]
    BY <1>2, <2>2
  <2> QED
    BY <1>1, <2>3, FunctionIsSeq
<1>4. \A c \in Copy : c.line \in AnyLine
  BY DEF Copy
<1> DEFINE b(n, d) == For(copies, n, d)
           L == AnyLine
<1>5. ASSUME NEW n, NEW d
      PROVE  b(n, d) \in Seq(Seq(L)) /\ Len(b(n, d)) = m
  <2>1. For(copies, n, d) \in Seq(Seq(AnyLine)) /\ Len(For(copies, n, d)) = Len(copies)
    <3>1. copies \in Seq(Copy)
      BY <1>3
    <3> QED
      BY <1>4, <3>1, ForType
  <2> QED
    BY <1>3, <2>1
<1>6. ASSUME NEW n, NEW d, NEW i \in 1..m
      PROVE  b(n, d)[i] = IF e[i] = d /\ p.of = n THEN <<p>> ELSE <<>>
  <2>1. copies[i].to = e[i] /\ copies[i].line = p /\ i \in DOMAIN copies
    BY <1>2, <1>3
  <2> QED
    BY <2>1 DEF For
<1> HIDE DEF copies, L, b
<1>7. ASSUME NEW n, NEW d, p.of # n
      PROVE  FlattenSeq(b(n, d)) = <<>>
  <2>1. b(n, d) \in Seq(Seq(L)) /\ \A i \in 1..Len(b(n, d)) : b(n, d)[i] = <<>>
    BY <1>5, <1>6, <1>7
  <2> QED
    BY <2>1, FlattenBlanks
<1>8. ASSUME NEW i \in 1..m, OnlyLink(p.of, i)
      PROVE  FlattenSeq(b(p.of, e[i])) = <<p>>
  <2> DEFINE s == b(p.of, e[i])
  <2>1. s \in Seq(Seq(L)) /\ i \in 1..Len(s) /\ Len(s) = m
    BY <1>5
  <2>2. \A j \in 1..m : e[j] = e[i] => j = i
    BY <1>1, <1>8 DEF OnlyLink, e
  <2>3. \A j \in 1..m : s[j] = IF e[j] = e[i] /\ p.of = p.of THEN <<p>> ELSE <<>>
    BY <1>6
  <2>4. s[i] = <<p>> /\ \A j \in 1..m : j # i => s[j] = <<>>
    BY <2>2, <2>3
  <2> HIDE DEF s
  <2>5. FlattenSeq(s) = s[i]
    BY <2>1, <2>4, FlattenOne
  <2> QED
    BY <2>4, <2>5 DEF s
<1> QED
  BY <1>1, <1>3, <1>7, <1>8 DEF copies, b, e

-----------------------------------------------------------------------------
(* What the flow of lines rests on, in each step.                          *)

\* Everything of n on its way to d.
Total(n, d) == Cat(Cat(Of(Sent(d), n), CopiesFor(n, d)), Unhandled(n))

\* The parts in the terms of the lemmas above.
LEMMA Parts ==
    ASSUME Types, NEW n \in Nodes, NEW d \in Nodes
    PROVE  /\ Sent(d) = Three(got[d], coming[d], downward[d])
           /\ Unhandled(n) = Four(local[n], upward[n], going[n], fromChild[n])
           /\ CopiesFor(n, d) = FlattenSeq(For(emitting, n, d))
           /\ Sent(d) \in Seq(AnyLine) /\ Unhandled(n) \in Seq(AnyLine)
           /\ Of(Sent(d), n) \in Seq(AnyLine) /\ CopiesFor(n, d) \in Seq(AnyLine)
           /\ Cat(Of(Sent(d), n), CopiesFor(n, d)) \in Seq(AnyLine)
<1>1. Sent(d) = Three(got[d], coming[d], downward[d])
  BY DEF Sent, Three, Cat
<1>2. Unhandled(n) = Four(local[n], upward[n], going[n], fromChild[n])
  BY DEF Unhandled, Four, Cat
<1>3. CopiesFor(n, d) = FlattenSeq(For(emitting, n, d))
  BY DEF CopiesFor, For
<1> DEFINE L == AnyLine
<1>4. /\ got[d] \in Seq(L) /\ coming[d] \in Seq(L) /\ downward[d] \in Seq(L)
      /\ local[n] \in Seq(L) /\ upward[n] \in Seq(L)
      /\ going[n] \in Seq(L) /\ fromChild[n] \in Seq(L)
  BY DEF Types
<1>5. \A c \in Copy : c.line \in L
  BY DEF Copy
<1> HIDE DEF L
<1>6. Sent(d) \in Seq(L)
  <2> DEFINE gc == Cat(got[d], coming[d])
  <2>1. gc \in Seq(L)
    BY <1>4, CatType
  <2> HIDE DEF gc
  <2>2. Cat(gc, downward[d]) \in Seq(L)
    BY <1>4, <2>1, CatType
  <2> QED
    BY <1>1, <2>2 DEF Three, gc
<1>7. Unhandled(n) \in Seq(L)
  <2>1. Four(local[n], upward[n], going[n], fromChild[n]) \in Seq(L)
    BY <1>4, FourType, Zenon
  <2> QED
    BY <1>2, <2>1, Zenon
<1>8. Of(Sent(d), n) \in Seq(L)
  BY <1>6, BlocksType
<1>9. CopiesFor(n, d) \in Seq(L)
  <2>1. emitting \in Seq(Copy)
    BY DEF Types
  <2> QED
    BY <1>3, <1>5, <2>1, ForType
<1>10. Cat(Of(Sent(d), n), CopiesFor(n, d)) \in Seq(L)
  BY <1>8, <1>9, CatType
<1> QED
  BY <1>1, <1>2, <1>3, <1>6, <1>7, <1>8, <1>9, <1>10 DEF L

\* The invariant says that the total is what was begun.
Flows(n, d) == Total(n, d) = Numbers(n, Begun(n))

\* The invariant, in these terms.
LEMMA FlowForm ==
    KeepsLines <=>
        \A n \in Nodes : \A i \in DOMAIN system.edges[n] :
            OnlyLink(n, i) => Flows(n, system.edges[n][i])
BY DEF KeepsLines, Flows, Total, Numbers, Cat

\* A step from flow to flow.
LEMMA FlowStep ==
    ASSUME Types, KeepsLines, system' = system,
           \A n \in Nodes : \A i \in DOMAIN system.edges[n] :
               OnlyLink(n, i) /\ Flows(n, system.edges[n][i])
                   => Flows(n, system.edges[n][i])'
    PROVE  KeepsLines'
<1>1. KeepsLines' <=>
        \A n \in Nodes' : \A i \in DOMAIN system'.edges[n] :
            OnlyLink(n, i)' => Flows(n, system.edges[n][i])'
  BY DEF KeepsLines, Flows, Total, Numbers, Cat
<1> QED
  BY <1>1, FlowForm DEF Nodes, OnlyLink

\* The flow is kept where lines only move on,
LEMMA FlowKept ==
    ASSUME Types, KeepsLines, system' = system, emitting' = emitting,
           \A n \in Nodes : /\ Sent(n)' = Sent(n) /\ Unhandled(n)' = Unhandled(n)
                            /\ Begun(n)' = Begun(n)
    PROVE  KeepsLines'
<1> SUFFICES ASSUME NEW n \in Nodes, NEW i \in DOMAIN system.edges[n],
                    OnlyLink(n, i), Flows(n, system.edges[n][i])
             PROVE  Flows(n, system.edges[n][i])'
  BY FlowStep
<1>1. system.edges[n][i] \in Nodes
  BY LinkedNode
<1> QED
  BY <1>1 DEF Flows, Total, CopiesFor

\* and where new lines join behind those of their node.
LEMMA FlowAdded ==
    ASSUME Types, KeepsLines, system' = system, emitting' = emitting,
           NEW m \in Nodes, NEW j \in Nat, Begun(m) \in Nat,
           Unhandled(m)' = Cat(Unhandled(m), [k \in 1..j |-> Line(m, Begun(m) + k)]),
           Begun(m)' = Begun(m) + j,
           \A n \in Nodes : Sent(n)' = Sent(n),
           \A n \in Nodes : n # m => /\ Unhandled(n)' = Unhandled(n)
                                     /\ Begun(n)' = Begun(n)
    PROVE  KeepsLines'
<1> SUFFICES ASSUME NEW n \in Nodes, NEW i \in DOMAIN system.edges[n],
                    OnlyLink(n, i), Flows(n, system.edges[n][i])
             PROVE  Flows(n, system.edges[n][i])'
  BY FlowStep
<1> DEFINE d == system.edges[n][i]
<1>1. d \in Nodes
  BY LinkedNode
<1>2. CASE n # m
  BY <1>1, <1>2 DEF Flows, Total, CopiesFor
<1>3. CASE n = m
  <2> DEFINE more == [k \in 1..j |-> Line(m, Begun(m) + k)]
             front == Cat(Of(Sent(d), n), CopiesFor(n, d))
             L == AnyLine
  <2>1. front \in Seq(L) /\ Unhandled(n) \in Seq(L)
    BY <1>1, Parts
  <2>2. more \in Seq(L)
    <3>1. more \in Seq(OwnLine(m))
      BY NumbersCat
    <3>2. \A k \in 1..j : more[k] \in L
      BY DEF Line, AnyLine
    <3> QED
      BY <3>1, <3>2
  <2>3. Cat(Numbers(m, Begun(m)), more) = Numbers(m, Begun(m) + j)
    BY NumbersCat
  <2>4. Of(Sent(d), n)' = Of(Sent(d), n) /\ CopiesFor(n, d)' = CopiesFor(n, d)
    BY <1>1 DEF Of, CopiesFor
  <2>5. Total(n, d)' = Cat(front, Cat(Unhandled(n), more))
    BY <1>3, <2>4 DEF Total
  <2> HIDE DEF front, more, L
  <2>6. Total(n, d)' = Cat(Cat(front, Unhandled(n)), more)
    BY <2>1, <2>2, <2>5, CatAssociative
  <2>7. Total(n, d)' = Cat(Total(n, d), more)
    BY <2>6 DEF Total, front
  <2> QED
    BY <1>3, <2>3, <2>7 DEF Flows, Numbers
<1> QED
  BY <1>2, <1>3

-----------------------------------------------------------------------------
(* The steps of a node and its child.                                      *)

\* The parts with the values after the step.
LEMMA PartsAfter ==
    ASSUME NEW n, NEW d
    PROVE  /\ Sent(d)' = Three(got'[d], coming'[d], downward'[d])
           /\ Unhandled(n)' = Four(local'[n], upward'[n], going'[n], fromChild'[n])
           /\ CopiesFor(n, d)' = FlattenSeq(For(emitting', n, d))
BY DEF Sent, Three, Unhandled, Four, CopiesFor, For, Cat

\* The sequences of one node, as sequences.
LEMMA NodeTypes ==
    ASSUME Types, NEW n \in Nodes
    PROVE  /\ got[n] \in Seq(AnyLine) /\ coming[n] \in Seq(AnyLine)
           /\ downward[n] \in Seq(AnyLine)
           /\ local[n] \in Seq(AnyLine) /\ upward[n] \in Seq(AnyLine)
           /\ going[n] \in Seq(AnyLine) /\ fromChild[n] \in Seq(AnyLine)
           /\ toChild[n] \in Seq(AnyLine) /\ working[n] \in Seq(AnyLine)
           /\ read[n] \in Nat /\ answered[n] \in Nat
BY DEF Types

\* What a node's own lines may be kept as.
LEMMA OwnAreLines ==
    ASSUME NEW n \in Nodes, NEW s \in Seq(OwnLine(n))
    PROVE  s \in Seq(AnyLine)
<1>1. OwnLine(n) \subseteq AnyLine
  BY DEF OwnLine, AnyLine
<1> QED
  BY <1>1

\* Lines read from stdin are the next ones of their node.
LEMMA ReadStdinKeeps ==
    ASSUME SystemInv, NEW n \in Nodes, ReadStdin(n)
    PROVE  SystemInv'
<1> USE DEF SystemInv
<1>1. PICK j \in 1..(system.lines[n] - read[n]) :
         /\ read' = [read EXCEPT ![n] = read[n] + j]
         /\ going' = [going EXCEPT ![n] = [i \in 1..j |-> Line(n, read[n] + i)]]
  BY DEF ReadStdin
<1>2. /\ going[n] = <<>> /\ Inputs(n)
      /\ UNCHANGED <<system, upward, local, ready, emitting, downward, coming,
                     toChild, working, fromChild, got, answered>>
  BY DEF ReadStdin, Idle, StdinHasLines
<1>3. j \in Nat /\ read[n] \in Nat
  BY NodeTypes, SystemFacts DEF Types
<1> DEFINE more == [i \in 1..j |-> Line(n, read[n] + i)]
<1>4. more \in Seq(OwnLine(n)) /\ more \in Seq(AnyLine)
  <2>1. more \in Seq(OwnLine(n))
    BY <1>3, NumbersCat
  <2> QED
    BY <2>1, OwnAreLines
<1>5. ~ Filters(n) /\ fromChild[n] = <<>>
  BY <1>2 DEF Inputs, Filters, OnlyFiltersHaveChildren
<1> HIDE DEF more
<1>6. going' = [going EXCEPT ![n] = more]
  BY <1>1 DEF more
<1>7. Types'
  <2>1. read' \in [Nodes -> Nat]
    <3>1. read[n] + j \in Nat
      BY <1>3
    <3>2. read \in [Nodes -> Nat]
      BY DEF Types
    <3> QED
      BY <1>1, <3>1, <3>2
  <2>2. going' \in [Nodes -> Seq(AnyLine)]
    BY <1>4, <1>6 DEF Types
  <2> QED
    BY <1>2, <2>1, <2>2 DEF Types, AnyLine, Copy, Nodes
<1>8. OwnLines'
  <2>1. \A m \in Nodes : going'[m] = IF m = n THEN more ELSE going[m]
    BY <1>6 DEF Types
  <2> QED
    BY <1>2, <1>4, <2>1 DEF OwnLines, Nodes
<1>9. OnlyFiltersHaveChildren'
  BY <1>2 DEF OnlyFiltersHaveChildren, Nodes, Filters
<1>10. KeepsLines'
  <2>1. /\ Begun(n) = read[n] /\ Begun(n)' = read[n] + j
        /\ \A m \in Nodes : m # n => Begun(m)' = Begun(m)
    BY <1>1, <1>2, <1>3, <1>5 DEF Begun, Filters, Types
  <2>2. Unhandled(n)' = Cat(Unhandled(n), more)
    <3>1. /\ local[n] \in Seq(AnyLine) /\ upward[n] \in Seq(AnyLine)
          /\ going[n] \in Seq(AnyLine) /\ fromChild[n] \in Seq(AnyLine)
      BY NodeTypes
    <3>2. Four(local[n], upward[n], more, <<>>)
            = Cat(Four(local[n], upward[n], <<>>, <<>>), more)
      BY <1>4, <3>1, FourFill
    <3>3. going'[n] = more
      BY <1>6 DEF Types
    <3> QED
      BY <1>2, <1>5, <3>2, <3>3, Parts, PartsAfter
  <2>3. \A m \in Nodes : m # n => Unhandled(m)' = Unhandled(m)
    BY <1>2, <1>6 DEF Unhandled, Types
  <2>4. \A m \in Nodes : Sent(m)' = Sent(m)
    BY <1>2 DEF Sent
  <2>5. Unhandled(n)' = Cat(Unhandled(n), [k \in 1..j |-> Line(n, Begun(n) + k)])
    BY <2>1, <2>2 DEF more
  <2> QED
    BY <1>2, <1>3, <2>1, <2>3, <2>4, <2>5, FlowAdded
<1> QED
  BY <1>7, <1>8, <1>9, <1>10

\* What is read from the socket is what was next in it.
LEMMA ReadRouterKeeps ==
    ASSUME SystemInv, NEW n \in Nodes, ReadRouter(n)
    PROVE  SystemInv'
<1> USE DEF SystemInv
<1>1. PICK k \in DOMAIN downward[n] :
         /\ coming' = [coming EXCEPT ![n] = SubSeq(downward[n], 1, k)]
         /\ downward' = [downward EXCEPT ![n] =
                            SubSeq(downward[n], k + 1, Len(downward[n]))]
  BY DEF ReadRouter
<1>2. /\ coming[n] = <<>>
      /\ UNCHANGED <<system, read, going, upward, local, ready, emitting,
                     toChild, working, fromChild, got, answered>>
  BY DEF ReadRouter, Idle
<1> DEFINE a == SubSeq(downward[n], 1, k)
           b == SubSeq(downward[n], k + 1, Len(downward[n]))
           L == AnyLine
<1>3. a \in Seq(L) /\ b \in Seq(L) /\ downward[n] = Cat(a, b)
  <2>1. downward[n] \in Seq(L)
    BY NodeTypes
  <2> HIDE DEF L
  <2> QED
    BY <2>1, CutAt
<1> HIDE DEF a, b, L
<1>4. coming' = [coming EXCEPT ![n] = a] /\ downward' = [downward EXCEPT ![n] = b]
  BY <1>1 DEF a, b
<1>5. Types'
  <2>1. coming' \in [Nodes -> Seq(L)] /\ downward' \in [Nodes -> Seq(L)]
    BY <1>3, <1>4 DEF Types, L
  <2> QED
    BY <1>2, <2>1 DEF Types, AnyLine, Copy, Nodes, L
<1>6. OwnLines' /\ OnlyFiltersHaveChildren'
  BY <1>2 DEF OwnLines, OnlyFiltersHaveChildren, Nodes, Filters
<1>7. KeepsLines'
  <2>1. Sent(n)' = Sent(n)
    <3>1. Three(got[n], a, b) = Three(got[n], <<>>, Cat(a, b))
      <4>1. got[n] \in Seq(L)
        BY NodeTypes DEF L
      <4> QED
        BY <1>3, <4>1, ThreeRead
    <3>2. coming'[n] = a /\ downward'[n] = b
      BY <1>4 DEF Types
    <3> QED
      BY <1>2, <1>3, <3>1, <3>2, Parts, PartsAfter
  <2>2. \A m \in Nodes : m # n => Sent(m)' = Sent(m)
    BY <1>2, <1>4 DEF Sent, Types
  <2>3. \A m \in Nodes : Unhandled(m)' = Unhandled(m) /\ Begun(m)' = Begun(m)
    BY <1>2 DEF Unhandled, Begun, Filters
  <2> QED
    BY <1>2, <2>1, <2>2, <2>3, FlowKept
<1> QED
  BY <1>5, <1>6, <1>7

\* What is read from a child is behind what the node has to write: nothing.
LEMMA ReadChildKeeps ==
    ASSUME SystemInv, NEW n \in Nodes, ReadChild(n)
    PROVE  SystemInv'
<1> USE DEF SystemInv
<1>1. PICK k \in DOMAIN fromChild[n] :
         /\ going' = [going EXCEPT ![n] = SubSeq(fromChild[n], 1, k)]
         /\ fromChild' = [fromChild EXCEPT ![n] =
                            SubSeq(fromChild[n], k + 1, Len(fromChild[n]))]
  BY DEF ReadChild
<1>2. /\ going[n] = <<>>
      /\ UNCHANGED <<system, read, upward, local, ready, emitting, downward,
                     coming, toChild, working, got, answered>>
  BY DEF ReadChild, Idle
<1> DEFINE a == SubSeq(fromChild[n], 1, k)
           b == SubSeq(fromChild[n], k + 1, Len(fromChild[n]))
           O == OwnLine(n)
           L == AnyLine
<1>3. a \in Seq(O) /\ b \in Seq(O) /\ fromChild[n] = Cat(a, b)
  <2>1. fromChild[n] \in Seq(O)
    BY DEF OwnLines
  <2> HIDE DEF O
  <2> QED
    BY <2>1, CutAt
<1>4. a \in Seq(L) /\ b \in Seq(L)
  BY <1>3, OwnAreLines
<1> HIDE DEF a, b, L, O
<1>5. going' = [going EXCEPT ![n] = a] /\ fromChild' = [fromChild EXCEPT ![n] = b]
  BY <1>1 DEF a, b
<1>6. Types'
  <2>1. going' \in [Nodes -> Seq(L)] /\ fromChild' \in [Nodes -> Seq(L)]
    BY <1>4, <1>5 DEF Types, L
  <2> QED
    BY <1>2, <2>1 DEF Types, AnyLine, Copy, Nodes, L
<1>7. /\ going'[n] = a /\ fromChild'[n] = b
      /\ \A m \in Nodes : m # n => going'[m] = going[m] /\ fromChild'[m] = fromChild[m]
  BY <1>5 DEF Types
<1>8. OwnLines'
  BY <1>2, <1>3, <1>7 DEF OwnLines, Nodes, O
<1>9. OnlyFiltersHaveChildren'
  <2>1. Filters(n)
    BY <1>1 DEF OnlyFiltersHaveChildren
  <2> QED
    BY <1>2, <1>7, <2>1 DEF OnlyFiltersHaveChildren, Nodes, Filters
<1>10. KeepsLines'
  <2>1. Unhandled(n)' = Unhandled(n)
    <3>1. Four(local[n], upward[n], a, b) = Four(local[n], upward[n], <<>>, Cat(a, b))
      <4>1. local[n] \in Seq(L) /\ upward[n] \in Seq(L)
        BY NodeTypes DEF L
      <4> QED
        BY <1>4, <4>1, FourTake
    <3> QED
      BY <1>2, <1>3, <1>7, <3>1, Parts, PartsAfter
  <2>2. \A m \in Nodes : m # n => Unhandled(m)' = Unhandled(m)
    BY <1>2, <1>7 DEF Unhandled
  <2>3. \A m \in Nodes : Sent(m)' = Sent(m) /\ Begun(m)' = Begun(m)
    BY <1>2 DEF Sent, Begun, Filters
  <2> QED
    BY <1>2, <2>1, <2>2, <2>3, FlowKept
<1> QED
  BY <1>6, <1>8, <1>9, <1>10

\* A line written goes from the node to its socket.
LEMMA WriteRouterKeeps ==
    ASSUME SystemInv, NEW n \in Nodes, WriteRouter(n)
    PROVE  SystemInv'
<1> USE DEF SystemInv
<1> DEFINE a == Append(upward[n], Head(going[n]))
           b == Tail(going[n])
           O == OwnLine(n)
           L == AnyLine
<1>1. /\ going[n] # <<>>
      /\ upward' = [upward EXCEPT ![n] = a] /\ going' = [going EXCEPT ![n] = b]
      /\ UNCHANGED <<system, read, local, ready, emitting, downward, coming,
                     toChild, working, fromChild, got, answered>>
  BY DEF WriteRouter
<1>2. a \in Seq(O) /\ b \in Seq(O)
  <2>1. upward[n] \in Seq(O) /\ going[n] \in Seq(O)
    BY DEF OwnLines
  <2> HIDE DEF O
  <2> QED
    BY <1>1, <2>1, MoveOne, Zenon
<1>3. a \in Seq(L) /\ b \in Seq(L)
  <2> HIDE DEF a, b
  <2> QED
    BY <1>2, OwnAreLines
<1>4. Four(local[n], a, b, fromChild[n])
        = Four(local[n], upward[n], going[n], fromChild[n])
  BY <1>1, NodeTypes, FourWrite
<1> HIDE DEF a, b, L, O
<1>5. Types'
  <2>1. upward' \in [Nodes -> Seq(L)] /\ going' \in [Nodes -> Seq(L)]
    BY <1>1, <1>3 DEF Types, L
  <2> QED
    BY <1>1, <2>1 DEF Types, AnyLine, Copy, Nodes, L
<1>6. /\ upward'[n] = a /\ going'[n] = b
      /\ \A m \in Nodes : m # n => upward'[m] = upward[m] /\ going'[m] = going[m]
  BY <1>1 DEF Types
<1>7. OwnLines'
  BY <1>1, <1>2, <1>6 DEF OwnLines, Nodes, O
<1>8. OnlyFiltersHaveChildren'
  BY <1>1 DEF OnlyFiltersHaveChildren, Nodes, Filters
<1>9. KeepsLines'
  <2>1. Unhandled(n)' = Unhandled(n)
    BY <1>1, <1>4, <1>6, Parts, PartsAfter
  <2>2. \A m \in Nodes : m # n => Unhandled(m)' = Unhandled(m)
    BY <1>1, <1>6 DEF Unhandled
  <2>3. \A m \in Nodes : Sent(m)' = Sent(m) /\ Begun(m)' = Begun(m)
    BY <1>1 DEF Sent, Begun, Filters
  <2> QED
    BY <1>1, <2>1, <2>2, <2>3, FlowKept
<1> QED
  BY <1>5, <1>7, <1>8, <1>9

\* A packet passed on goes to the lines that the node has passed on.
LEMMA PassOnKeeps ==
    ASSUME SystemInv, NEW n \in Nodes, PassOn(n)
    PROVE  SystemInv'
<1> USE DEF SystemInv
<1> DEFINE h == Head(coming[n])
           a == Append(got[n], h)
           b == Tail(coming[n])
           c == Append(toChild[n], h)
           L == AnyLine
<1>1. /\ coming[n] # <<>>
      /\ toChild' = IF Filters(n) THEN [toChild EXCEPT ![n] = c] ELSE toChild
      /\ got' = [got EXCEPT ![n] = a] /\ coming' = [coming EXCEPT ![n] = b]
      /\ UNCHANGED <<system, read, going, upward, local, ready, emitting, downward,
                     working, fromChild, answered>>
  BY DEF PassOn
<1>2. a \in Seq(L) /\ b \in Seq(L) /\ c \in Seq(L)
  <2>1. got[n] \in Seq(L) /\ coming[n] \in Seq(L) /\ toChild[n] \in Seq(L)
    BY NodeTypes
  <2> HIDE DEF L
  <2>2. a \in Seq(L) /\ b \in Seq(L)
    BY <1>1, <2>1, MoveOne, Zenon
  <2>3. c \in Seq(L)
    BY <1>1, <2>1, MoveOne, Zenon
  <2> QED
    BY <2>2, <2>3
<1>3. Three(a, b, downward[n]) = Three(got[n], coming[n], downward[n])
  BY <1>1, NodeTypes, ThreePass
<1> HIDE DEF h, a, b, c, L
<1>4. Types'
  <2>1. /\ got' \in [Nodes -> Seq(L)] /\ coming' \in [Nodes -> Seq(L)]
        /\ toChild' \in [Nodes -> Seq(L)]
    BY <1>1, <1>2 DEF Types, L
  <2> QED
    BY <1>1, <2>1 DEF Types, AnyLine, Copy, Nodes, L
<1>5. OwnLines'
  BY <1>1 DEF OwnLines, Nodes
<1>6. OnlyFiltersHaveChildren'
  <2>1. \A m \in Nodes : ~ Filters(m) => toChild'[m] = toChild[m]
    BY <1>1 DEF Types
  <2> QED
    BY <1>1, <2>1 DEF OnlyFiltersHaveChildren, Nodes, Filters
<1>7. KeepsLines'
  <2>1. /\ got'[n] = a /\ coming'[n] = b
        /\ \A m \in Nodes : m # n => got'[m] = got[m] /\ coming'[m] = coming[m]
    BY <1>1 DEF Types
  <2>2. Sent(n)' = Sent(n)
    BY <1>1, <1>3, <2>1, Parts, PartsAfter
  <2>3. \A m \in Nodes : m # n => Sent(m)' = Sent(m)
    BY <1>1, <2>1 DEF Sent
  <2>4. \A m \in Nodes : Unhandled(m)' = Unhandled(m) /\ Begun(m)' = Begun(m)
    BY <1>1 DEF Unhandled, Begun, Filters
  <2> QED
    BY <1>1, <2>2, <2>3, <2>4, FlowKept
<1> QED
  BY <1>4, <1>5, <1>6, <1>7

\* A child reads: its lines are passed on already.
LEMMA ChildReadsKeeps ==
    ASSUME SystemInv, NEW n \in Nodes, ChildReads(n)
    PROVE  SystemInv'
<1> USE DEF SystemInv
<1> DEFINE a == <<Head(toChild[n])>>
           b == Tail(toChild[n])
           L == AnyLine
<1>1. /\ toChild[n] # <<>>
      /\ working' = [working EXCEPT ![n] = a] /\ toChild' = [toChild EXCEPT ![n] = b]
      /\ UNCHANGED <<system, read, going, upward, local, ready, emitting, downward,
                     coming, fromChild, got, answered>>
  BY DEF ChildReads
<1>2. a \in Seq(L) /\ b \in Seq(L)
  <2>1. toChild[n] \in Seq(L)
    BY NodeTypes
  <2> HIDE DEF L
  <2>2. Head(toChild[n]) \in L /\ Tail(toChild[n]) \in Seq(L)
    BY <1>1, <2>1, HeadTailProperties
  <2> QED
    BY <2>2
<1> HIDE DEF a, b, L
<1>3. Types'
  <2>1. working' \in [Nodes -> Seq(L)] /\ toChild' \in [Nodes -> Seq(L)]
    BY <1>1, <1>2 DEF Types, L
  <2> QED
    BY <1>1, <2>1 DEF Types, AnyLine, Copy, Nodes, L
<1>4. OwnLines'
  BY <1>1 DEF OwnLines, Nodes
<1>5. OnlyFiltersHaveChildren'
  <2>1. Filters(n)
    BY <1>1 DEF OnlyFiltersHaveChildren
  <2>2. \A m \in Nodes : m # n => working'[m] = working[m] /\ toChild'[m] = toChild[m]
    BY <1>1 DEF Types
  <2> QED
    BY <1>1, <2>1, <2>2 DEF OnlyFiltersHaveChildren, Nodes, Filters
<1>6. KeepsLines'
  <2>1. \A m \in Nodes : /\ Sent(m)' = Sent(m) /\ Unhandled(m)' = Unhandled(m)
                         /\ Begun(m)' = Begun(m)
    BY <1>1 DEF Sent, Unhandled, Begun, Filters
  <2> QED
    BY <1>1, <2>1, FlowKept
<1> QED
  BY <1>3, <1>4, <1>5, <1>6

\* An answer is the next line of a filter.
LEMMA ChildWritesKeeps ==
    ASSUME SystemInv, NEW n \in Nodes, ChildWrites(n)
    PROVE  SystemInv'
<1> USE DEF SystemInv
<1> DEFINE k == answered[n] + 1
           x == Line(n, k)
           a == Append(fromChild[n], x)
           O == OwnLine(n)
           L == AnyLine
<1>1. /\ working[n] # <<>>
      /\ answered' = [answered EXCEPT ![n] = k]
      /\ working' = [working EXCEPT ![n] = <<>>]
      /\ UNCHANGED <<system, read, going, upward, local, ready, emitting, downward,
                     coming, toChild, got>>
  BY DEF ChildWrites
<1>2. answered[n] \in Nat /\ k \in Nat /\ answered'[n] = k
  <2>1. answered \in [Nodes -> Nat]
    BY DEF Types
  <2>2. answered[n] \in Nat /\ answered'[n] = k
    BY <1>1, <2>1
  <2> QED
    BY <2>2
<1>3. fromChild' = [fromChild EXCEPT ![n] = a]
  BY <1>2 DEF ChildWrites
<1>4. x \in O /\ x \in L
  BY <1>2 DEF Line, OwnLine, AnyLine
<1>5. a \in Seq(O) /\ a \in Seq(L)
  <2>1. fromChild[n] \in Seq(O) /\ fromChild[n] \in Seq(L)
    BY NodeTypes DEF OwnLines
  <2> HIDE DEF O, L, x
  <2> QED
    BY <1>4, <2>1
<1>6. Filters(n)
  BY <1>1 DEF OnlyFiltersHaveChildren
<1>7. Four(local[n], upward[n], going[n], a)
        = Cat(Four(local[n], upward[n], going[n], fromChild[n]), <<x>>)
  <2>1. /\ local[n] \in Seq(L) /\ upward[n] \in Seq(L)
        /\ going[n] \in Seq(L) /\ fromChild[n] \in Seq(L)
    BY NodeTypes
  <2> HIDE DEF L, x
  <2> QED
    BY <1>4, <2>1, FourMore
<1> HIDE DEF a, L, O
<1>8. Types'
  <2>1. fromChild' \in [Nodes -> Seq(L)] /\ answered' \in [Nodes -> Nat]
    BY <1>1, <1>2, <1>3, <1>5 DEF Types, L
  <2>2. working' \in [Nodes -> Seq(L)]
    <3>1. <<>> \in Seq(L)
      OBVIOUS
    <3> QED
      BY <1>1, <3>1 DEF Types, L
  <2> QED
    BY <1>1, <2>1, <2>2 DEF Types, AnyLine, Copy, Nodes, L
<1>9. /\ fromChild'[n] = a
      /\ \A m \in Nodes : m # n => /\ fromChild'[m] = fromChild[m]
                                   /\ working'[m] = working[m]
                                   /\ answered'[m] = answered[m]
  BY <1>1, <1>3 DEF Types
<1>10. OwnLines'
  BY <1>1, <1>5, <1>9 DEF OwnLines, Nodes, O
<1>11. OnlyFiltersHaveChildren'
  BY <1>1, <1>6, <1>9 DEF OnlyFiltersHaveChildren, Nodes, Filters
<1>12. KeepsLines'
  <2>1. Begun(n) = answered[n] /\ Begun(n)' = Begun(n) + 1
    BY <1>1, <1>2, <1>6 DEF Begun, Filters
  <2>2. Unhandled(n)' = Cat(Unhandled(n), <<x>>)
    BY <1>1, <1>7, <1>9, Parts, PartsAfter
  <2>3. <<x>> = [i \in 1..1 |-> Line(n, Begun(n) + i)]
    BY <2>1
  <2>4. Unhandled(n)' = Cat(Unhandled(n), [i \in 1..1 |-> Line(n, Begun(n) + i)])
    BY <2>2, <2>3
  <2>5. \A m \in Nodes : m # n => /\ Unhandled(m)' = Unhandled(m)
                                  /\ Begun(m)' = Begun(m)
    BY <1>1, <1>9 DEF Unhandled, Begun, Filters
  <2>6. \A m \in Nodes : Sent(m)' = Sent(m)
    BY <1>1 DEF Sent
  <2>7. 1 \in Nat /\ Begun(n) \in Nat
    BY <1>2, <2>1
  <2> QED
    BY <1>1, <2>1, <2>4, <2>5, <2>6, <2>7, FlowAdded
<1> QED
  BY <1>8, <1>10, <1>11, <1>12

-----------------------------------------------------------------------------
(* The steps of the router.                                                *)

\* poll moves no line.
LEMMA PollKeeps ==
    ASSUME SystemInv, Poll
    PROVE  SystemInv'
<1> USE DEF SystemInv
<1>1. /\ ready' \in SUBSET Nodes
      /\ UNCHANGED <<system, read, going, upward, local, emitting, downward, coming,
                     toChild, working, fromChild, got, answered>>
  BY DEF Poll, Heard
<1>2. Types'
  BY <1>1 DEF Types, AnyLine, Copy, Nodes
<1>3. OwnLines' /\ OnlyFiltersHaveChildren'
  BY <1>1 DEF OwnLines, OnlyFiltersHaveChildren, Nodes, Filters
<1>4. KeepsLines'
  <2>1. \A m \in Nodes : /\ Sent(m)' = Sent(m) /\ Unhandled(m)' = Unhandled(m)
                         /\ Begun(m)' = Begun(m)
    BY <1>1 DEF Sent, Unhandled, Begun, Filters
  <2> QED
    BY <1>1, <2>1, FlowKept
<1> QED
  BY <1>2, <1>3, <1>4

\* One packet goes from its node to the copies that handle_packet has to write.
LEMMA ServeKeeps ==
    ASSUME SystemInv, NEW n \in Nodes, Serve(n)
    PROVE  SystemInv'
<1> USE DEF SystemInv
<1> DEFINE O == OwnLine(n)
           L == AnyLine
<1>1. PICK k \in DOMAIN upward[n] :
         LET handled == Handled(local[n] \o SubSeq(upward[n], 1, k))
         IN  /\ upward' = [upward EXCEPT ![n] =
                              SubSeq(upward[n], k + 1, Len(upward[n]))]
             /\ local' = [local EXCEPT ![n] = handled.rest]
             /\ emitting' = Copies(handled.packet)
  BY DEF Serve, Reads
<1>2. /\ emitting = <<>> /\ ready' = ready \ {n}
      /\ UNCHANGED <<system, read, going, downward, coming, toChild, working,
                     fromChild, got, answered>>
  BY DEF Serve, Reads
<1> DEFINE a == SubSeq(upward[n], 1, k)
           b == SubSeq(upward[n], k + 1, Len(upward[n]))
           bytes == Cat(local[n], a)
           p == Head(bytes)
           r == Tail(bytes)
<1>3. a \in Seq(O) /\ a # <<>> /\ b \in Seq(O) /\ upward[n] = Cat(a, b)
  <2>1. upward[n] \in Seq(O)
    BY DEF OwnLines
  <2> HIDE DEF O
  <2> QED
    BY <2>1, CutAt
<1>4. /\ upward' = [upward EXCEPT ![n] = b] /\ local' = [local EXCEPT ![n] = r]
      /\ emitting' = Copies(p)
  BY <1>1 DEF Handled, Cat
<1> HIDE DEF a, b
<1>5. bytes \in Seq(O) /\ bytes # <<>>
  <2>1. local[n] \in Seq(O)
    BY DEF OwnLines
  <2> HIDE DEF O
  <2>2. Cat(local[n], a) \in Seq(O) /\ Len(Cat(local[n], a)) = Len(local[n]) + Len(a)
    BY <1>3, <2>1, CatType, CatLength
  <2>3. Len(local[n]) \in Nat /\ Len(a) \in Nat /\ Len(a) # 0
    BY <1>3, <2>1
  <2> QED
    BY <2>2, <2>3
<1> HIDE DEF bytes
<1>6. p \in O /\ r \in Seq(O) /\ Cat(<<p>>, r) = bytes
  <2> HIDE DEF O
  <2> QED
    BY <1>5, HeadFirst
<1>7. p \in L /\ p.of = n
  BY <1>6 DEF OwnLine, AnyLine
<1>8. a \in Seq(L) /\ b \in Seq(L) /\ r \in Seq(L)
  <2> HIDE DEF p, r
  <2> QED
    BY <1>3, <1>6, OwnAreLines
<1> HIDE DEF p, r, O, L
<1>9. /\ upward'[n] = b /\ local'[n] = r
      /\ \A m \in Nodes : m # n => upward'[m] = upward[m] /\ local'[m] = local[m]
  BY <1>4 DEF Types
<1>10. system \in System
  BY DEF Types
<1>11. Types'
  <2>1. upward' \in [Nodes -> Seq(L)] /\ local' \in [Nodes -> Seq(L)]
    BY <1>4, <1>8 DEF Types, L
  <2>2. emitting' \in Seq(Copy)
    BY <1>4, <1>7, <1>10, CopiesFacts DEF L
  <2>3. ready' \in SUBSET Nodes
    BY <1>2 DEF Types
  <2> QED
    BY <1>2, <2>1, <2>2, <2>3 DEF Types, AnyLine, Copy, Nodes, L
<1>12. OwnLines'
  BY <1>2, <1>3, <1>6, <1>9 DEF OwnLines, Nodes, O
<1>13. OnlyFiltersHaveChildren'
  BY <1>2 DEF OnlyFiltersHaveChildren, Nodes, Filters
<1>14. Unhandled(n) = Cat(<<p>>, Unhandled(n)')
  <2>1. /\ local[n] \in Seq(L) /\ going[n] \in Seq(L) /\ fromChild[n] \in Seq(L)
    BY NodeTypes DEF L
  <2>2. Cat(local[n], a) = Cat(<<p>>, r)
    BY <1>6 DEF bytes
  <2>3. Four(local[n], Cat(a, b), going[n], fromChild[n])
          = Cat(<<p>>, Four(r, b, going[n], fromChild[n]))
    <3> DEFINE one == <<p>>
               l == local[n]
               g == going[n]
               f == fromChild[n]
    <3>1. l \in Seq(L) /\ g \in Seq(L) /\ f \in Seq(L) /\ Cat(l, a) = Cat(one, r)
      BY <2>1, <2>2
    <3>2. one \in Seq(L) /\ a \in Seq(L) /\ b \in Seq(L) /\ r \in Seq(L)
      BY <1>7, <1>8
    <3> HIDE DEF one, l, g, f
    <3>3. Cat(l, Cat(a, b)) = Cat(one, Cat(r, b))
      BY <3>1, <3>2, HandledFirst
    <3>4. Cat(Cat(Cat(one, Cat(r, b)), g), f) = Cat(one, Four(r, b, g, f))
      BY <3>1, <3>2, FourBehind
    <3> QED
      BY <3>3, <3>4 DEF one, l, g, f, Four
  <2> QED
    BY <1>2, <1>3, <1>9, <2>3, Parts, PartsAfter
<1>15. Unhandled(n)' \in Seq(L)
  <2>1. /\ r \in Seq(L) /\ b \in Seq(L) /\ going[n] \in Seq(L) /\ fromChild[n] \in Seq(L)
    BY <1>8, NodeTypes DEF L
  <2>2. Four(r, b, going[n], fromChild[n]) \in Seq(L)
    BY <2>1, FourType
  <2> QED
    BY <1>2, <1>9, <2>2, PartsAfter
<1>16. KeepsLines'
  <2> SUFFICES ASSUME NEW m \in Nodes, NEW i \in DOMAIN system.edges[m],
                      OnlyLink(m, i), Flows(m, system.edges[m][i])
               PROVE  Flows(m, system.edges[m][i])'
    BY <1>2, FlowStep
  <2> DEFINE d == system.edges[m][i]
             s == Of(Sent(d), m)
  <2>1. d \in Nodes
    BY LinkedNode
  <2>2. s \in Seq(L) /\ Of(Sent(d), m)' = s
    <3>1. s \in Seq(L)
      BY <2>1, Parts DEF L
    <3> QED
      BY <1>2, <3>1 DEF Of, Sent
  <2>3. CopiesFor(m, d) = <<>>
    <3>1. For(<<>>, m, d) = <<>>
      BY DEF For
    <3> QED
      BY <1>2, <2>1, <3>1, Parts, FlattenEmpty
  <2>4. Begun(m)' = Begun(m)
    BY <1>2 DEF Begun, Filters
  <2>5. CopiesFor(m, d)' = FlattenSeq(For(Copies(p), m, d))
    <3>1. CopiesFor(m, d)' = FlattenSeq(For(emitting', m, d))
      BY <1>2 DEF CopiesFor, For
    <3> QED
      BY <1>4, <3>1
  <2>6. Total(m, d) = Cat(s, Unhandled(m))
    <3>1. Cat(s, <<>>) = s
      BY <2>2, CatNothing
    <3> QED
      BY <2>3, <3>1 DEF Total
  <2>7. CASE m = n
    <3>1. CopiesFor(m, d)' = <<p>>
      BY <1>7, <1>10, <2>5, <2>7, CopiesFacts DEF L
    <3> DEFINE one == <<p>>
               u == Unhandled(n)'
    <3>2. one \in Seq(L) /\ u \in Seq(L)
      BY <1>7, <1>15
    <3> HIDE DEF one, u, s
    <3>3. Cat(Cat(s, one), u) = Cat(s, Cat(one, u))
      BY <2>2, <3>2, CatAssociative
    <3>4. Total(m, d)' = Cat(Cat(s, one), u)
      BY <2>2, <2>7, <3>1 DEF Total, one, u
    <3>5. Total(m, d)' = Total(m, d)
      BY <1>14, <2>6, <2>7, <3>3, <3>4 DEF one, u
    <3> QED
      BY <2>4, <3>5 DEF Flows
  <2>8. CASE m # n
    <3>1. CopiesFor(m, d)' = <<>>
      BY <1>7, <1>10, <2>5, <2>8, CopiesFacts DEF L
    <3>2. Unhandled(m)' = Unhandled(m)
      BY <1>2, <1>9, <2>8 DEF Unhandled
    <3>3. Total(m, d)' = Total(m, d)
      BY <2>2, <2>3, <3>1, <3>2 DEF Total
    <3> QED
      BY <2>4, <3>3 DEF Flows
  <2> QED
    BY <2>7, <2>8
<1> QED
  BY <1>11, <1>12, <1>13, <1>16

\* gnw_emitPacket: the line goes from handle_packet to the socket.
LEMMA EmitKeeps ==
    ASSUME SystemInv, Emit
    PROVE  SystemInv'
<1> USE DEF SystemInv
<1> DEFINE L == AnyLine
<1>1. /\ emitting # <<>>
      /\ downward' = [downward EXCEPT ![Head(emitting).to] =
                         Append(downward[Head(emitting).to], Head(emitting).line)]
      /\ emitting' = Tail(emitting)
      /\ UNCHANGED <<system, read, going, upward, local, ready, coming,
                     toChild, working, fromChild, got, answered>>
  BY DEF Emit
<1>2. emitting \in Seq(Copy) /\ Head(emitting) \in Copy /\ Tail(emitting) \in Seq(Copy)
  <2>1. emitting \in Seq(Copy)
    BY DEF Types
  <2> HIDE DEF L
  <2> QED
    BY <1>1, <2>1
<1>3. PICK t \in Nodes, x \in L : Head(emitting).to = t /\ Head(emitting).line = x
  BY <1>2 DEF Copy
<1> HIDE DEF L
<1>4. downward[t] \in Seq(L) /\ Append(downward[t], x) \in Seq(L)
  <2>1. downward[t] \in Seq(L)
    BY <1>3, NodeTypes DEF L
  <2> QED
    BY <1>3, <2>1
<1>10. PICK w \in Seq(L) : w = Append(downward[t], x)
  BY <1>4
<1>5. Types'
  <2>1. downward' \in [Nodes -> Seq(L)]
    BY <1>1, <1>3, <1>4 DEF Types, L
  <2>2. emitting' \in Seq(Copy)
    BY <1>1, <1>2
  <2> QED
    BY <1>1, <2>1, <2>2 DEF Types, AnyLine, Copy, Nodes, L
<1>6. OwnLines' /\ OnlyFiltersHaveChildren'
  BY <1>1 DEF OwnLines, OnlyFiltersHaveChildren, Nodes, Filters
<1>7. downward'[t] = w /\ \A m \in Nodes : m # t => downward'[m] = downward[m]
  BY <1>1, <1>3, <1>10 DEF Types
<1> DEFINE one == <<x>>
<1>8. one \in Seq(L)
  BY <1>3
<1>9. Sent(t)' = Cat(Sent(t), one) /\ \A m \in Nodes : m # t => Sent(m)' = Sent(m)
  <2>1. Three(got[t], coming[t], w) = Cat(Three(got[t], coming[t], downward[t]), <<x>>)
    <3>1. got[t] \in Seq(L) /\ coming[t] \in Seq(L) /\ downward[t] \in Seq(L)
      BY <1>3, NodeTypes DEF L
    <3> QED
      <4> DEFINE g == got[t]
                 c == coming[t]
                 v == downward[t]
      <4>1. g \in Seq(L) /\ c \in Seq(L) /\ v \in Seq(L) /\ x \in L
        BY <1>3, <3>1
      <4> HIDE DEF g, c, v
      <4>2. Three(g, c, Append(v, x)) = Cat(Three(g, c, v), <<x>>)
        BY <4>1, ThreeMore
      <4> QED
        BY <1>10, <4>2 DEF g, c, v
  <2>2. Sent(t) = Three(got[t], coming[t], downward[t])
    BY DEF Sent, Three, Cat
  <2>3. Sent(t)' = Three(got'[t], coming'[t], downward'[t])
    BY DEF Sent, Three, Cat
  <2>4. \A m \in Nodes : m # t => Sent(m)' = Sent(m)
    BY <1>1, <1>7 DEF Sent
  <2> QED
    <3>1. Sent(t)' = Three(got[t], coming[t], w)
      BY <1>1, <1>7, <2>3
    <3>2. Sent(t)' = Cat(Sent(t), <<x>>)
      BY <2>1, <2>2, <3>1
    <3> QED
      BY <2>4, <3>2
<1>11. KeepsLines'
  <2> SUFFICES ASSUME NEW n \in Nodes, NEW i \in DOMAIN system.edges[n],
                      OnlyLink(n, i), Flows(n, system.edges[n][i])
               PROVE  Flows(n, system.edges[n][i])'
    BY <1>1, FlowStep
  <2>1. PICK d \in Nodes : d = system.edges[n][i]
    BY LinkedNode
  <2> DEFINE s == Of(Sent(d), n)
             c == CopiesFor(n, d)
             u == Unhandled(n)
             tail == FlattenSeq(For(Tail(emitting), n, d))
  <2>2. u' = u /\ Begun(n)' = Begun(n)
    BY <1>1 DEF Unhandled, Begun, Filters
  <2>3. Sent(d) \in Seq(L) /\ s \in Seq(L) /\ u \in Seq(L) /\ c = FlattenSeq(For(emitting, n, d))
    BY Parts DEF L
  <2>4. c' = tail
    <3>1. c' = FlattenSeq(For(emitting', n, d))
      BY PartsAfter
    <3> QED
      BY <1>1, <3>1
  <2>5. \A k \in Copy : k.line \in L
    BY DEF Copy, L
  <2>6. tail \in Seq(L)
    BY <1>2, <2>5, ForType
  <2>7. c = IF t = d /\ x.of = n THEN Cat(one, tail) ELSE tail
    <3> HIDE DEF one
    <3>1. c = IF Head(emitting).to = d /\ Head(emitting).line.of = n
              THEN Cat(<<Head(emitting).line>>, tail) ELSE tail
      BY <1>1, <1>2, <2>3, <2>5, ForHead
    <3> QED
      BY <1>3, <3>1 DEF one
  <2>8. CASE t = d /\ x.of = n
    <3>1. Of(Sent(d), n)' = Cat(s, one)
      <4>1. Of(one, n) = one
        BY <1>3, <2>8, OfOne
      <4>2. Of(Sent(d), n)' = Of(Cat(Sent(d), one), n)
        BY <1>9, <2>8 DEF Of
      <4> HIDE DEF one
      <4>3. Of(Cat(Sent(d), one), n) = Cat(Of(Sent(d), n), Of(one, n))
        BY <1>8, <2>3, OfCat
      <4> QED
        BY <4>1, <4>2, <4>3
    <3> HIDE DEF s, c, u, tail, one
    <3>2. Cat(Cat(s, one), tail) = Cat(s, Cat(one, tail))
      BY <1>8, <2>3, <2>6, CatAssociative
    <3>3. Total(n, d)' = Total(n, d)
      BY <2>2, <2>4, <2>7, <2>8, <3>1, <3>2 DEF Total, s, c, u
    <3> QED
      BY <1>1, <2>1, <2>2, <3>3 DEF Flows
  <2>9. CASE ~ (t = d /\ x.of = n)
    <3>1. Of(Sent(d), n)' = s
      <4>1. CASE t # d
        <5>1. Sent(d)' = Sent(d)
          BY <1>9, <4>1
        <5> QED
          BY <5>1 DEF Of
      <4>2. CASE t = d
        <5>1. Of(one, n) = <<>>
          BY <1>3, <2>9, <4>2, OfOne
        <5>2. Of(Sent(d), n)' = Of(Cat(Sent(d), one), n)
          BY <1>9, <4>2 DEF Of
        <5> HIDE DEF one
        <5>3. Of(Cat(Sent(d), one), n) = Cat(Of(Sent(d), n), Of(one, n))
          BY <1>8, <2>3, OfCat
        <5>4. Cat(s, <<>>) = s
          <6> HIDE DEF s
          <6> QED
            BY <2>3, CatNothing
        <5> QED
          BY <5>1, <5>2, <5>3, <5>4
      <4> QED
        BY <4>1, <4>2
    <3>2. Total(n, d)' = Total(n, d)
      BY <2>2, <2>4, <2>7, <2>9, <3>1 DEF Total
    <3> QED
      BY <1>1, <2>1, <2>2, <3>2 DEF Flows
  <2> QED
    BY <2>8, <2>9
<1> QED
  BY <1>5, <1>6, <1>11

-----------------------------------------------------------------------------
(* The whole.                                                              *)

\* At first nothing was read and nothing is under way.
LEMMA SystemStarts ==
    ASSUME SystemInit
    PROVE  SystemInv
<1>1. /\ system \in System /\ ready = {} /\ emitting = <<>>
      /\ \A n \in Nodes : /\ read[n] = 0 /\ answered[n] = 0
                          /\ going[n] = <<>> /\ upward[n] = <<>> /\ local[n] = <<>>
                          /\ downward[n] = <<>> /\ coming[n] = <<>> /\ got[n] = <<>>
                          /\ toChild[n] = <<>> /\ working[n] = <<>>
                          /\ fromChild[n] = <<>>
  BY DEF SystemInit
<1>2. Types
  <2>1. [n \in Nodes |-> <<>>] \in [Nodes -> Seq(AnyLine)]
    <3> HIDE DEF AnyLine
    <3> QED
      OBVIOUS
  <2>2. [n \in Nodes |-> 0] \in [Nodes -> Nat]
    OBVIOUS
  <2>3. <<>> \in Seq(Copy)
    <3> HIDE DEF Copy
    <3> QED
      OBVIOUS
  <2> QED
    BY <2>1, <2>2, <2>3 DEF SystemInit, Types
<1>3. OwnLines
  <2>1. \A n \in Nodes : <<>> \in Seq(OwnLine(n))
    <3> HIDE DEF OwnLine
    <3> QED
      OBVIOUS
  <2> QED
    BY <1>1, <2>1 DEF OwnLines
<1>4. OnlyFiltersHaveChildren
  BY <1>1 DEF OnlyFiltersHaveChildren
<1>5. KeepsLines
  <2> SUFFICES ASSUME NEW n \in Nodes, NEW i \in DOMAIN system.edges[n]
               PROVE  Flows(n, system.edges[n][i])
    BY FlowForm
  <2>1. PICK d \in Nodes : d = system.edges[n][i]
    BY <1>2, LinkedNode
  <2>2. Cat(<<>>, <<>>) = <<>>
    BY DEF Cat
  <2>3. Sent(d) = <<>> /\ Unhandled(n) = <<>>
    <3>1. Three(<<>>, <<>>, <<>>) = <<>> /\ Four(<<>>, <<>>, <<>>, <<>>) = <<>>
      BY <2>2 DEF Three, Four
    <3>2. /\ Sent(d) = Three(got[d], coming[d], downward[d])
          /\ Unhandled(n) = Four(local[n], upward[n], going[n], fromChild[n])
      BY DEF Sent, Three, Unhandled, Four, Cat
    <3> QED
      BY <1>1, <3>1, <3>2
  <2>4. Of(Sent(d), n) = <<>> /\ CopiesFor(n, d) = <<>>
    <3>1. Blocks(<<>>, n) = <<>> /\ For(<<>>, n, d) = <<>>
      BY DEF Blocks, For
    <3>2. Of(<<>>, n) = <<>>
      BY <3>1, FlattenEmpty DEF Of, Blocks
    <3> QED
      BY <1>1, <1>2, <2>3, <3>1, <3>2, Parts, FlattenEmpty
  <2>5. Total(n, d) = <<>>
    BY <2>2, <2>3, <2>4 DEF Total
  <2>6. Begun(n) = 0
    BY <1>1 DEF Begun
  <2>7. Numbers(n, 0) = <<>>
    <3>1. Numbers(n, 0) \in Seq(OwnLine(n)) /\ Len(Numbers(n, 0)) = 0
      BY NumbersType
    <3> HIDE DEF OwnLine
    <3> QED
      BY <3>1
  <2> QED
    BY <2>1, <2>5, <2>6, <2>7 DEF Flows
<1> QED
  BY <1>2, <1>3, <1>4, <1>5 DEF SystemInv

\* A router that still runs has not been ended, and a step with it is one of those
\* above.
LEMMA StepsWhileAlive ==
    ASSUME [SystemNext]_systemVars, alive'
    PROVE  /\ alive
           /\ \/ Poll \/ Emit \/ \E n \in Nodes : Serve(n)
              \/ \E n \in Nodes : NodeStep(n) \/ ChildStep(n)
              \/ UNCHANGED systemVars
<1>1. CASE RouterStep
  <2>1. \A n \in Nodes : ~ Overflow(n)
    BY DEF Overflow
  <2>2. Poll \/ Emit \/ \E n \in Nodes : Serve(n)
    BY <1>1, <2>1 DEF RouterStep
  <2>3. alive
    BY <2>2 DEF Poll, Emit, Serve, Reads
  <2> QED
    BY <2>2, <2>3
<1>2. ASSUME NEW n \in Nodes, NodeStep(n) \/ ChildStep(n)
      PROVE  alive
  BY <1>2 DEF NodeStep, ChildStep, ReadStdin, ReadRouter, ReadChild, WriteRouter, PassOn,
              ChildReads, ChildWrites
<1>3. CASE UNCHANGED systemVars
  BY <1>3 DEF systemVars
<1> QED
  BY <1>1, <1>2, <1>3 DEF SystemNext, Rest

\* Every step that leaves the router running keeps the invariant.
LEMMA SystemInvInductive ==
    ASSUME SystemInv, [SystemNext]_systemVars, alive'
    PROVE  SystemInv'
<1>1. CASE Poll
  BY <1>1, PollKeeps
<1>2. CASE Emit
  BY <1>2, EmitKeeps
<1>3. ASSUME NEW n \in Nodes, Serve(n)
      PROVE  SystemInv'
  BY <1>3, ServeKeeps
<1>4. ASSUME NEW n \in Nodes, NodeStep(n)
      PROVE  SystemInv'
  BY <1>4, ReadStdinKeeps, ReadRouterKeeps, ReadChildKeeps, WriteRouterKeeps,
     PassOnKeeps DEF NodeStep
<1>5. ASSUME NEW n \in Nodes, ChildStep(n)
      PROVE  SystemInv'
  BY <1>5, ChildReadsKeeps, ChildWritesKeeps DEF ChildStep
<1>6. CASE UNCHANGED systemVars
  <2>1. Types' /\ OwnLines' /\ OnlyFiltersHaveChildren'
    BY <1>6 DEF SystemInv, systemVars, Types, OwnLines, OnlyFiltersHaveChildren,
                AnyLine, Copy, OwnLine, Nodes, Filters
  <2>2. KeepsLines'
    <3>1. /\ system' = system /\ emitting' = emitting
          /\ \A m \in Nodes : /\ Sent(m)' = Sent(m) /\ Unhandled(m)' = Unhandled(m)
                              /\ Begun(m)' = Begun(m)
      BY <1>6 DEF systemVars, Sent, Unhandled, Begun, Filters
    <3> QED
      BY <3>1, FlowKept DEF SystemInv
  <2> QED
    BY <2>1, <2>2 DEF SystemInv
<1> QED
  BY <1>1, <1>2, <1>3, <1>4, <1>5, <1>6, StepsWhileAlive

\* Whatever the systems, the sockets, the buffers and the pipes, while the router
\* runs: from the stdin or the child that a line comes from to each node that it is
\* linked to once, nothing is lost, doubled or overtaken.
THEOREM LinesAreNeverLost == SystemSpec => []NothingIsLost
<1> DEFINE Inv == alive => SystemInv
<1>1. SystemInit => Inv
  BY SystemStarts
<1>2. Inv /\ [SystemNext]_systemVars => Inv'
  BY SystemInvInductive, StepsWhileAlive
<1>3. Inv => NothingIsLost
  BY DEF SystemInv, NothingIsLost
<1> HIDE DEF Inv
<1> QED
  BY <1>1, <1>2, <1>3, PTL DEF SystemSpec

-----------------------------------------------------------------------------
(* Sums over the nodes.                                                    *)

\* f[i] is the sum of the first i.
IsSum(N, q, f) ==
    /\ f \in [0..N -> Int] /\ f[0] = 0
    /\ \A i \in 1..N : f[i] = f[i - 1] + q[i]

\* The sum changes by what one of them does.
LEMMA SumChanges ==
    ASSUME NEW N \in Nat, NEW q, NEW r, NEW f, IsSum(N, q, f),
           NEW m \in 1..N, NEW d \in Int, \A i \in 1..N : q[i] \in Int, r[m] = q[m] + d,
           \A i \in 1..N : i # m => r[i] = q[i]
    PROVE  \E g : IsSum(N, r, g) /\ g[N] = f[N] + d
<1> DEFINE g == [i \in 0..N |-> IF i < m THEN f[i] ELSE f[i] + d]
<1>1. f \in [0..N -> Int] /\ f[0] = 0 /\ \A i \in 1..N : f[i] = f[i - 1] + q[i]
  BY DEF IsSum
<1>2. \A i \in 0..N : f[i] \in Int
  BY <1>1
<1>3. \A i \in 0..N : g[i] = IF i < m THEN f[i] ELSE f[i] + d
  OBVIOUS
<1>4. g \in [0..N -> Int]
  BY <1>2
<1> HIDE DEF g
<1>5. g[0] = 0
  BY <1>1, <1>3
<1>6. ASSUME NEW i \in 1..N
      PROVE  g[i] = g[i - 1] + r[i]
  <2>1. /\ i \in 0..N /\ i - 1 \in 0..N /\ f[i] = f[i - 1] + q[i]
        /\ f[i] \in Int /\ f[i - 1] \in Int
    BY <1>1, <1>2
  <2>2. CASE i < m
    BY <1>3, <2>1, <2>2
  <2>3. CASE i = m
    BY <1>3, <2>1, <2>3
  <2>4. CASE i > m
    <3>1. i # m /\ ~(i < m) /\ ~(i - 1 < m) /\ q[i] \in Int
      BY <2>4
    <3>2. g[i] = f[i] + d /\ g[i - 1] = f[i - 1] + d /\ r[i] = q[i]
      BY <1>3, <2>1, <3>1
    <3> QED
      BY <2>1, <3>1, <3>2
  <2> QED
    BY <2>2, <2>3, <2>4
<1>7. g[N] = f[N] + d
  BY <1>3
<1> QED
  BY <1>4, <1>5, <1>6, <1>7 DEF IsSum

\* The sum is as large as each of them.
LEMMA SumAtLeast ==
    ASSUME NEW N \in Nat, NEW q, NEW f, IsSum(N, q, f),
           \A i \in 1..N : q[i] \in Nat, NEW m \in 1..N
    PROVE  f[N] \in Nat /\ q[m] <= f[N]
<1> DEFINE T == {k \in Nat : k <= N => f[k] \in Nat /\ (m <= k => q[m] <= f[k])}
<1>1. f \in [0..N -> Int] /\ f[0] = 0 /\ \A i \in 1..N : f[i] = f[i - 1] + q[i]
  BY DEF IsSum
<1>2. 0 \in T
  BY <1>1
<1>3. ASSUME NEW k \in Nat, k \in T
      PROVE  k + 1 \in T
  <2> SUFFICES ASSUME k + 1 <= N
               PROVE  f[k + 1] \in Nat /\ (m <= k + 1 => q[m] <= f[k + 1])
    OBVIOUS
  <2>1. k + 1 \in 1..N /\ k + 1 - 1 = k
    OBVIOUS
  <2>2. f[k + 1] = f[k] + q[k + 1]
    BY <1>1, <2>1
  <2>3. f[k] \in Nat /\ (m <= k => q[m] <= f[k]) /\ q[k + 1] \in Nat /\ q[m] \in Nat
    BY <1>3, <2>1
  <2>4. CASE m <= k
    BY <2>2, <2>3, <2>4
  <2>5. CASE m = k + 1
    BY <2>2, <2>3, <2>5
  <2> QED
    BY <2>2, <2>3, <2>4, <2>5
<1> HIDE DEF T
<1>4. \A k \in Nat : k \in T
  BY <1>2, <1>3, SetInduction
<1>5. N \in T
  BY <1>4
<1> QED
  BY <1>5 DEF T

-----------------------------------------------------------------------------
(* Why the system stops.                                                   *)

\* (Keeps Len closed to the provers where only arithmetic is needed.)
Size(queue) == Len(queue)

QueuesAreBounded ==
    \A n \in Nodes : /\ Size(upward[n]) <= Socket /\ Size(downward[n]) <= Socket
                     /\ Size(toChild[n]) <= Pipe /\ Size(fromChild[n]) <= Pipe

ReadyAreHeard == ready \subseteq Heard

OnlySendersSend == \A n \in Nodes : ~ Inputs(n) /\ ~ Filters(n) => going[n] = <<>>

\* Copies go along links.
Linked(to) == \E n \in Nodes : \E i \in DOMAIN system.edges[n] : to = system.edges[n][i]
CopiesAreLinked == \A i \in DOMAIN emitting : Linked(emitting[i].to)

ReadAtMost == \A n \in Nodes : read[n] <= system.lines[n]

\* The lines on their way that are with a node.
Queued(n) ==
    Size(going[n]) + Size(upward[n]) + Size(local[n]) + Size(downward[n])
    + Size(coming[n]) + Size(toChild[n]) + Size(working[n]) + Size(fromChild[n])
QueuedAt == [n \in Nodes |-> Queued(n)]
LastNode == Len(system.kind)

\* No more lines under way than k.
AtMost(k) == \E f : IsSum(LastNode, QueuedAt, f) /\ f[LastNode] + Size(emitting) <= k

\* In a chain lines are not multiplied: those of the one stdin bound them all.
ReadLessThan(k) == \A n \in Nodes : Inputs(n) => read[n] <= k
NoMoreThanRead == Chain => \A k \in Nat : ReadLessThan(k) => AtMost(k)

StopInv ==
    /\ QueuesAreBounded /\ ReadyAreHeard /\ OnlySendersSend /\ CopiesAreLinked
    /\ ReadAtMost /\ NoMoreThanRead

\* The nodes are the numbers up to the last.
LEMMA NodeNumbers ==
    ASSUME Types
    PROVE  LastNode \in Nat /\ Nodes = 1..LastNode
<1>1. system.kind \in Seq(Kind)
  BY SystemFacts DEF Types
<1> QED
  BY <1>1 DEF Nodes, LastNode

\* Lengths are numbers.
LEMMA SeqLength ==
    ASSUME NEW S, NEW s \in Seq(S)
    PROVE  Size(s) \in Nat
BY DEF Size

\* Those of the queues of a node,
LEMMA Lengths ==
    ASSUME Types, NEW n \in Nodes
    PROVE  /\ Size(going[n]) \in Nat /\ Size(upward[n]) \in Nat /\ Size(local[n]) \in Nat
           /\ Size(downward[n]) \in Nat /\ Size(coming[n]) \in Nat
           /\ Size(toChild[n]) \in Nat /\ Size(working[n]) \in Nat
           /\ Size(fromChild[n]) \in Nat
           /\ Queued(n) \in Nat /\ QueuedAt[n] = Queued(n)
<1> HIDE DEF AnyLine
<1>1. /\ Size(going[n]) \in Nat /\ Size(upward[n]) \in Nat /\ Size(local[n]) \in Nat
      /\ Size(downward[n]) \in Nat /\ Size(coming[n]) \in Nat
      /\ Size(toChild[n]) \in Nat /\ Size(working[n]) \in Nat
      /\ Size(fromChild[n]) \in Nat
  BY NodeTypes, SeqLength
<1>2. Queued(n) \in Nat
  BY <1>1 DEF Queued
<1>3. QueuedAt[n] = Queued(n)
  BY DEF QueuedAt
<1> QED
  BY <1>1, <1>2, <1>3

\* and after a step.
LEMMA LengthsAfter ==
    ASSUME Types', system' = system, NEW n \in Nodes
    PROVE  /\ Size(going'[n]) \in Nat /\ Size(upward'[n]) \in Nat /\ Size(local'[n]) \in Nat
           /\ Size(downward'[n]) \in Nat /\ Size(coming'[n]) \in Nat
           /\ Size(toChild'[n]) \in Nat /\ Size(working'[n]) \in Nat
           /\ Size(fromChild'[n]) \in Nat
           /\ Queued(n)' \in Nat /\ QueuedAt'[n] = Queued(n)'
<1> HIDE DEF AnyLine
<1>1. n \in Nodes'
  BY DEF Nodes
<1>2. /\ going'[n] \in Seq(AnyLine') /\ upward'[n] \in Seq(AnyLine')
      /\ local'[n] \in Seq(AnyLine') /\ downward'[n] \in Seq(AnyLine')
      /\ coming'[n] \in Seq(AnyLine') /\ toChild'[n] \in Seq(AnyLine')
      /\ working'[n] \in Seq(AnyLine') /\ fromChild'[n] \in Seq(AnyLine')
  BY <1>1 DEF Types
<1>3. /\ Size(going'[n]) \in Nat /\ Size(upward'[n]) \in Nat /\ Size(local'[n]) \in Nat
      /\ Size(downward'[n]) \in Nat /\ Size(coming'[n]) \in Nat
      /\ Size(toChild'[n]) \in Nat /\ Size(working'[n]) \in Nat
      /\ Size(fromChild'[n]) \in Nat
  BY <1>2, SeqLength
<1>4. Queued(n)' \in Nat
  BY <1>3 DEF Queued
<1>5. QueuedAt'[n] = Queued(n)'
  BY <1>1 DEF QueuedAt
<1> QED
  BY <1>3, <1>4, <1>5

\* The bound moves with the sum.
LEMMA AtMostMoves ==
    ASSUME Types, Types', system' = system, NEW m \in Nodes, NEW k \in Int, NEW j \in Int,
           AtMost(k),
           \A n \in Nodes : n # m => Queued(n)' = Queued(n),
           Queued(m)' + Size(emitting') <= Queued(m) + Size(emitting) + j
    PROVE  AtMost(k + j)'
<1>1. LastNode \in Nat /\ Nodes = 1..LastNode /\ LastNode' = LastNode
  BY NodeNumbers DEF LastNode
<1>2. PICK f : IsSum(LastNode, QueuedAt, f) /\ f[LastNode] + Size(emitting) <= k
  BY DEF AtMost
<1>3. \A n \in Nodes : /\ Queued(n) \in Nat /\ QueuedAt[n] = Queued(n)
                       /\ Queued(n)' \in Nat /\ QueuedAt'[n] = Queued(n)'
  BY Lengths, LengthsAfter
<1>4. Size(emitting) \in Nat /\ Size(emitting') \in Nat
  <2>1. emitting \in Seq(Copy) /\ emitting' \in Seq(Copy')
    BY DEF Types
  <2> HIDE DEF Copy
  <2> QED
    BY <2>1, SeqLength
<1> DEFINE d == Queued(m)' - Queued(m)
           q == QueuedAt
           r == QueuedAt'
<1>5. /\ d \in Int /\ (\A i \in 1..LastNode : q[i] \in Int) /\ r[m] = q[m] + d
      /\ \A i \in 1..LastNode : i # m => r[i] = q[i]
  <2>1. \A n \in Nodes : q[n] = Queued(n) /\ r[n] = Queued(n)' /\ q[n] \in Int
    BY <1>3
  <2>2. d \in Int /\ r[m] = q[m] + d
    BY <1>3, <2>1
  <2>3. \A n \in Nodes : n # m => r[n] = q[n]
    BY <2>1
  <2> HIDE DEF q, r, d
  <2> QED
    BY <1>1, <2>1, <2>2, <2>3
<1>6. m \in 1..LastNode /\ IsSum(LastNode, q, f)
  BY <1>1, <1>2
<1>7. d + Size(emitting') <= Size(emitting) + j
  BY <1>3, <1>4
<1> HIDE DEF q, r, d
<1>8. PICK g : IsSum(LastNode, r, g) /\ g[LastNode] = f[LastNode] + d
  BY <1>1, <1>5, <1>6, SumChanges
<1>9. f[LastNode] \in Int
  BY <1>1, <1>2 DEF IsSum
<1>10. g[LastNode] + Size(emitting') <= k + j
  BY <1>2, <1>4, <1>5, <1>7, <1>8, <1>9
<1> QED
  BY <1>1, <1>8, <1>10 DEF AtMost, r

\* Where lines only move on within a node, or leave it, the bound is kept.
LEMMA NoMoreKept ==
    ASSUME Types, Types', system' = system, read' = read, NoMoreThanRead, NEW m \in Nodes,
           \A n \in Nodes : n # m => Queued(n)' = Queued(n),
           Chain => Queued(m)' + Size(emitting') <= Queued(m) + Size(emitting)
    PROVE  NoMoreThanRead'
<1> SUFFICES ASSUME Chain', NEW k \in Nat, ReadLessThan(k)'
             PROVE  AtMost(k)'
  BY DEF NoMoreThanRead
<1>1. Chain
  BY DEF Chain, Nodes, Inputs
<1>2. ReadLessThan(k)
  BY DEF ReadLessThan, Nodes, Inputs
<1>3. AtMost(k)
  BY <1>1, <1>2 DEF NoMoreThanRead
<1>4. Queued(m)' + Size(emitting') <= Queued(m) + Size(emitting) + 0
  <2>1. Queued(m) \in Nat /\ Size(emitting) \in Nat
    <3>1. emitting \in Seq(Copy)
      BY DEF Types
    <3> HIDE DEF Copy
    <3> QED
      BY <3>1, Lengths, SeqLength
  <2> QED
    BY <1>1, <2>1
<1>5. k \in Int /\ 0 \in Int /\ k + 0 = k
  OBVIOUS
<1>6. AtMost(k + 0)'
  BY <1>3, <1>4, <1>5, AtMostMoves
<1> QED
  BY <1>5, <1>6

\* The lengths of queues: one more,
LEMMA SizeAppend ==
    ASSUME NEW S, NEW s \in Seq(S), NEW x \in S
    PROVE  Size(Append(s, x)) = Size(s) + 1 /\ Size(s) \in Nat
BY DEF Size

\* one less,
LEMMA SizeTail ==
    ASSUME NEW S, NEW s \in Seq(S), s # <<>>
    PROVE  Size(Tail(s)) = Size(s) - 1 /\ Size(s) \in Nat \ {0}
BY DEF Size

\* a part cut off,
LEMMA SizeCut ==
    ASSUME NEW S, NEW s \in Seq(S), NEW k \in DOMAIN s
    PROVE  /\ Size(SubSeq(s, 1, k)) = k /\ Size(SubSeq(s, k + 1, Len(s))) = Size(s) - k
           /\ k \in Nat \ {0} /\ Size(s) \in Nat
<1>1. k \in 0..Len(s) /\ k \in Nat \ {0} /\ Len(s) \in Nat
  OBVIOUS
<1> QED
  BY <1>1, CatSplit DEF Size

\* and none or one.
LEMMA SizeEmpty ==
    /\ Size(<<>>) = 0
    /\ \A x : Size(<<x>>) = 1
BY DEF Size

\* What handle_packet has still to write.
LEMMA EmittingSize ==
    ASSUME Types
    PROVE  emitting \in Seq(Copy) /\ Size(emitting) \in Nat
<1>1. emitting \in Seq(Copy)
  BY DEF Types
<1> HIDE DEF Copy
<1> QED
  BY <1>1, SeqLength

-----------------------------------------------------------------------------
(* The steps that lines take, and the room that there is for them.         *)

\* A burst of stdin is within the lines that there are.
LEMMA ReadStdinStops ==
    ASSUME SystemInv, SystemInv', StopInv, NEW n \in Nodes, ReadStdin(n)
    PROVE  StopInv'
<1> USE DEF SystemInv, StopInv
<1>1. PICK j \in 1..(system.lines[n] - read[n]) :
         /\ read' = [read EXCEPT ![n] = read[n] + j]
         /\ going' = [going EXCEPT ![n] = [i \in 1..j |-> Line(n, read[n] + i)]]
  BY DEF ReadStdin
<1>2. /\ going[n] = <<>> /\ Inputs(n)
      /\ UNCHANGED <<system, upward, local, ready, emitting, downward, coming,
                     toChild, working, fromChild, got, answered>>
  BY DEF ReadStdin, Idle, StdinHasLines
<1>3. j \in Nat /\ read[n] \in Nat /\ system.lines[n] \in Nat
  <2>1. read[n] \in Nat
    BY NodeTypes
  <2>2. system.lines[n] \in Nat
    BY SystemFacts DEF Types
  <2> QED
    BY <2>1, <2>2
<1>4. /\ read'[n] = read[n] + j
      /\ \A m \in Nodes : m # n => read'[m] = read[m] /\ going'[m] = going[m]
  BY <1>1 DEF Types
<1>5. QueuesAreBounded' /\ ReadyAreHeard' /\ CopiesAreLinked'
  BY <1>2 DEF QueuesAreBounded, ReadyAreHeard, Heard, CopiesAreLinked, Linked, Nodes
<1>6. OnlySendersSend'
  BY <1>2, <1>4 DEF OnlySendersSend, Nodes, Inputs, Filters
<1>7. ReadAtMost'
  BY <1>1, <1>2, <1>3, <1>4 DEF ReadAtMost, Nodes
<1>8. NoMoreThanRead'
  <2> SUFFICES ASSUME Chain', NEW k \in Nat, ReadLessThan(k)'
               PROVE  AtMost(k)'
    BY DEF NoMoreThanRead
  <2>1. Chain
    BY <1>2 DEF Chain, Nodes, Inputs
  <2>2. read[n] + j <= k
    BY <1>2, <1>4 DEF ReadLessThan, Nodes, Inputs
  <2>3. k - j \in Nat
    BY <1>3, <2>2
  <2>4. ReadLessThan(k - j)
    BY <1>2, <1>3, <2>1, <2>2 DEF ReadLessThan, Chain
  <2>5. AtMost(k - j)
    BY <2>1, <2>3, <2>4 DEF NoMoreThanRead
  <2>6. Size(going'[n]) = j /\ Size(going[n]) = 0
    <3>1. going'[n] = [i \in 1..j |-> Line(n, read[n] + i)]
      BY <1>1 DEF Types
    <3>2. [i \in 1..j |-> Line(n, read[n] + i)] \in Seq(OwnLine(n))
          /\ Len([i \in 1..j |-> Line(n, read[n] + i)]) = j
      <4> DEFINE more == [i \in 1..j |-> Line(n, read[n] + i)]
                 O == OwnLine(n)
      <4>1. \A i \in 1..j : Line(n, read[n] + i) \in O
        BY <1>3 DEF Line, OwnLine
      <4> HIDE DEF O
      <4>2. more \in [1..j -> O]
        BY <4>1
      <4> HIDE DEF more
      <4>3. more \in Seq(O) /\ Len(more) = j
        BY <1>3, <4>2, FunctionIsSeq
      <4> QED
        BY <4>3 DEF more, O
    <3> QED
      BY <1>2, <3>1, <3>2, SizeEmpty DEF Size
  <2>7. Queued(n)' = Queued(n) + j /\ \A m \in Nodes : m # n => Queued(m)' = Queued(m)
    <3>1. Queued(n)' = Queued(n) + j
      <4>1. /\ upward' = upward /\ local' = local /\ downward' = downward
            /\ coming' = coming /\ toChild' = toChild /\ working' = working
            /\ fromChild' = fromChild
        BY <1>2
      <4>2. j \in Nat
        BY <1>3
      <4> QED
        BY <2>6, <4>1, <4>2, Lengths DEF Queued
    <3>2. \A m \in Nodes : m # n => Queued(m)' = Queued(m)
      BY <1>2, <1>4 DEF Queued
    <3> QED
      BY <3>1, <3>2
  <2>8. Queued(n) \in Nat /\ Size(emitting) \in Nat /\ emitting' = emitting
    BY <1>2, Lengths, EmittingSize
  <2>9. Queued(n)' + Size(emitting') <= Queued(n) + Size(emitting) + j
    BY <1>3, <2>7, <2>8
  <2>10. AtMost((k - j) + j)'
    <3>1. k - j \in Int /\ j \in Int
      BY <1>3
    <3> QED
      BY <1>2, <2>5, <2>7, <2>9, <3>1, AtMostMoves
  <2>11. (k - j) + j = k
    BY <1>3
  <2> QED
    BY <2>10, <2>11
<1> QED
  BY <1>5, <1>6, <1>7, <1>8

\* What is read from the socket leaves it.
LEMMA ReadRouterStops ==
    ASSUME SystemInv, SystemInv', StopInv, NEW n \in Nodes, ReadRouter(n)
    PROVE  StopInv'
<1> USE DEF SystemInv, StopInv
<1>1. PICK k \in DOMAIN downward[n] :
         /\ coming' = [coming EXCEPT ![n] = SubSeq(downward[n], 1, k)]
         /\ downward' = [downward EXCEPT ![n] =
                            SubSeq(downward[n], k + 1, Len(downward[n]))]
  BY DEF ReadRouter
<1>2. /\ coming[n] = <<>>
      /\ UNCHANGED <<system, read, going, upward, local, ready, emitting,
                     toChild, working, fromChild, got, answered>>
  BY DEF ReadRouter, Idle
<1>3. /\ Size(coming'[n]) = k /\ Size(downward'[n]) = Size(downward[n]) - k
      /\ k \in Nat \ {0} /\ Size(coming[n]) = 0
  <2>1. downward[n] \in Seq(AnyLine)
    BY NodeTypes
  <2>2. /\ coming'[n] = SubSeq(downward[n], 1, k)
        /\ downward'[n] = SubSeq(downward[n], k + 1, Len(downward[n]))
    BY <1>1 DEF Types
  <2> HIDE DEF AnyLine
  <2> QED
    BY <1>2, <2>1, <2>2, SizeCut, SizeEmpty
<1>4. \A m \in Nodes : m # n => coming'[m] = coming[m] /\ downward'[m] = downward[m]
  BY <1>1 DEF Types
<1>5. ReadyAreHeard' /\ OnlySendersSend' /\ CopiesAreLinked' /\ ReadAtMost'
  BY <1>2 DEF ReadyAreHeard, Heard, OnlySendersSend, CopiesAreLinked, Linked, ReadAtMost,
              Nodes, Inputs, Filters
<1>6. QueuesAreBounded'
  <2>1. Size(downward'[n]) <= Socket
    BY <1>3, Lengths, SystemAssumption DEF QueuesAreBounded
  <2> QED
    BY <1>2, <1>4, <2>1 DEF QueuesAreBounded, Nodes
<1>7. NoMoreThanRead'
  <2>1. Queued(n)' = Queued(n)
    BY <1>2, <1>3, Lengths DEF Queued
  <2>2. \A m \in Nodes : m # n => Queued(m)' = Queued(m)
    BY <1>2, <1>4 DEF Queued
  <2>3. Queued(n)' + Size(emitting') <= Queued(n) + Size(emitting)
    BY <1>2, <2>1, Lengths, EmittingSize
  <2> QED
    BY <1>2, <2>2, <2>3, NoMoreKept
<1> QED
  BY <1>5, <1>6, <1>7

\* What is read from a child leaves its pipe.
LEMMA ReadChildStops ==
    ASSUME SystemInv, SystemInv', StopInv, NEW n \in Nodes, ReadChild(n)
    PROVE  StopInv'
<1> USE DEF SystemInv, StopInv
<1>1. PICK k \in DOMAIN fromChild[n] :
         /\ going' = [going EXCEPT ![n] = SubSeq(fromChild[n], 1, k)]
         /\ fromChild' = [fromChild EXCEPT ![n] =
                            SubSeq(fromChild[n], k + 1, Len(fromChild[n]))]
  BY DEF ReadChild
<1>2. /\ going[n] = <<>>
      /\ UNCHANGED <<system, read, upward, local, ready, emitting, downward,
                     coming, toChild, working, got, answered>>
  BY DEF ReadChild, Idle
<1>3. /\ Size(going'[n]) = k /\ Size(fromChild'[n]) = Size(fromChild[n]) - k
      /\ k \in Nat \ {0} /\ Size(going[n]) = 0
  <2>1. fromChild[n] \in Seq(AnyLine)
    BY NodeTypes
  <2>2. /\ going'[n] = SubSeq(fromChild[n], 1, k)
        /\ fromChild'[n] = SubSeq(fromChild[n], k + 1, Len(fromChild[n]))
    BY <1>1 DEF Types
  <2> HIDE DEF AnyLine
  <2> QED
    BY <1>2, <2>1, <2>2, SizeCut, SizeEmpty
<1>4. \A m \in Nodes : m # n => going'[m] = going[m] /\ fromChild'[m] = fromChild[m]
  BY <1>1 DEF Types
<1>5. ReadyAreHeard' /\ CopiesAreLinked' /\ ReadAtMost'
  BY <1>2 DEF ReadyAreHeard, Heard, CopiesAreLinked, Linked, ReadAtMost, Nodes
<1>6. OnlySendersSend'
  <2>1. Filters(n)
    BY <1>1 DEF OnlyFiltersHaveChildren
  <2> QED
    BY <1>2, <1>4, <2>1 DEF OnlySendersSend, Nodes, Inputs, Filters
<1>7. QueuesAreBounded'
  <2>1. Size(fromChild'[n]) <= Pipe
    BY <1>3, Lengths, SystemAssumption DEF QueuesAreBounded
  <2> QED
    BY <1>2, <1>4, <2>1 DEF QueuesAreBounded, Nodes
<1>8. NoMoreThanRead'
  <2>1. Queued(n)' = Queued(n)
    <3>5. /\ Size(upward'[n]) = Size(upward[n]) /\ Size(local'[n]) = Size(local[n])
          /\ Size(downward'[n]) = Size(downward[n]) /\ Size(coming'[n]) = Size(coming[n])
          /\ Size(toChild'[n]) = Size(toChild[n]) /\ Size(working'[n]) = Size(working[n])
      BY <1>2
    <3> QED
      BY <1>3, <3>5, Lengths DEF Queued
  <2>2. \A m \in Nodes : m # n => Queued(m)' = Queued(m)
    BY <1>2, <1>4 DEF Queued
  <2>3. Queued(n)' + Size(emitting') <= Queued(n) + Size(emitting)
    BY <1>2, <2>1, Lengths, EmittingSize
  <2> QED
    BY <1>2, <2>2, <2>3, NoMoreKept
<1> QED
  BY <1>5, <1>6, <1>7, <1>8

\* A node writes to its socket while that has room.
LEMMA WriteRouterStops ==
    ASSUME SystemInv, SystemInv', StopInv, NEW n \in Nodes, WriteRouter(n)
    PROVE  StopInv'
<1> USE DEF SystemInv, StopInv
<1>1. /\ going[n] # <<>> /\ Size(upward[n]) < Socket
      /\ upward' = [upward EXCEPT ![n] = Append(upward[n], Head(going[n]))]
      /\ going' = [going EXCEPT ![n] = Tail(going[n])]
      /\ UNCHANGED <<system, read, local, ready, emitting, downward, coming,
                     toChild, working, fromChild, got, answered>>
  BY DEF WriteRouter, HasRoom, Size
<1>2. /\ Size(upward'[n]) = Size(upward[n]) + 1 /\ upward'[n] # <<>>
      /\ Size(going'[n]) = Size(going[n]) - 1
  <2>1. upward[n] \in Seq(AnyLine) /\ going[n] \in Seq(AnyLine)
    BY NodeTypes
  <2>2. upward'[n] = Append(upward[n], Head(going[n])) /\ going'[n] = Tail(going[n])
    BY <1>1 DEF Types
  <2> HIDE DEF AnyLine
  <2>3. Head(going[n]) \in AnyLine
    BY <1>1, <2>1
  <2>4. /\ Size(upward'[n]) = Size(upward[n]) + 1
        /\ Size(going'[n]) = Size(going[n]) - 1
    BY <1>1, <2>1, <2>2, <2>3, SizeAppend, SizeTail
  <2>5. upward'[n] # <<>>
    <3>1. Size(upward[n]) \in Nat /\ Size(<<>>) = 0
      BY Lengths, SizeEmpty
    <3> QED
      BY <2>4, <3>1
  <2> QED
    BY <2>4, <2>5
<1>3. \A m \in Nodes : m # n => going'[m] = going[m] /\ upward'[m] = upward[m]
  BY <1>1 DEF Types
<1>4. CopiesAreLinked' /\ ReadAtMost'
  BY <1>1 DEF CopiesAreLinked, Linked, ReadAtMost, Nodes
<1>5. ReadyAreHeard'
  BY <1>1, <1>2, <1>3 DEF ReadyAreHeard, Heard, Nodes
<1>6. OnlySendersSend'
  BY <1>1, <1>3 DEF OnlySendersSend, Nodes, Inputs, Filters
<1>7. QueuesAreBounded'
  <2>1. Size(upward'[n]) <= Socket
    BY <1>1, <1>2, Lengths, SystemAssumption
  <2> QED
    BY <1>1, <1>3, <2>1 DEF QueuesAreBounded, Nodes
<1>8. NoMoreThanRead'
  <2>1. Queued(n)' = Queued(n)
    BY <1>1, <1>2, Lengths DEF Queued
  <2>2. \A m \in Nodes : m # n => Queued(m)' = Queued(m)
    BY <1>1, <1>3 DEF Queued
  <2>3. Queued(n)' + Size(emitting') <= Queued(n) + Size(emitting)
    BY <1>1, <2>1, Lengths, EmittingSize
  <2> QED
    BY <1>1, <2>2, <2>3, NoMoreKept
<1> QED
  BY <1>4, <1>5, <1>6, <1>7, <1>8

\* A filter writes to its child while the pipe has room; others write to
\* stdout, and the line is at its end.
LEMMA PassOnStops ==
    ASSUME SystemInv, SystemInv', StopInv, NEW n \in Nodes, PassOn(n)
    PROVE  StopInv'
<1> USE DEF SystemInv, StopInv
<1>1. /\ coming[n] # <<>> /\ (Filters(n) => Size(toChild[n]) < Pipe)
      /\ toChild' = IF Filters(n)
                    THEN [toChild EXCEPT ![n] = Append(toChild[n], Head(coming[n]))]
                    ELSE toChild
      /\ coming' = [coming EXCEPT ![n] = Tail(coming[n])]
      /\ UNCHANGED <<system, read, going, upward, local, ready, emitting, downward,
                     working, fromChild, answered>>
  BY DEF PassOn, HasRoom, Size
<1>2. /\ Size(coming'[n]) = Size(coming[n]) - 1
      /\ Size(toChild'[n]) = IF Filters(n) THEN Size(toChild[n]) + 1 ELSE Size(toChild[n])
  <2>1. coming[n] \in Seq(AnyLine) /\ toChild[n] \in Seq(AnyLine)
    BY NodeTypes
  <2>2. /\ toChild'[n] = IF Filters(n) THEN Append(toChild[n], Head(coming[n]))
                         ELSE toChild[n]
        /\ coming'[n] = Tail(coming[n])
    BY <1>1 DEF Types
  <2> HIDE DEF AnyLine
  <2>3. Head(coming[n]) \in AnyLine
    BY <1>1, <2>1
  <2> QED
    BY <1>1, <2>1, <2>2, <2>3, SizeAppend, SizeTail
<1>3. \A m \in Nodes : m # n => coming'[m] = coming[m] /\ toChild'[m] = toChild[m]
  BY <1>1 DEF Types
<1>4. ReadyAreHeard' /\ OnlySendersSend' /\ CopiesAreLinked' /\ ReadAtMost'
  BY <1>1 DEF ReadyAreHeard, Heard, OnlySendersSend, CopiesAreLinked, Linked, ReadAtMost,
              Nodes, Inputs, Filters
<1>5. QueuesAreBounded'
  <2>1. Size(toChild'[n]) <= Pipe
    <3>1. Size(toChild[n]) <= Pipe /\ Size(toChild[n]) \in Nat /\ Pipe \in Nat
      BY Lengths, SystemAssumption DEF QueuesAreBounded
    <3> QED
      BY <1>1, <1>2, <3>1
  <2> QED
    BY <1>1, <1>3, <2>1 DEF QueuesAreBounded, Nodes
<1>6. NoMoreThanRead'
  <2>1. Queued(n)' <= Queued(n)
    <3>1. CASE Filters(n)
      <4>1. Size(toChild'[n]) = Size(toChild[n]) + 1
        BY <1>2, <3>1
      <4>2. /\ Size(going'[n]) = Size(going[n]) /\ Size(upward'[n]) = Size(upward[n])
            /\ Size(local'[n]) = Size(local[n]) /\ Size(downward'[n]) = Size(downward[n])
            /\ Size(working'[n]) = Size(working[n]) /\ Size(fromChild'[n]) = Size(fromChild[n])
        BY <1>1
      <4>3. Size(coming'[n]) = Size(coming[n]) - 1
        BY <1>2
      <4> QED
        BY <4>1, <4>2, <4>3, Lengths DEF Queued
    <3>2. CASE ~ Filters(n)
      <4>1. Size(toChild'[n]) = Size(toChild[n])
        BY <1>2, <3>2
      <4>2. /\ Size(going'[n]) = Size(going[n]) /\ Size(upward'[n]) = Size(upward[n])
            /\ Size(local'[n]) = Size(local[n]) /\ Size(downward'[n]) = Size(downward[n])
            /\ Size(working'[n]) = Size(working[n]) /\ Size(fromChild'[n]) = Size(fromChild[n])
        BY <1>1
      <4>3. Size(coming'[n]) = Size(coming[n]) - 1
        BY <1>2
      <4> QED
        BY <4>1, <4>2, <4>3, Lengths DEF Queued
    <3> QED
      BY <3>1, <3>2
  <2>2. \A m \in Nodes : m # n => Queued(m)' = Queued(m)
    BY <1>1, <1>3 DEF Queued
  <2>3. Queued(n)' + Size(emitting') <= Queued(n) + Size(emitting)
    <3>1. Queued(n)' \in Nat
      BY <1>1, LengthsAfter
    <3> QED
      BY <1>1, <2>1, <3>1, Lengths, EmittingSize
  <2> QED
    BY <1>1, <2>2, <2>3, NoMoreKept
<1> QED
  BY <1>4, <1>5, <1>6

\* A child takes a line,
LEMMA ChildReadsStops ==
    ASSUME SystemInv, SystemInv', StopInv, NEW n \in Nodes, ChildReads(n)
    PROVE  StopInv'
<1> USE DEF SystemInv, StopInv
<1>1. /\ toChild[n] # <<>> /\ working[n] = <<>>
      /\ working' = [working EXCEPT ![n] = <<Head(toChild[n])>>]
      /\ toChild' = [toChild EXCEPT ![n] = Tail(toChild[n])]
      /\ UNCHANGED <<system, read, going, upward, local, ready, emitting, downward,
                     coming, fromChild, got, answered>>
  BY DEF ChildReads
<1>2. /\ Size(toChild'[n]) = Size(toChild[n]) - 1
      /\ Size(working[n]) = 0 /\ Size(working'[n]) = 1
  <2>1. toChild[n] \in Seq(AnyLine)
    BY NodeTypes
  <2>2. toChild'[n] = Tail(toChild[n]) /\ working'[n] = <<Head(toChild[n])>>
    BY <1>1 DEF Types
  <2> HIDE DEF AnyLine
  <2> QED
    BY <1>1, <2>1, <2>2, SizeTail, SizeEmpty
<1>3. \A m \in Nodes : m # n => working'[m] = working[m] /\ toChild'[m] = toChild[m]
  BY <1>1 DEF Types
<1>4. ReadyAreHeard' /\ OnlySendersSend' /\ CopiesAreLinked' /\ ReadAtMost'
  BY <1>1 DEF ReadyAreHeard, Heard, OnlySendersSend, CopiesAreLinked, Linked, ReadAtMost,
              Nodes, Inputs, Filters
<1>5. QueuesAreBounded'
  <2>1. Size(toChild'[n]) <= Pipe
    BY <1>2, Lengths, SystemAssumption DEF QueuesAreBounded
  <2> QED
    BY <1>1, <1>3, <2>1 DEF QueuesAreBounded, Nodes
<1>6. NoMoreThanRead'
  <2>1. Queued(n)' = Queued(n)
    <3>5. /\ Size(going'[n]) = Size(going[n]) /\ Size(upward'[n]) = Size(upward[n])
          /\ Size(local'[n]) = Size(local[n]) /\ Size(downward'[n]) = Size(downward[n])
          /\ Size(coming'[n]) = Size(coming[n]) /\ Size(fromChild'[n]) = Size(fromChild[n])
      BY <1>1
    <3> QED
      BY <1>2, <3>5, Lengths DEF Queued
  <2>2. \A m \in Nodes : m # n => Queued(m)' = Queued(m)
    BY <1>1, <1>3 DEF Queued
  <2>3. Queued(n)' + Size(emitting') <= Queued(n) + Size(emitting)
    BY <1>1, <2>1, Lengths, EmittingSize
  <2> QED
    BY <1>1, <2>2, <2>3, NoMoreKept
<1> QED
  BY <1>4, <1>5, <1>6

\* and writes one while its pipe has room.
LEMMA ChildWritesStops ==
    ASSUME SystemInv, SystemInv', StopInv, NEW n \in Nodes, ChildWrites(n)
    PROVE  StopInv'
<1> USE DEF SystemInv, StopInv
<1>1. PICK x \in AnyLine :
      /\ working[n] # <<>> /\ Size(fromChild[n]) < Pipe
      /\ fromChild' = [fromChild EXCEPT ![n] = Append(fromChild[n], x)]
      /\ working' = [working EXCEPT ![n] = <<>>]
      /\ UNCHANGED <<system, read, going, upward, local, ready, emitting, downward,
                     coming, toChild, got>>
  <2>1. Line(n, answered'[n]) \in AnyLine
    <3>1. answered' \in [Nodes' -> Nat] /\ n \in Nodes'
      BY DEF Types, ChildWrites, Nodes
    <3> QED
      BY <3>1 DEF Line, AnyLine
  <2> QED
    BY <2>1 DEF ChildWrites, HasRoom, Size
<1>2. /\ Size(fromChild'[n]) = Size(fromChild[n]) + 1
      /\ Size(working[n]) \in Nat \ {0} /\ Size(working'[n]) = 0
  <2>1. fromChild[n] \in Seq(AnyLine) /\ working[n] \in Seq(AnyLine)
    BY NodeTypes
  <2>2. fromChild'[n] = Append(fromChild[n], x) /\ working'[n] = <<>>
    BY <1>1 DEF Types
  <2> HIDE DEF AnyLine
  <2>3. Size(working[n]) \in Nat \ {0}
    BY <1>1, <2>1, SizeTail
  <2> QED
    BY <1>1, <2>1, <2>2, <2>3, SizeAppend, SizeEmpty
<1>3. \A m \in Nodes : m # n => working'[m] = working[m] /\ fromChild'[m] = fromChild[m]
  BY <1>1 DEF Types
<1>4. ReadyAreHeard' /\ OnlySendersSend' /\ CopiesAreLinked' /\ ReadAtMost'
  BY <1>1 DEF ReadyAreHeard, Heard, OnlySendersSend, CopiesAreLinked, Linked, ReadAtMost,
              Nodes, Inputs, Filters
<1>5. QueuesAreBounded'
  <2>1. Size(fromChild'[n]) <= Pipe
    BY <1>1, <1>2, Lengths, SystemAssumption
  <2> QED
    BY <1>1, <1>3, <2>1 DEF QueuesAreBounded, Nodes
<1>6. NoMoreThanRead'
  <2>1. Queued(n)' <= Queued(n) /\ Queued(n)' \in Nat
    <3>1. Queued(n)' \in Nat
      BY <1>1, LengthsAfter
    <3>2. Queued(n)' <= Queued(n)
      <4>1. /\ Size(going'[n]) = Size(going[n]) /\ Size(upward'[n]) = Size(upward[n])
            /\ Size(local'[n]) = Size(local[n]) /\ Size(downward'[n]) = Size(downward[n])
            /\ Size(coming'[n]) = Size(coming[n]) /\ Size(toChild'[n]) = Size(toChild[n])
        BY <1>1
      <4> QED
        BY <1>2, <4>1, Lengths DEF Queued
    <3> QED
      BY <3>1, <3>2
  <2>2. \A m \in Nodes : m # n => Queued(m)' = Queued(m)
    BY <1>1, <1>3 DEF Queued
  <2>3. Queued(n)' + Size(emitting') <= Queued(n) + Size(emitting)
    BY <1>1, <2>1, Lengths, EmittingSize
  <2> QED
    BY <1>1, <2>2, <2>3, NoMoreKept
<1> QED
  BY <1>4, <1>5, <1>6

\* poll finds who is heard.
LEMMA PollStops ==
    ASSUME SystemInv, SystemInv', StopInv, Poll
    PROVE  StopInv'
<1> USE DEF SystemInv, StopInv
<1>1. /\ ready' = Heard /\ Heard # {}
      /\ UNCHANGED <<system, read, going, upward, local, emitting, downward, coming,
                     toChild, working, fromChild, got, answered>>
  BY DEF Poll
<1>2. /\ QueuesAreBounded' /\ ReadyAreHeard' /\ OnlySendersSend' /\ CopiesAreLinked'
      /\ ReadAtMost'
  BY <1>1 DEF QueuesAreBounded, ReadyAreHeard, Heard, OnlySendersSend, CopiesAreLinked,
              Linked, ReadAtMost, Nodes, Inputs, Filters
<1>3. NoMoreThanRead'
  <2>1. PICK n \in Nodes : n \in Heard
    BY <1>1 DEF Heard
  <2>2. \A m \in Nodes : Queued(m)' = Queued(m)
    BY <1>1 DEF Queued
  <2>3. Queued(n)' + Size(emitting') <= Queued(n) + Size(emitting)
    BY <1>1, <2>2, Lengths, EmittingSize
  <2> QED
    BY <1>1, <2>2, <2>3, NoMoreKept
<1> QED
  BY <1>2, <1>3

\* A packet leaves its node, and there is at most one copy of it in a chain.
LEMMA ServeStops ==
    ASSUME SystemInv, SystemInv', StopInv, NEW n \in Nodes, Serve(n)
    PROVE  StopInv'
<1> USE DEF SystemInv, StopInv
<1>1. PICK k \in DOMAIN upward[n] :
         LET handled == Handled(local[n] \o SubSeq(upward[n], 1, k))
         IN  /\ upward' = [upward EXCEPT ![n] =
                              SubSeq(upward[n], k + 1, Len(upward[n]))]
             /\ local' = [local EXCEPT ![n] = handled.rest]
             /\ emitting' = Copies(handled.packet)
  BY DEF Serve, Reads
<1>2. /\ emitting = <<>> /\ ready' = ready \ {n}
      /\ UNCHANGED <<system, read, going, downward, coming, toChild, working,
                     fromChild, got, answered>>
  BY DEF Serve, Reads
<1> DEFINE O == OwnLine(n)
           a == SubSeq(upward[n], 1, k)
           b == SubSeq(upward[n], k + 1, Len(upward[n]))
           bytes == Cat(local[n], a)
           p == Head(bytes)
<1>3. /\ upward' = [upward EXCEPT ![n] = b] /\ local' = [local EXCEPT ![n] = Tail(bytes)]
      /\ emitting' = Copies(p)
  BY <1>1 DEF Handled, Cat
<1>4. /\ upward'[n] = b /\ local'[n] = Tail(bytes)
      /\ \A m \in Nodes : m # n => upward'[m] = upward[m] /\ local'[m] = local[m]
  BY <1>3 DEF Types
<1>5. /\ local[n] \in Seq(O) /\ a \in Seq(O)
      /\ Size(a) = k /\ Size(b) = Size(upward[n]) - k /\ k \in Nat \ {0}
  <2>1. upward[n] \in Seq(O) /\ local[n] \in Seq(O)
    BY DEF OwnLines
  <2> HIDE DEF O
  <2> QED
    BY <2>1, CutAt, SizeCut
<1> HIDE DEF a, b
<1>6. bytes \in Seq(O) /\ bytes # <<>> /\ Size(bytes) = Size(local[n]) + k
  <2> HIDE DEF O
  <2>1. bytes \in Seq(O) /\ Len(bytes) = Len(local[n]) + Len(a)
    BY <1>5, CatType, CatLength
  <2>2. Len(local[n]) \in Nat /\ Len(a) = k
    BY <1>5 DEF Size
  <2> HIDE DEF bytes
  <2>3. Len(bytes) # 0
    BY <1>5, <2>1, <2>2
  <2> QED
    BY <2>1, <2>2, <2>3 DEF Size
<1> HIDE DEF bytes
<1>7. p \in O /\ Size(Tail(bytes)) = Size(local[n]) + k - 1
  <2> HIDE DEF O
  <2>1. p \in O
    BY <1>6
  <2>2. Size(Tail(bytes)) = Size(bytes) - 1
    BY <1>6, SizeTail
  <2>3. Size(local[n]) \in Nat /\ k \in Nat
    BY <1>5, SeqLength
  <2> QED
    BY <1>6, <2>1, <2>2, <2>3
<1>8. /\ Size(upward'[n]) = Size(upward[n]) - k
      /\ Size(local'[n]) = Size(local[n]) + k - 1
  BY <1>4, <1>5, <1>7
<1>9. p.of = n
  BY <1>7 DEF OwnLine
<1> HIDE DEF p, O
<1>10. Size(emitting') = Len(system.edges[n]) /\ CopiesAreLinked'
  <2>1. system.edges[n] \in Seq(Nodes)
    BY SystemFacts DEF Types
  <2>2. emitting' = [i \in 1..Len(system.edges[n]) |->
                        [to |-> system.edges[n][i], line |-> p]]
    BY <1>3, <1>9, <2>1 DEF Copies
  <2>3. Len(system.edges[n]) \in Nat /\ DOMAIN system.edges[n] = 1..Len(system.edges[n])
    BY <2>1
  <2>4. Size(emitting') = Len(system.edges[n])
    <3> DEFINE e == Len(system.edges[n])
               copies == [i \in 1..e |-> [to |-> system.edges[n][i], line |-> p]]
    <3>1. Len(copies) = e
      <4> HIDE DEF e
      <4>1. e \in Nat
        BY <2>3 DEF e
      <4>2. copies \in [1..e -> {copies[i] : i \in 1..e}]
        OBVIOUS
      <4> HIDE DEF copies
      <4> QED
        BY <4>1, <4>2, FunctionIsSeq
    <3> QED
      BY <2>2, <3>1 DEF Size
  <2>5. CopiesAreLinked'
    <3> SUFFICES ASSUME NEW i \in DOMAIN emitting'
                 PROVE  Linked(emitting[i].to)'
      BY DEF CopiesAreLinked
    <3>1. i \in DOMAIN system.edges[n] /\ emitting'[i].to = system.edges[n][i]
      BY <2>2, <2>3
    <3> QED
      BY <1>2, <3>1 DEF Linked, Nodes
  <2> QED
    BY <2>4, <2>5
<1>11. OnlySendersSend' /\ ReadAtMost'
  BY <1>2 DEF OnlySendersSend, ReadAtMost, Nodes, Inputs, Filters
<1>12. ReadyAreHeard'
  BY <1>2, <1>4 DEF ReadyAreHeard, Heard, Nodes
<1>13. QueuesAreBounded'
  <2>1. Size(upward'[n]) <= Socket
    <3>1. Size(upward[n]) <= Socket /\ Size(upward[n]) \in Nat /\ Socket \in Nat
      BY Lengths, SystemAssumption DEF QueuesAreBounded
    <3>2. k \in Nat
      BY <1>5
    <3> QED
      BY <1>8, <3>1, <3>2
  <2> QED
    BY <1>2, <1>4, <2>1 DEF QueuesAreBounded, Nodes
<1>14. NoMoreThanRead'
  <2>1. \A m \in Nodes : m # n => Queued(m)' = Queued(m)
    BY <1>2, <1>4 DEF Queued
  <2>2. Queued(n)' = Queued(n) - 1
    <3>1. /\ Size(going'[n]) = Size(going[n]) /\ Size(downward'[n]) = Size(downward[n])
          /\ Size(coming'[n]) = Size(coming[n]) /\ Size(toChild'[n]) = Size(toChild[n])
          /\ Size(working'[n]) = Size(working[n])
          /\ Size(fromChild'[n]) = Size(fromChild[n])
      BY <1>2
    <3>2. k \in Nat
      BY <1>5
    <3> QED
      BY <1>8, <3>1, <3>2, Lengths DEF Queued
  <2>3. ASSUME Chain
        PROVE  Queued(n)' + Size(emitting') <= Queued(n) + Size(emitting)
    <3>1. Size(emitting') <= 1 /\ Size(emitting') \in Nat
      <4>1. Len(system.edges[n]) \in Nat
        <5>1. system.edges[n] \in Seq(Nodes)
          BY SystemFacts DEF Types
        <5> QED
          BY <5>1
      <4> QED
        BY <1>10, <2>3, <4>1 DEF Chain
    <3>2. Size(emitting) = 0
      BY <1>2, SizeEmpty
    <3> QED
      BY <2>2, <3>1, <3>2, Lengths
  <2> QED
    BY <1>2, <2>1, <2>3, NoMoreKept
<1> QED
  BY <1>10, <1>11, <1>12, <1>13, <1>14

\* The router writes to a socket while that has room.
LEMMA EmitStops ==
    ASSUME SystemInv, SystemInv', StopInv, Emit
    PROVE  StopInv'
<1> USE DEF SystemInv, StopInv
<1>1. /\ emitting # <<>>
      /\ Size(downward[Head(emitting).to]) < Socket
      /\ downward' = [downward EXCEPT ![Head(emitting).to] =
                         Append(downward[Head(emitting).to], Head(emitting).line)]
      /\ emitting' = Tail(emitting)
      /\ UNCHANGED <<system, read, going, upward, local, ready, coming,
                     toChild, working, fromChild, got, answered>>
  BY DEF Emit, HasRoom, Size
<1>2. /\ emitting \in Seq(Copy) /\ Head(emitting) \in Copy
      /\ Size(emitting') = Size(emitting) - 1 /\ Size(emitting) \in Nat
      /\ \A i \in DOMAIN emitting' : i + 1 \in DOMAIN emitting /\ emitting'[i] = emitting[i + 1]
  <2>1. emitting \in Seq(Copy)
    BY DEF Types
  <2> HIDE DEF Copy
  <2>2. Head(emitting) \in Copy
    BY <1>1, <2>1
  <2>3. Size(emitting') = Size(emitting) - 1 /\ Size(emitting) \in Nat
    BY <1>1, <2>1, SizeTail
  <2>4. \A i \in DOMAIN Tail(emitting) :
           i + 1 \in DOMAIN emitting /\ Tail(emitting)[i] = emitting[i + 1]
    BY <1>1, <2>1
  <2> QED
    BY <1>1, <2>1, <2>2, <2>3, <2>4
<1>3. PICK t \in Nodes, x \in AnyLine : Head(emitting).to = t /\ Head(emitting).line = x
  BY <1>2 DEF Copy
<1>4. /\ Size(downward'[t]) = Size(downward[t]) + 1
      /\ \A m \in Nodes : m # t => downward'[m] = downward[m]
  <2>1. downward[t] \in Seq(AnyLine)
    BY NodeTypes
  <2>2. /\ downward'[t] = Append(downward[t], x)
        /\ \A m \in Nodes : m # t => downward'[m] = downward[m]
    BY <1>1, <1>3 DEF Types
  <2> HIDE DEF AnyLine
  <2> QED
    BY <2>1, <2>2, SizeAppend
<1>5. ReadyAreHeard' /\ OnlySendersSend' /\ ReadAtMost'
  BY <1>1 DEF ReadyAreHeard, Heard, OnlySendersSend, ReadAtMost, Nodes, Inputs, Filters
<1>6. CopiesAreLinked'
  BY <1>1, <1>2 DEF CopiesAreLinked, Linked, Nodes
<1>7. QueuesAreBounded'
  <2>1. Size(downward'[t]) <= Socket
    BY <1>1, <1>3, <1>4, Lengths, SystemAssumption
  <2> QED
    BY <1>1, <1>4, <2>1 DEF QueuesAreBounded, Nodes
<1>8. NoMoreThanRead'
  <2>1. \A m \in Nodes : m # t => Queued(m)' = Queued(m)
    BY <1>1, <1>4 DEF Queued
  <2>2. Queued(t)' = Queued(t) + 1
    <3>1. /\ Size(going'[t]) = Size(going[t]) /\ Size(upward'[t]) = Size(upward[t])
          /\ Size(local'[t]) = Size(local[t]) /\ Size(coming'[t]) = Size(coming[t])
          /\ Size(toChild'[t]) = Size(toChild[t]) /\ Size(working'[t]) = Size(working[t])
          /\ Size(fromChild'[t]) = Size(fromChild[t])
      BY <1>1
    <3>2. Size(downward'[t]) = Size(downward[t]) + 1
      BY <1>4
    <3> QED
      BY <3>1, <3>2, Lengths DEF Queued
  <2>3. Queued(t)' + Size(emitting') <= Queued(t) + Size(emitting)
    BY <1>2, <2>2, Lengths
  <2> QED
    BY <1>1, <2>1, <2>3, NoMoreKept
<1> QED
  BY <1>5, <1>6, <1>7, <1>8

\* A system that does nothing stays as it is.
LEMMA StutterStops ==
    ASSUME SystemInv, SystemInv', StopInv, UNCHANGED systemVars
    PROVE  StopInv'
<1> USE DEF StopInv
<1>1. UNCHANGED <<system, read, going, upward, local, ready, emitting, downward, coming,
                  toChild, working, fromChild>>
  BY DEF systemVars
<1>2. /\ QueuesAreBounded' /\ ReadyAreHeard' /\ OnlySendersSend' /\ CopiesAreLinked'
      /\ ReadAtMost'
  BY <1>1 DEF QueuesAreBounded, ReadyAreHeard, Heard, OnlySendersSend, CopiesAreLinked,
              Linked, ReadAtMost, Nodes, Inputs, Filters
<1>3. NoMoreThanRead'
  <2> SUFFICES ASSUME Chain', NEW k \in Nat, ReadLessThan(k)'
               PROVE  AtMost(k)'
    BY DEF NoMoreThanRead
  <2>1. Chain /\ ReadLessThan(k)
    BY <1>1 DEF Chain, ReadLessThan, Nodes, Inputs
  <2>2. AtMost(k)
    BY <2>1 DEF NoMoreThanRead
  <2>3. QueuedAt' = QueuedAt /\ LastNode' = LastNode
    BY <1>1 DEF QueuedAt, Queued, LastNode, Nodes
  <2> QED
    BY <1>1, <2>2, <2>3 DEF AtMost
<1> QED
  BY <1>2, <1>3

\* At first nothing is on its way.
LEMMA StopStarts ==
    ASSUME SystemInit
    PROVE  StopInv
<1>1. /\ system \in System /\ ready = {} /\ emitting = <<>>
      /\ \A n \in Nodes : /\ read[n] = 0
                          /\ going[n] = <<>> /\ upward[n] = <<>> /\ local[n] = <<>>
                          /\ downward[n] = <<>> /\ coming[n] = <<>>
                          /\ toChild[n] = <<>> /\ working[n] = <<>>
                          /\ fromChild[n] = <<>>
  BY DEF SystemInit
<1>2. Socket \in Nat /\ Pipe \in Nat
  BY SystemAssumption
<1>3. QueuesAreBounded
  BY <1>1, <1>2, SizeEmpty DEF QueuesAreBounded
<1>4. ReadyAreHeard /\ OnlySendersSend /\ CopiesAreLinked
  BY <1>1 DEF ReadyAreHeard, OnlySendersSend, CopiesAreLinked
<1>5. ReadAtMost
  <2>1. \A n \in Nodes : system.lines[n] \in Nat
    BY <1>1, SystemFacts
  <2> QED
    BY <1>1, <2>1 DEF ReadAtMost
<1>6. NoMoreThanRead
  <2> SUFFICES ASSUME NEW k \in Nat
               PROVE  AtMost(k)
    BY DEF NoMoreThanRead
  <2>1. LastNode \in Nat /\ Nodes = 1..LastNode
    BY <1>1, SystemStarts, NodeNumbers DEF SystemInv
  <2> DEFINE none == [i \in 0..LastNode |-> 0]
  <2>2. \A n \in Nodes : QueuedAt[n] = 0
    <3>1. \A n \in Nodes : Queued(n) = 0
      BY <1>1, SizeEmpty DEF Queued
    <3> QED
      BY <3>1 DEF QueuedAt
  <2>3. IsSum(LastNode, QueuedAt, none)
    BY <2>1, <2>2 DEF IsSum
  <2>4. none[LastNode] + Size(emitting) <= k
    BY <1>1, <2>1, SizeEmpty
  <2> QED
    BY <2>3, <2>4 DEF AtMost
<1> QED
  BY <1>3, <1>4, <1>5, <1>6 DEF StopInv

\* Every step that leaves the router running keeps both invariants.
LEMMA StopInvInductive ==
    ASSUME SystemInv, StopInv, [SystemNext]_systemVars, alive'
    PROVE  SystemInv' /\ StopInv'
<1>1. SystemInv'
  BY SystemInvInductive
<1>2. CASE Poll
  BY <1>1, <1>2, PollStops
<1>3. CASE Emit
  BY <1>1, <1>3, EmitStops
<1>4. ASSUME NEW n \in Nodes, Serve(n)
      PROVE  StopInv'
  BY <1>1, <1>4, ServeStops
<1>5. ASSUME NEW n \in Nodes, NodeStep(n)
      PROVE  StopInv'
  BY <1>1, <1>5, ReadStdinStops, ReadRouterStops, ReadChildStops, WriteRouterStops,
     PassOnStops DEF NodeStep
<1>6. ASSUME NEW n \in Nodes, ChildStep(n)
      PROVE  StopInv'
  BY <1>1, <1>6, ChildReadsStops, ChildWritesStops DEF ChildStep
<1>7. CASE UNCHANGED systemVars
  BY <1>1, <1>7, StutterStops
<1> QED
  BY <1>1, <1>2, <1>3, <1>4, <1>5, <1>6, <1>7, StepsWhileAlive

-----------------------------------------------------------------------------
(* Who waits for whom.                                                     *)

\* A node that waits for its child is in a circle with it.
LEMMA WaitsForChild ==
    ASSUME SystemInv, StopInv, Stopped, NEW n \in Nodes, coming[n] # <<>>
    PROVE  ChildCircle(n)
<1>1. NodeWaits(n) /\ ChildWaits(n)
  BY DEF Stopped
<1>2. /\ Size(toChild[n]) \in Nat /\ Size(fromChild[n]) \in Nat
      /\ Size(toChild[n]) <= Pipe /\ Size(fromChild[n]) <= Pipe
      /\ Pipe \in Nat \ {0}
  BY Lengths, SystemAssumption DEF SystemInv, StopInv, QueuesAreBounded
<1>3. Size(toChild[n]) = Pipe
  <2>1. ~(Size(toChild[n]) < Pipe)
    BY <1>1 DEF NodeWaits, HasRoom, Size
  <2> QED
    BY <1>2, <2>1
<1>4. working[n] # <<>>
  <2>1. toChild[n] # <<>>
    BY <1>2, <1>3, SizeEmpty
  <2> QED
    BY <1>1, <2>1 DEF ChildWaits
<1>5. Size(fromChild[n]) = Pipe
  <2>1. ~(Size(fromChild[n]) < Pipe)
    BY <1>1, <1>4 DEF ChildWaits, HasRoom, Size
  <2> QED
    BY <1>2, <2>1
<1> QED
  BY <1>3, <1>4, <1>5 DEF ChildCircle, Size

\* A router that waits for a node is in a circle with it, or that node with its
\* child.
LEMMA WaitsForNode ==
    ASSUME SystemInv, StopInv, Stopped, emitting # <<>>
    PROVE  RouterCircle \/ \E n \in Nodes : ChildCircle(n)
<1>1. PICK t \in Nodes : t = Head(emitting).to
  <2>1. emitting \in Seq(Copy)
    BY DEF SystemInv, Types
  <2>2. Head(emitting) \in Copy
    <3> HIDE DEF Copy
    <3> QED
      BY <2>1
  <2> QED
    BY <2>2 DEF Copy
<1>2. NodeWaits(t) /\ RouterWaits
  BY DEF Stopped
<1>3. /\ Size(downward[t]) \in Nat /\ Size(upward[t]) \in Nat
      /\ Size(downward[t]) <= Socket /\ Size(upward[t]) <= Socket
      /\ Socket \in Nat \ {0}
  BY Lengths, SystemAssumption DEF SystemInv, StopInv, QueuesAreBounded
<1>4. Size(downward[t]) = Socket
  <2>1. ~(Size(downward[t]) < Socket)
    BY <1>1, <1>2 DEF RouterWaits, HasRoom, Size
  <2> QED
    BY <1>3, <2>1
<1>5. ~ Idle(t)
  <2>1. downward[t] # <<>>
    BY <1>3, <1>4, SizeEmpty
  <2> QED
    BY <1>2, <2>1 DEF NodeWaits
<1>6. CASE coming[t] # <<>>
  BY <1>6, WaitsForChild
<1>7. CASE going[t] # <<>>
  <2>1. ~(Size(upward[t]) < Socket)
    BY <1>2, <1>7 DEF NodeWaits, HasRoom, Size
  <2>2. Size(upward[t]) = Socket
    BY <1>3, <2>1
  <2> QED
    BY <1>1, <1>4, <1>7, <2>2 DEF RouterCircle, Size
<1> QED
  BY <1>5, <1>6, <1>7 DEF Idle

\* A router that waits in poll leaves nobody waiting but for a child.
LEMMA WaitsInPoll ==
    ASSUME SystemInv, StopInv, Stopped, emitting = <<>>
    PROVE  Settled \/ \E n \in Nodes : ChildCircle(n)
<1>1. ready = {}
  <2> SUFFICES ASSUME ready # {}
               PROVE  FALSE
    OBVIOUS
  <2>1. Nodes \subseteq Nat /\ ready \subseteq Nodes /\ ready \subseteq Heard
    BY SystemFacts DEF SystemInv, StopInv, Types, ReadyAreHeard
  <2>2. PICK n \in ready : \A m \in ready : n <= m
    BY <2>1, LeastNumber
  <2>3. upward[n] = <<>>
    BY <2>2 DEF Stopped, RouterWaits
  <2> QED
    BY <2>1, <2>2, <2>3 DEF Heard
<1>2. \A n \in Nodes : upward[n] = <<>>
  BY <1>1 DEF Stopped, RouterWaits, Heard
<1>3. Socket \in Nat \ {0} /\ Pipe \in Nat \ {0}
  BY SystemAssumption
<1>4. CASE \E n \in Nodes : coming[n] # <<>>
  BY <1>4, WaitsForChild
<1>5. CASE \A n \in Nodes : coming[n] = <<>>
  <2> SUFFICES ASSUME NEW n \in Nodes
               PROVE  /\ ~StdinHasLines(n) /\ Idle(n)
                      /\ upward[n] = <<>> /\ downward[n] = <<>>
                      /\ toChild[n] = <<>> /\ working[n] = <<>> /\ fromChild[n] = <<>>
    BY DEF Settled
  <2>1. NodeWaits(n) /\ ChildWaits(n)
    BY DEF Stopped
  <2>2. HasRoom(<<>>, Socket) /\ HasRoom(<<>>, Pipe)
    BY <1>3, SizeEmpty DEF HasRoom, Size
  <2>3. Idle(n)
    BY <1>2, <1>5, <2>1, <2>2 DEF NodeWaits, Idle
  <2>4. ~StdinHasLines(n) /\ downward[n] = <<>> /\ fromChild[n] = <<>>
    BY <2>1, <2>3 DEF NodeWaits
  <2>5. working[n] = <<>> /\ toChild[n] = <<>>
    BY <2>1, <2>2, <2>4 DEF ChildWaits
  <2> QED
    BY <1>2, <2>3, <2>4, <2>5
<1> QED
  BY <1>4, <1>5

-----------------------------------------------------------------------------
(* Where there are no circles.                                             *)

\* Two nodes that send and receive nothing of each other are in none,
LEMMA OneWayIsRoomy ==
    ASSUME SystemInv, StopInv, OneWay
    PROVE  ~ RouterCircle /\ \A n \in Nodes : ~ ChildCircle(n)
<1>1. ASSUME RouterCircle
      PROVE  FALSE
  <2>1. emitting # <<>> /\ going[Head(emitting).to] # <<>>
    BY <1>1 DEF RouterCircle
  <2>2. Head(emitting) = emitting[1] /\ 1 \in DOMAIN emitting
    <3>1. emitting \in Seq(Copy)
      BY DEF SystemInv, Types
    <3> HIDE DEF Copy
    <3> QED
      BY <2>1, <3>1
  <2>3. PICK n \in Nodes : \E i \in DOMAIN system.edges[n] :
           Head(emitting).to = system.edges[n][i]
    BY <2>2 DEF StopInv, CopiesAreLinked, Linked
  <2>4. PICK i \in DOMAIN system.edges[n] : Head(emitting).to = system.edges[n][i]
    BY <2>3
  <2>5. system.edges[n][i] \in Nodes /\ system.kind[system.edges[n][i]] = "output"
    BY LinkedNode DEF SystemInv, OneWay
  <2> QED
    BY <2>1, <2>4, <2>5 DEF StopInv, OnlySendersSend, Inputs, Filters
<1>2. ASSUME NEW n \in Nodes, ChildCircle(n)
      PROVE  FALSE
  <2>1. working[n] # <<>>
    BY <1>2 DEF ChildCircle
  <2>2. ~ Filters(n)
    BY DEF OneWay, Filters
  <2> QED
    BY <2>1, <2>2 DEF SystemInv, OnlyFiltersHaveChildren
<1> QED
  BY <1>1, <1>2

\* and a chain of few lines has too few for one: with a node there are no more
\* than were read,
LEMMA FewWithNode ==
    ASSUME SystemInv, StopInv, Chain, NEW n \in Nodes, NEW k \in Nat, ReadLessThan(k)
    PROVE  Queued(n) + Size(emitting) <= k
<1>1. AtMost(k)
  BY DEF StopInv, NoMoreThanRead
<1>2. PICK f : IsSum(LastNode, QueuedAt, f) /\ f[LastNode] + Size(emitting) <= k
  BY <1>1 DEF AtMost
<1>3. LastNode \in Nat /\ Nodes = 1..LastNode
  BY NodeNumbers DEF SystemInv
<1>4. \A i \in 1..LastNode : QueuedAt[i] \in Nat /\ QueuedAt[i] = Queued(i)
  BY <1>3, Lengths DEF SystemInv
<1>5. f[LastNode] \in Nat /\ QueuedAt[n] <= f[LastNode]
  BY <1>2, <1>3, <1>4, SumAtLeast
<1>6. Size(emitting) \in Nat /\ QueuedAt[n] = Queued(n) /\ Queued(n) \in Nat
  BY <1>3, <1>4, EmittingSize DEF SystemInv
<1> QED
  BY <1>2, <1>5, <1>6

\* and that is too few.
LEMMA ChainIsRoomy ==
    ASSUME SystemInv, StopInv, Chain, FewLines
    PROVE  ~ RouterCircle /\ \A n \in Nodes : ~ ChildCircle(n)
<1>1. Socket \in Nat /\ Pipe \in Nat
  BY SystemAssumption
<1>2. \A n \in Nodes : read[n] \in Nat /\ system.lines[n] \in Nat
                       /\ read[n] <= system.lines[n]
  BY NodeTypes, SystemFacts DEF SystemInv, StopInv, Types, ReadAtMost
<1>3. ASSUME RouterCircle
      PROVE  FALSE
  <2> DEFINE t == Head(emitting).to
             k == 2 * Socket + 1
  <2>1. t \in Nodes /\ emitting # <<>> /\ emitting \in Seq(Copy)
    <3>1. emitting \in Seq(Copy) /\ emitting # <<>>
      BY <1>3 DEF SystemInv, Types, RouterCircle
    <3>2. Head(emitting) \in Copy
      <4> HIDE DEF Copy
      <4> QED
        BY <3>1
    <3> QED
      BY <3>1, <3>2 DEF Copy
  <2>2. going[t] # <<>> /\ Size(downward[t]) = Socket /\ Size(upward[t]) = Socket
    BY <1>3 DEF RouterCircle, Size
  <2>3. Size(emitting) > 0 /\ Size(emitting) \in Nat
    <3> HIDE DEF Copy
    <3> QED
      BY <2>1, SizeTail
  <2> HIDE DEF t
  <2>4. Size(going[t]) > 0
    <3>1. going[t] \in Seq(AnyLine)
      BY <2>1, NodeTypes DEF SystemInv
    <3> HIDE DEF AnyLine
    <3> QED
      BY <2>2, <3>1, SizeTail
  <2>5. Queued(t) >= 2 * Socket + 1
    <3>1. /\ Size(going[t]) \in Nat /\ Size(local[t]) \in Nat /\ Size(coming[t]) \in Nat
          /\ Size(toChild[t]) \in Nat /\ Size(working[t]) \in Nat
          /\ Size(fromChild[t]) \in Nat
      BY <2>1, Lengths DEF SystemInv
    <3> QED
      BY <1>1, <2>2, <2>4, <3>1 DEF Queued
  <2>6. k \in Nat /\ ReadLessThan(k)
    <3>1. \A n \in Nodes : system.lines[n] < 2 * Socket + 2
      BY DEF FewLines
    <3> QED
      BY <1>1, <1>2, <3>1 DEF ReadLessThan
  <2>7. Queued(t) + Size(emitting) <= k
    <3> HIDE DEF k
    <3> QED
      BY <2>1, <2>6, FewWithNode
  <2>8. Queued(t) \in Nat
    BY <2>1, Lengths DEF SystemInv
  <2> QED
    BY <1>1, <2>3, <2>5, <2>7, <2>8
<1>4. ASSUME NEW n \in Nodes, ChildCircle(n)
      PROVE  FALSE
  <2> DEFINE k == 2 * Pipe + 1
  <2>1. /\ coming[n] # <<>> /\ Size(toChild[n]) = Pipe
        /\ working[n] # <<>> /\ Size(fromChild[n]) = Pipe
    BY <1>4 DEF ChildCircle, Size
  <2>2. Filters(n)
    BY <2>1 DEF SystemInv, OnlyFiltersHaveChildren
  <2>3. Size(coming[n]) > 0 /\ Size(working[n]) > 0
    <3>1. coming[n] \in Seq(AnyLine) /\ working[n] \in Seq(AnyLine)
      BY NodeTypes DEF SystemInv
    <3> HIDE DEF AnyLine
    <3> QED
      BY <2>1, <3>1, SizeTail
  <2>4. Queued(n) >= 2 * Pipe + 2
    <3>1. /\ Size(going[n]) \in Nat /\ Size(upward[n]) \in Nat /\ Size(local[n]) \in Nat
          /\ Size(downward[n]) \in Nat /\ Size(coming[n]) \in Nat
          /\ Size(working[n]) \in Nat
      BY Lengths DEF SystemInv
    <3> QED
      BY <1>1, <2>1, <2>3, <3>1 DEF Queued
  <2>5. k \in Nat /\ ReadLessThan(k)
    <3>1. \A m \in Nodes : system.lines[m] < 2 * Pipe + 2
      BY <2>2 DEF FewLines
    <3> QED
      BY <1>1, <1>2, <3>1 DEF ReadLessThan
  <2>6. Queued(n) + Size(emitting) <= k
    <3> HIDE DEF k
    <3> QED
      BY <2>5, FewWithNode
  <2>7. Queued(n) \in Nat /\ Size(emitting) \in Nat
    BY Lengths, EmittingSize DEF SystemInv
  <2> QED
    BY <1>1, <2>4, <2>6, <2>7
<1> QED
  BY <1>3, <1>4

\* Whatever the systems, the sockets, the buffers and the pipes: when every process
\* waits and the router runs, no line is on its way but for what the router keeps, or
\* two processes write to each other; and neither where no node both sends and
\* receives, nor in a chain of few lines, they ever do.
THEOREM StopsAreCircles == SystemSpec => []StopsOnlyInCircles
<1> DEFINE Inv == alive => SystemInv /\ StopInv
<1>1. SystemInit => Inv
  BY SystemStarts, StopStarts
<1>2. Inv /\ [SystemNext]_systemVars => Inv'
  BY StopInvInductive, StepsWhileAlive
<1>3. Inv => StopsOnlyInCircles
  <2> SUFFICES ASSUME SystemInv, StopInv, Stopped, ~ Settled
               PROVE  ~Roomy /\ (RouterCircle \/ \E n \in Nodes : ChildCircle(n))
    BY DEF StopsOnlyInCircles
  <2>1. RouterCircle \/ \E n \in Nodes : ChildCircle(n)
    BY WaitsForNode, WaitsInPoll
  <2>2. ~Roomy
    BY <2>1, OneWayIsRoomy, ChainIsRoomy DEF Roomy
  <2> QED
    BY <2>1, <2>2
<1> HIDE DEF Inv
<1> QED
  BY <1>1, <1>2, <1>3, PTL DEF SystemSpec

-----------------------------------------------------------------------------
(* Why the router ends.                                                    *)

\* The lines of a node that the router has still to read, those that it has read,
OnWay(n) == Size(going[n]) + Size(upward[n]) + Size(fromChild[n])
Taken(n) == Begun(n) - OnWay(n)

\* and what of them is left behind: of a read of k lines all but one, and k is no
\* more than a socket holds.
Behind(n) == Taken(n) * (Socket - 1) >= Size(local[n]) * Socket
BurstsBehind == \A n \in Nodes : Behind(n)

\* A read of k more lines.
LEMMA ReadBehind ==
    ASSUME NEW S \in Nat \ {0}, NEW t \in Int, NEW l \in Nat, NEW k \in Nat, k <= S,
           t * (S - 1) >= l * S
    PROVE  (t + k) * (S - 1) >= (l + k - 1) * S
<1>1. (t + k) * (S - 1) = t * (S - 1) + (k * S - k)
  OBVIOUS
<1>2. (l + k - 1) * S = l * S + (k * S - S)
  OBVIOUS
<1> QED
  BY <1>1, <1>2

\* A read that overflows a buffer of B lines, of a node with b lines.
LEMMA ReadOverflows ==
    ASSUME NEW S \in Nat \ {0}, NEW t \in Int, NEW l \in Nat, NEW k \in Nat, k <= S,
           t * (S - 1) >= l * S, NEW B \in Nat, k >= B - l, NEW b \in Int, b >= t + k
    PROVE  b * (S - 1) >= (B - 1) * S
<1>1. (t + k) * (S - 1) >= (l + k - 1) * S
  BY ReadBehind
<1>2. (l + k - 1) * S >= (B - 1) * S
  <2>1. PICK i \in Nat : l + k - 1 = (B - 1) + i
    <3>1. (l + k - 1) - (B - 1) \in Nat /\ l + k - 1 = (B - 1) + ((l + k - 1) - (B - 1))
      OBVIOUS
    <3> QED
      BY <3>1
  <2>2. ((B - 1) + i) * S = (B - 1) * S + i * S /\ i * S >= 0
    OBVIOUS
  <2> QED
    BY <2>1, <2>2
<1>3. b * (S - 1) >= (t + k) * (S - 1)
  <2>1. PICK i \in Nat : b = (t + k) + i
    <3>1. b - (t + k) \in Nat /\ b = (t + k) + (b - (t + k))
      OBVIOUS
    <3> QED
      BY <3>1
  <2>2. S - 1 \in Nat
    OBVIOUS
  <2>3. ((t + k) + i) * (S - 1) = (t + k) * (S - 1) + i * (S - 1) /\ i * (S - 1) >= 0
    BY <2>2
  <2> QED
    BY <2>1, <2>3
<1>4. /\ b * (S - 1) \in Int /\ (t + k) * (S - 1) \in Int
      /\ (l + k - 1) * S \in Int /\ (B - 1) * S \in Int
  OBVIOUS
<1> QED
  BY <1>1, <1>2, <1>3, <1>4

\* The lines of a node are counted by numbers.
LEMMA TakenType ==
    ASSUME Types, NEW n \in Nodes
    PROVE  Begun(n) \in Nat /\ OnWay(n) \in Nat /\ Taken(n) \in Int
<1>1. Begun(n) \in Nat
  BY DEF Types, Begun
<1>2. OnWay(n) \in Nat
  BY Lengths DEF OnWay
<1> QED
  BY <1>1, <1>2 DEF Taken

\* Only the router takes lines.
LEMMA BehindKept ==
    ASSUME BurstsBehind, system' = system, local' = local,
           \A n \in Nodes : Taken(n)' = Taken(n)
    PROVE  BurstsBehind'
BY DEF BurstsBehind, Behind, Nodes

\* A node reads its stdin,
LEMMA ReadStdinBursts ==
    ASSUME SystemInv, BurstsBehind, NEW n \in Nodes, ReadStdin(n)
    PROVE  BurstsBehind'
<1>1. PICK j \in 1..(system.lines[n] - read[n]) :
         /\ read' = [read EXCEPT ![n] = read[n] + j]
         /\ going' = [going EXCEPT ![n] = [i \in 1..j |-> Line(n, read[n] + i)]]
  BY DEF ReadStdin
<1>2. /\ going[n] = <<>> /\ ~ Filters(n)
      /\ UNCHANGED <<system, upward, local, fromChild, answered>>
  BY DEF ReadStdin, Idle, StdinHasLines, Inputs, Filters
<1>3. read[n] \in Nat /\ j \in Nat
  <2>1. read[n] \in Nat /\ system.lines[n] \in Nat
    BY NodeTypes, SystemFacts DEF SystemInv, Types
  <2> QED
    BY <2>1
<1>4. Size(going'[n]) = j /\ Size(going[n]) = 0
  <2>1. going'[n] = [i \in 1..j |-> Line(n, read[n] + i)]
    BY <1>1 DEF SystemInv, Types
  <2> DEFINE more == [i \in 1..j |-> Line(n, read[n] + i)]
  <2>2. more \in [1..j -> {more[i] : i \in 1..j}]
    OBVIOUS
  <2> HIDE DEF more
  <2>3. Len(more) = j
    BY <1>3, <2>2, FunctionIsSeq
  <2> QED
    BY <1>2, <2>1, <2>3, SizeEmpty DEF Size, more
<1>5. /\ read'[n] = read[n] + j
      /\ \A m \in Nodes : m # n => read'[m] = read[m] /\ going'[m] = going[m]
  BY <1>1 DEF SystemInv, Types
<1>6. Taken(n)' = Taken(n)
  <2>1. Begun(n) = read[n] /\ Begun(n)' = read[n] + j
    BY <1>2, <1>5 DEF Begun, Filters
  <2>2. Size(upward[n]) \in Nat /\ Size(fromChild[n]) \in Nat
    BY Lengths DEF SystemInv
  <2>3. OnWay(n) = Size(upward[n]) + Size(fromChild[n])
        /\ OnWay(n)' = j + Size(upward[n]) + Size(fromChild[n])
    BY <1>2, <1>4, <2>2 DEF OnWay
  <2> QED
    BY <1>3, <2>1, <2>2, <2>3 DEF Taken
<1>7. \A m \in Nodes : m # n => Taken(m)' = Taken(m)
  BY <1>2, <1>5 DEF Taken, Begun, OnWay, Filters
<1> QED
  BY <1>2, <1>6, <1>7, BehindKept

\* or its child,
LEMMA ReadChildBursts ==
    ASSUME SystemInv, BurstsBehind, NEW n \in Nodes, ReadChild(n)
    PROVE  BurstsBehind'
<1>1. PICK k \in DOMAIN fromChild[n] :
         /\ going' = [going EXCEPT ![n] = SubSeq(fromChild[n], 1, k)]
         /\ fromChild' = [fromChild EXCEPT ![n] =
                            SubSeq(fromChild[n], k + 1, Len(fromChild[n]))]
  BY DEF ReadChild
<1>2. going[n] = <<>> /\ UNCHANGED <<system, read, upward, local, answered>>
  BY DEF ReadChild, Idle
<1>3. /\ Size(going'[n]) = k /\ Size(fromChild'[n]) = Size(fromChild[n]) - k
      /\ k \in Nat \ {0} /\ Size(going[n]) = 0
  <2>1. fromChild[n] \in Seq(AnyLine)
    BY NodeTypes DEF SystemInv
  <2>2. /\ going'[n] = SubSeq(fromChild[n], 1, k)
        /\ fromChild'[n] = SubSeq(fromChild[n], k + 1, Len(fromChild[n]))
    BY <1>1 DEF SystemInv, Types
  <2> HIDE DEF AnyLine
  <2> QED
    BY <1>2, <2>1, <2>2, SizeCut, SizeEmpty
<1>4. \A m \in Nodes : m # n => going'[m] = going[m] /\ fromChild'[m] = fromChild[m]
  BY <1>1 DEF SystemInv, Types
<1>5. OnWay(n)' = OnWay(n)
  <2>1. Size(upward[n]) \in Nat /\ Size(fromChild[n]) \in Nat
    BY Lengths DEF SystemInv
  <2> QED
    BY <1>2, <1>3, <2>1 DEF OnWay
<1>6. \A m \in Nodes : Taken(m)' = Taken(m)
  <2>1. \A m \in Nodes : OnWay(m)' = OnWay(m)
    BY <1>2, <1>4, <1>5 DEF OnWay
  <2> QED
    BY <1>2, <2>1 DEF Taken, Begun, Filters
<1> QED
  BY <1>2, <1>6, BehindKept

\* writes to its socket,
LEMMA WriteRouterBursts ==
    ASSUME SystemInv, BurstsBehind, NEW n \in Nodes, WriteRouter(n)
    PROVE  BurstsBehind'
<1>1. /\ going[n] # <<>>
      /\ upward' = [upward EXCEPT ![n] = Append(upward[n], Head(going[n]))]
      /\ going' = [going EXCEPT ![n] = Tail(going[n])]
      /\ UNCHANGED <<system, read, local, fromChild, answered>>
  BY DEF WriteRouter
<1>2. /\ Size(upward'[n]) = Size(upward[n]) + 1
      /\ Size(going'[n]) = Size(going[n]) - 1
  <2>1. upward[n] \in Seq(AnyLine) /\ going[n] \in Seq(AnyLine)
    BY NodeTypes DEF SystemInv
  <2>2. upward'[n] = Append(upward[n], Head(going[n])) /\ going'[n] = Tail(going[n])
    BY <1>1 DEF SystemInv, Types
  <2> HIDE DEF AnyLine
  <2>3. Head(going[n]) \in AnyLine
    BY <1>1, <2>1
  <2> QED
    BY <1>1, <2>1, <2>2, <2>3, SizeAppend, SizeTail
<1>3. \A m \in Nodes : m # n => going'[m] = going[m] /\ upward'[m] = upward[m]
  BY <1>1 DEF SystemInv, Types
<1>4. OnWay(n)' = OnWay(n)
  <2>1. /\ Size(going[n]) \in Nat /\ Size(upward[n]) \in Nat /\ Size(fromChild[n]) \in Nat
        /\ Size(fromChild'[n]) = Size(fromChild[n])
    BY <1>1, Lengths DEF SystemInv
  <2> QED
    BY <1>2, <2>1 DEF OnWay
<1>5. \A m \in Nodes : Taken(m)' = Taken(m)
  <2>1. \A m \in Nodes : OnWay(m)' = OnWay(m)
    BY <1>1, <1>3, <1>4 DEF OnWay
  <2> QED
    BY <1>1, <2>1 DEF Taken, Begun, Filters
<1> QED
  BY <1>1, <1>5, BehindKept

\* and its child answers.
LEMMA ChildWritesBursts ==
    ASSUME SystemInv, BurstsBehind, NEW n \in Nodes, ChildWrites(n)
    PROVE  BurstsBehind'
<1>1. PICK x \in AnyLine :
      /\ fromChild' = [fromChild EXCEPT ![n] = Append(fromChild[n], x)]
      /\ answered' = [answered EXCEPT ![n] = answered[n] + 1]
      /\ working[n] # <<>> /\ UNCHANGED <<system, read, going, upward, local>>
  <2>1. answered[n] \in Nat /\ answered'[n] = answered[n] + 1
    BY DEF ChildWrites, SystemInv, Types
  <2>2. Line(n, answered'[n]) \in AnyLine
    BY <2>1 DEF Line, AnyLine
  <2> QED
    BY <2>2 DEF ChildWrites
<1>2. Size(fromChild'[n]) = Size(fromChild[n]) + 1
  <2>1. fromChild[n] \in Seq(AnyLine) /\ fromChild'[n] = Append(fromChild[n], x)
    BY <1>1, NodeTypes DEF SystemInv, Types
  <2> HIDE DEF AnyLine
  <2> QED
    BY <1>1, <2>1, SizeAppend
<1>3. /\ answered'[n] = answered[n] + 1 /\ answered[n] \in Nat
      /\ \A m \in Nodes : m # n => /\ answered'[m] = answered[m]
                                   /\ fromChild'[m] = fromChild[m]
  BY <1>1 DEF SystemInv, Types
<1>4. Filters(n)
  BY <1>1 DEF SystemInv, OnlyFiltersHaveChildren
<1>5. Taken(n)' = Taken(n)
  <2>1. Begun(n) = answered[n] /\ Begun(n)' = answered[n] + 1
    BY <1>1, <1>3, <1>4 DEF Begun, Filters
  <2>2. /\ Size(going[n]) \in Nat /\ Size(upward[n]) \in Nat /\ Size(fromChild[n]) \in Nat
        /\ Size(going'[n]) = Size(going[n]) /\ Size(upward'[n]) = Size(upward[n])
    BY <1>1, Lengths DEF SystemInv
  <2>3. OnWay(n)' = OnWay(n) + 1 /\ OnWay(n) \in Nat
    BY <1>2, <2>2 DEF OnWay
  <2> QED
    BY <1>3, <2>1, <2>3 DEF Taken
<1>6. \A m \in Nodes : m # n => Taken(m)' = Taken(m)
  BY <1>1, <1>3 DEF Taken, Begun, OnWay, Filters
<1> QED
  BY <1>1, <1>5, <1>6, BehindKept

\* What a read takes from a socket, and leaves there.
LEMMA ReadsTake ==
    ASSUME SystemInv, StopInv, NEW n \in Nodes, NEW k \in DOMAIN upward[n], Reads(n, k)
    PROVE  /\ k \in Nat \ {0} /\ k <= Size(upward[n]) /\ k <= Socket
           /\ Size(upward'[n]) = Size(upward[n]) - k
           /\ \A m \in Nodes : m # n => upward'[m] = upward[m]
<1>1. upward[n] \in Seq(AnyLine)
  BY NodeTypes DEF SystemInv
<1>2. /\ upward'[n] = SubSeq(upward[n], k + 1, Len(upward[n]))
      /\ \A m \in Nodes : m # n => upward'[m] = upward[m]
  BY DEF Reads, SystemInv, Types
<1>3. k \in Nat \ {0} /\ k <= Size(upward[n]) /\ Size(upward[n]) \in Nat
      /\ Size(SubSeq(upward[n], k + 1, Len(upward[n]))) = Size(upward[n]) - k
  <2> HIDE DEF AnyLine
  <2>1. k <= Size(upward[n])
    BY <1>1 DEF Size
  <2> QED
    BY <1>1, <2>1, SizeCut
<1>4. Size(upward[n]) <= Socket /\ Socket \in Nat
  BY SystemAssumption DEF StopInv, QueuesAreBounded
<1> QED
  BY <1>2, <1>3, <1>4

\* Of a read all lines but the one that is handled stay behind.
LEMMA ServeBursts ==
    ASSUME SystemInv, StopInv, BurstsBehind, NEW n \in Nodes, Serve(n)
    PROVE  BurstsBehind'
<1> DEFINE a(k) == SubSeq(upward[n], 1, k)
           bytes(k) == Cat(local[n], a(k))
<1>1. PICK k \in DOMAIN upward[n] :
         Reads(n, k) /\ local' = [local EXCEPT ![n] = Tail(bytes(k))]
  BY DEF Serve, Handled, Cat
<1>2. UNCHANGED <<system, read, going, fromChild, answered>>
  BY DEF Serve
<1>3. Size(Tail(bytes(k))) = Size(local[n]) + k - 1
  <2>1. upward[n] \in Seq(AnyLine) /\ local[n] \in Seq(AnyLine)
    BY NodeTypes DEF SystemInv
  <2> HIDE DEF AnyLine
  <2>2. a(k) \in Seq(AnyLine) /\ Size(a(k)) = k /\ k \in Nat \ {0}
    BY <2>1, CutAt, SizeCut
  <2> HIDE DEF a
  <2>3. bytes(k) \in Seq(AnyLine) /\ Size(bytes(k)) = Size(local[n]) + k
    BY <2>1, <2>2, CatType, CatLength DEF Size
  <2>4. Size(local[n]) \in Nat
    BY <2>1, SeqLength
  <2> HIDE DEF bytes
  <2>5. bytes(k) # <<>>
    BY <2>2, <2>3, <2>4, SizeEmpty
  <2> QED
    BY <2>2, <2>3, <2>4, <2>5, SizeTail
<1> HIDE DEF a, bytes
<1>4. /\ k \in Nat \ {0} /\ k <= Socket /\ Size(upward'[n]) = Size(upward[n]) - k
      /\ \A m \in Nodes : m # n => upward'[m] = upward[m]
  BY <1>1, ReadsTake
<1>5. /\ Size(local'[n]) = Size(local[n]) + k - 1
      /\ \A m \in Nodes : m # n => local'[m] = local[m]
  BY <1>1, <1>3 DEF SystemInv, Types
<1>6. Taken(n)' = Taken(n) + k
  <2>1. Begun(n)' = Begun(n) /\ Begun(n) \in Nat
    BY <1>2, TakenType DEF Begun, Filters, SystemInv
  <2>2. /\ Size(going[n]) \in Nat /\ Size(upward[n]) \in Nat /\ Size(fromChild[n]) \in Nat
    BY Lengths DEF SystemInv
  <2>3. OnWay(n)' = OnWay(n) - k /\ OnWay(n) \in Nat
    BY <1>2, <1>4, <2>2 DEF OnWay
  <2> QED
    BY <1>4, <2>1, <2>3 DEF Taken
<1>7. Behind(n)'
  <2>1. /\ Taken(n) \in Int /\ Size(local[n]) \in Nat /\ Socket \in Nat \ {0}
        /\ Taken(n) * (Socket - 1) >= Size(local[n]) * Socket
    BY TakenType, Lengths, SystemAssumption DEF SystemInv, BurstsBehind, Behind
  <2>2. (Taken(n) + k) * (Socket - 1) >= (Size(local[n]) + k - 1) * Socket
    BY <1>4, <2>1, ReadBehind
  <2> QED
    BY <1>5, <1>6, <2>2 DEF Behind
<1>8. \A m \in Nodes : m # n => Behind(m)'
  <2>1. \A m \in Nodes : m # n => Taken(m)' = Taken(m)
    BY <1>2, <1>4 DEF Taken, Begun, OnWay, Filters
  <2> QED
    BY <1>5, <2>1 DEF Behind, BurstsBehind
<1> QED
  BY <1>2, <1>7, <1>8 DEF BurstsBehind, Nodes

\* So does every step with a router that runs on,
LEMMA BurstsStep ==
    ASSUME SystemInv, StopInv, BurstsBehind, [SystemNext]_systemVars, alive'
    PROVE  BurstsBehind'
<1>1. ASSUME UNCHANGED <<system, read, going, upward, local, fromChild, answered>>
      PROVE  BurstsBehind'
  <2>1. \A n \in Nodes : Taken(n)' = Taken(n)
    BY <1>1 DEF Taken, Begun, OnWay, Filters
  <2> QED
    BY <1>1, <2>1, BehindKept
<1>2. CASE Poll \/ Emit \/ UNCHANGED systemVars
  BY <1>1, <1>2 DEF Poll, Emit, systemVars
<1>3. ASSUME NEW n \in Nodes, Serve(n)
      PROVE  BurstsBehind'
  BY <1>3, ServeBursts
<1>4. ASSUME NEW n \in Nodes, ReadRouter(n) \/ PassOn(n) \/ ChildReads(n)
      PROVE  BurstsBehind'
  BY <1>1, <1>4 DEF ReadRouter, PassOn, ChildReads
<1>5. ASSUME NEW n \in Nodes, NodeStep(n) \/ ChildStep(n)
      PROVE  BurstsBehind'
  BY <1>4, <1>5, ReadStdinBursts, ReadChildBursts, WriteRouterBursts, ChildWritesBursts
     DEF NodeStep, ChildStep
<1> QED
  BY <1>2, <1>3, <1>5, StepsWhileAlive

\* and what ends it is a read of a node whose bursts have filled the buffer.
LEMMA EndsOfBursts ==
    ASSUME SystemInv, StopInv, BurstsBehind, NEW n \in Nodes, Overflow(n)
    PROVE  BurstsOverflow'
<1>1. PICK k \in DOMAIN upward[n] : Reads(n, k) /\ k >= Buffer - Len(local[n])
  BY DEF Overflow
<1>2. UNCHANGED <<system, read, answered>>
  BY DEF Overflow
<1>3. k \in Nat /\ k <= Socket /\ k <= Size(upward[n])
  BY <1>1, ReadsTake
<1>4. Taken(n) + k <= Begun(n)
  <2>1. /\ Size(going[n]) \in Nat /\ Size(upward[n]) \in Nat /\ Size(fromChild[n]) \in Nat
        /\ Begun(n) \in Nat
    BY Lengths, TakenType DEF SystemInv
  <2> QED
    BY <1>3, <2>1 DEF Taken, OnWay
<1>5. Begun(n) * (Socket - 1) >= (Buffer - 1) * Socket
  <2>1. /\ Taken(n) \in Int /\ Begun(n) \in Int /\ Size(local[n]) \in Nat
        /\ Socket \in Nat \ {0} /\ Buffer \in Nat
        /\ Taken(n) * (Socket - 1) >= Size(local[n]) * Socket
    BY TakenType, Lengths, SystemAssumption DEF SystemInv, BurstsBehind, Behind
  <2>2. k >= Buffer - Size(local[n])
    BY <1>1 DEF Size
  <2> HIDE DEF Taken, Begun
  <2> QED
    BY <1>3, <1>4, <2>1, <2>2, ReadOverflows
<1> QED
  BY <1>2, <1>5 DEF BurstsOverflow, Begun, Filters, Nodes

\* Whatever the systems, the sockets, the buffers and the pipes: the router ends only
\* where the lines of one node, in reads of all that a socket holds, fill its buffer
\* but for the one of each read that is handled.
THEOREM OverflowNeedsBursts == SystemSpec => []BurstsOverflow
<1> DEFINE Runs == alive => SystemInv /\ StopInv /\ BurstsBehind
           Inv == Runs /\ BurstsOverflow
<1>1. SystemInit => Inv
  <2> SUFFICES ASSUME SystemInit
               PROVE  Inv
    OBVIOUS
  <2>1. SystemInv /\ StopInv /\ alive
    BY SystemStarts, StopStarts DEF SystemInit
  <2>2. BurstsBehind
    <3> SUFFICES ASSUME NEW n \in Nodes
                 PROVE  Behind(n)
      BY DEF BurstsBehind
    <3>1. /\ read[n] = 0 /\ answered[n] = 0 /\ going[n] = <<>> /\ upward[n] = <<>>
          /\ fromChild[n] = <<>> /\ local[n] = <<>>
      BY DEF SystemInit
    <3>2. Taken(n) = 0 /\ Size(local[n]) = 0
      BY <3>1, SizeEmpty DEF Taken, Begun, OnWay
    <3> QED
      BY <3>2, SystemAssumption DEF Behind
  <2> QED
    BY <2>1, <2>2 DEF BurstsOverflow
<1>2. Inv /\ [SystemNext]_systemVars => Inv'
  <2> SUFFICES ASSUME Inv, [SystemNext]_systemVars
               PROVE  Inv'
    OBVIOUS
  <2>1. CASE alive'
    <3>1. alive /\ SystemInv /\ StopInv /\ BurstsBehind
      BY <2>1, StepsWhileAlive
    <3>2. SystemInv' /\ StopInv' /\ BurstsBehind'
      BY <2>1, <3>1, StopInvInductive, BurstsStep
    <3> QED
      BY <2>1, <3>2 DEF BurstsOverflow
  <2>2. CASE ~ alive' /\ alive
    <3>1. PICK n \in Nodes : Overflow(n)
      BY <2>2 DEF SystemNext, RouterStep, NodeStep, ChildStep, Rest, systemVars, Poll, Emit,
                  Serve, ReadStdin, ReadRouter, ReadChild, WriteRouter, PassOn, ChildReads,
                  ChildWrites
    <3>2. BurstsOverflow'
      BY <2>2, <3>1, EndsOfBursts
    <3> QED
      BY <2>2, <3>2
  <2>3. CASE ~ alive
    <3>1. UNCHANGED systemVars
      BY <2>3 DEF SystemNext, RouterStep, NodeStep, ChildStep, Rest, Poll, Emit, Overflow,
                  Reads, Serve, ReadStdin, ReadRouter, ReadChild, WriteRouter, PassOn,
                  ChildReads, ChildWrites
    <3> QED
      BY <2>3, <3>1 DEF systemVars, BurstsOverflow, Begun, Filters, Nodes
  <2> QED
    BY <2>1, <2>2, <2>3
<1>3. Inv => BurstsOverflow
  OBVIOUS
<1> HIDE DEF Inv
<1> QED
  BY <1>1, <1>2, <1>3, PTL DEF SystemSpec

=============================================================================
