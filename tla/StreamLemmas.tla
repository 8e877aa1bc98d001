---------------------------- MODULE StreamLemmas ----------------------------
(***************************************************************************)
(* Lemmas about numbers and sequences that the proofs of several           *)
(* components need: induction over a set of numbers, least elements, and   *)
(* the concatenation of the blocks of a stream (FlattenSeq).               *)
(***************************************************************************)
EXTENDS Integers, Sequences, SequencesExt, FiniteSetTheorems, SequenceTheorems,
        WellFoundedInduction, TLAPS

-----------------------------------------------------------------------------
(* Numbers.                                                                *)

\* Every nonempty set of numbers has a least element.
LEMMA LeastNumber ==
    ASSUME NEW T, T \subseteq Nat, T # {}
    PROVE  \E x \in T : \A y \in T : x <= y
<1>1. IsWellFoundedOn(OpToRel(<, Nat), Nat)
  BY NatLessThanWellFounded
<1>2. PICK x \in T : \A y \in T : ~ (<<y, x>> \in OpToRel(<, Nat))
  BY <1>1, WFMin
<1>3. \A y \in T : ~ (y < x)
  BY <1>2 DEF OpToRel
<1>4. ASSUME NEW y \in T
      PROVE  x <= y
  <2>1. x \in Nat /\ y \in Nat
    OBVIOUS
  <2>2. ~ (y < x)
    BY <1>3
  <2> QED
    BY <2>1, <2>2
<1> QED
  BY <1>4

\* The least element is one of them.
LEMMA MinIsLeast ==
    ASSUME NEW T, T \subseteq Nat, T # {}
    PROVE  Min(T) \in T /\ \A y \in T : Min(T) <= y
BY LeastNumber DEF Min

\* Induction, over a set in place of a formula.
LEMMA SetInduction ==
    ASSUME NEW T, 0 \in T, \A n \in Nat : n \in T => n + 1 \in T
    PROVE  \A n \in Nat : n \in T
<1> SUFFICES ASSUME Nat \ T # {}
             PROVE  FALSE
  OBVIOUS
<1>1. PICK x \in Nat \ T : \A y \in Nat \ T : x <= y
  BY LeastNumber
<1>2. x - 1 \in Nat /\ x - 1 \notin Nat \ T
  BY <1>1
<1> QED
  BY <1>1, <1>2

-----------------------------------------------------------------------------
(* Concatenation, under a name: the provers know much about \o, and lose    *)
(* their way in it when all that is needed is that it is associative.      *)

Cat(s, t) == s \o t

\* A function on the first numbers is a sequence.
LEMMA FunctionIsSeq ==
    ASSUME NEW S, NEW n \in Nat, NEW f \in [1..n -> S]
    PROVE  f \in Seq(S) /\ Len(f) = n /\ DOMAIN f = 1..n
OBVIOUS

\* Two sequences over S make one over S.
LEMMA CatType ==
    ASSUME NEW S, NEW a \in Seq(S), NEW b \in Seq(S)
    PROVE  Cat(a, b) \in Seq(S)
BY ConcatProperties DEF Cat

\* How three sequences are grouped makes no difference.
LEMMA CatAssociative ==
    ASSUME NEW S, NEW a \in Seq(S), NEW b \in Seq(S), NEW c \in Seq(S)
    PROVE  Cat(Cat(a, b), c) = Cat(a, Cat(b, c))
BY ConcatAssociative DEF Cat

\* Nothing added to a sequence, at either end, leaves it as it is.
LEMMA CatNothing ==
    ASSUME NEW S, NEW a \in Seq(S)
    PROVE  Cat(a, <<>>) = a /\ Cat(<<>>, a) = a
BY ConcatEmptySeq DEF Cat

\* Whatever follows a piece of a sequence is still there when more is appended.
LEMMA Prolong ==
    ASSUME NEW S, NEW u \in Seq(S), NEW q \in Seq(S), NEW r \in Seq(S),
           NEW p \in Seq(S), NEW x, x = Cat(u, Cat(q, r))
    PROVE  \E more \in Seq(S) : Cat(x, p) = Cat(u, Cat(q, more))
<1>1. Cat(x, p) = Cat(u, Cat(Cat(q, r), p))
  BY CatAssociative, CatType
<1>2. Cat(Cat(q, r), p) = Cat(q, Cat(r, p))
  BY CatAssociative
<1>3. Cat(r, p) \in Seq(S)
  BY CatType
<1> QED
  BY <1>1, <1>2, <1>3

\* The same to the left: what is left is the same.
LEMMA CatCancel ==
    ASSUME NEW S, NEW a \in Seq(S), NEW b \in Seq(S), NEW c \in Seq(S),
           Cat(a, b) = Cat(a, c)
    PROVE  b = c
<1>1. a \o b = a \o c
  BY DEF Cat
<1> HIDE DEF Cat
<1> QED
  BY <1>1, ConcatSimplifications

\* Lengths add up.
LEMMA CatLength ==
    ASSUME NEW S, NEW a \in Seq(S), NEW b \in Seq(S)
    PROVE  Len(Cat(a, b)) = Len(a) + Len(b)
BY ConcatProperties DEF Cat

\* The elements of the first sequence come first.
LEMMA CatElement ==
    ASSUME NEW S, NEW a \in Seq(S), NEW b \in Seq(S), NEW i \in 1..Len(a)
    PROVE  Cat(a, b)[i] = a[i]
<1>1. i \in 1..Len(a) + Len(b) /\ i <= Len(a)
  OBVIOUS
<1> QED
  BY <1>1, ConcatProperties DEF Cat

\* Those of the second come behind them.
LEMMA CatSecond ==
    ASSUME NEW S, NEW a \in Seq(S), NEW b \in Seq(S), NEW i \in 1..Len(b)
    PROVE  Cat(a, b)[Len(a) + i] = b[i]
<1>1. Len(a) \in Nat /\ Len(b) \in Nat /\ i \in Nat /\ i > 0
  OBVIOUS
<1>2. Len(a) + i \in 1..Len(a) + Len(b) /\ ~ (Len(a) + i <= Len(a))
      /\ Len(a) + i - Len(a) = i
  BY <1>1
<1>3. (a \o b)[Len(a) + i] = b[Len(a) + i - Len(a)]
  BY <1>2, ConcatProperties
<1> QED
  BY <1>2, <1>3 DEF Cat

\* All that in one place.
LEMMA CatFacts ==
    ASSUME NEW S, NEW a \in Seq(S), NEW b \in Seq(S)
    PROVE  /\ Cat(a, b) \in Seq(S) /\ Len(Cat(a, b)) = Len(a) + Len(b)
           /\ Len(a) \in Nat /\ Len(b) \in Nat
           /\ \A i \in 1..Len(a) : Cat(a, b)[i] = a[i]
           /\ \A i \in 1..Len(b) : Cat(a, b)[Len(a) + i] = b[i]
<1>1. ASSUME NEW i \in 1..Len(a)
      PROVE  Cat(a, b)[i] = a[i]
  BY CatElement
<1>2. ASSUME NEW i \in 1..Len(b)
      PROVE  Cat(a, b)[Len(a) + i] = b[i]
  BY CatSecond
<1>3. Cat(a, b) \in Seq(S) /\ Len(Cat(a, b)) = Len(a) + Len(b)
  BY CatType, CatLength
<1>4. Len(a) \in Nat /\ Len(b) \in Nat
  OBVIOUS
<1>5. \A i \in 1..Len(a) : Cat(a, b)[i] = a[i]
  BY <1>1
<1>6. \A i \in 1..Len(b) : Cat(a, b)[Len(a) + i] = b[i]
  BY <1>2
<1> QED
  BY <1>3, <1>4, <1>5, <1>6

\* A sequence is its front and the rest.
LEMMA CatSplit ==
    ASSUME NEW S, NEW s \in Seq(S), NEW n \in 0..Len(s)
    PROVE  /\ SubSeq(s, 1, n) \in Seq(S) /\ Len(SubSeq(s, 1, n)) = n
           /\ SubSeq(s, n + 1, Len(s)) \in Seq(S)
           /\ Len(SubSeq(s, n + 1, Len(s))) = Len(s) - n
           /\ s = Cat(SubSeq(s, 1, n), SubSeq(s, n + 1, Len(s)))
<1>1. Len(s) \in Nat /\ \A i \in 1..Len(s) : s[i] \in S
  BY ElementOfSeq
<1>2. /\ SubSeq(s, 1, n) \in Seq(S) /\ Len(SubSeq(s, 1, n)) = n
      /\ SubSeq(s, n + 1, Len(s)) \in Seq(S)
      /\ Len(SubSeq(s, n + 1, Len(s))) = Len(s) - n
  BY <1>1
<1>3. 1 \in 1..Len(s) + 1 /\ n \in 1 - 1..Len(s) /\ Len(s) \in n..Len(s)
  BY <1>1
<1>4. SubSeq(s, 1, n) \o SubSeq(s, n + 1, Len(s)) = SubSeq(s, 1, Len(s))
  BY <1>3, ConcatAdjacentSubSeq
<1> QED
  BY <1>2, <1>4, SubSeqFull DEF Cat

\* Of two ways to cut the same sequence, the longer front begins with the
\* shorter one.
LEMMA CatFront ==
    ASSUME NEW S, NEW p \in Seq(S), NEW r \in Seq(S), NEW x \in Seq(S),
           NEW y \in Seq(S), Cat(p, r) = Cat(x, y), Len(p) <= Len(x)
    PROVE  x = Cat(p, SubSeq(x, Len(p) + 1, Len(x)))
<1>1. Len(p) \in 0..Len(x)
  OBVIOUS
<1> DEFINE f == SubSeq(x, 1, Len(p))
           g == SubSeq(x, Len(p) + 1, Len(x))
<1>2. f \in Seq(S) /\ Len(f) = Len(p) /\ x = Cat(f, g)
  BY <1>1, CatSplit
<1>3. ASSUME NEW i \in 1..Len(p)
      PROVE  f[i] = p[i]
  <2>1. Cat(p, r)[i] = p[i]
    BY CatElement
  <2>2. i \in 1..Len(x)
    OBVIOUS
  <2>3. Cat(x, y)[i] = x[i]
    BY <2>2, CatElement
  <2>4. f[i] = x[i]
    BY <2>2
  <2> QED
    BY <2>1, <2>3, <2>4
<1> HIDE DEF f, g
<1>4. f = p
  BY <1>2, <1>3, SeqEqual
<1> QED
  BY <1>2, <1>4 DEF g

-----------------------------------------------------------------------------
(* FlattenSeq.                                                             *)

IsFlattening(f, ss) ==
    f = [i \in 1..Len(ss) |-> IF i = 1 THEN ss[i] ELSE f[i - 1] \o ss[i]]

\* The definition, where the recursive function is the one that is chosen.
LEMMA FlattenUnfolded ==
    ASSUME NEW ss, Len(ss) # 0
    PROVE  FlattenSeq(ss) = (CHOOSE f : IsFlattening(f, ss))[Len(ss)]
BY DEF FlattenSeq, IsFlattening

\* There is such a function,
LEMMA FlatteningExists ==
    ASSUME NEW S, NEW ss \in Seq(Seq(S))
    PROVE  \E f : IsFlattening(f, ss)
<1> DEFINE Upto(f, m) ==
             f = [i \in 1..m |-> IF i = 1 THEN ss[i] ELSE f[i - 1] \o ss[i]]
           T == {m \in Nat : \E f : Upto(f, m)}
<1>1. 0 \in T
  <2>1. Upto(<<>>, 0)
    OBVIOUS
  <2> QED
    BY <2>1
<1>2. ASSUME NEW m \in Nat, m \in T
      PROVE  m + 1 \in T
  <2>1. PICK f : Upto(f, m)
    BY <1>2
  <2> DEFINE g == [i \in 1..m + 1 |->
                    IF i \in 1..m THEN f[i]
                    ELSE IF i = 1 THEN ss[i] ELSE f[i - 1] \o ss[i]]
  <2>2. \A i \in 1..m : g[i] = f[i]
    OBVIOUS
  <2>3. ASSUME NEW i \in 1..m + 1
        PROVE  g[i] = IF i = 1 THEN ss[i] ELSE g[i - 1] \o ss[i]
    <3>1. i # 1 => i - 1 \in 1..m /\ g[i - 1] = f[i - 1]
      BY <2>2
    <3>2. CASE i \in 1..m
      <4>1. f[i] = IF i = 1 THEN ss[i] ELSE f[i - 1] \o ss[i]
        BY <2>1, <3>2
      <4> QED
        BY <2>2, <3>1, <3>2, <4>1
    <3>3. CASE i \notin 1..m
      <4>1. g[i] = IF i = 1 THEN ss[i] ELSE f[i - 1] \o ss[i]
        BY <3>3
      <4> QED
        BY <3>1, <4>1
    <3> QED
      BY <3>2, <3>3
  <2> HIDE DEF g
  <2>4. g = [i \in 1..m + 1 |-> g[i]]
    BY DEF g
  <2>5. Upto(g, m + 1)
    BY <2>3, <2>4, Zenon
  <2> HIDE DEF Upto
  <2> QED
    BY <2>5
<1> HIDE DEF T
<1>3. \A m \in Nat : m \in T
  BY <1>1, <1>2, SetInduction
<1>4. Len(ss) \in T
  BY <1>3
<1> QED
  BY <1>4 DEF IsFlattening, T

\* Its values, one by one.
LEMMA FlatteningAt ==
    ASSUME NEW ss, NEW f, IsFlattening(f, ss), NEW i \in 1..Len(ss)
    PROVE  f[i] = IF i = 1 THEN ss[i] ELSE f[i - 1] \o ss[i]
<1> DEFINE h == [j \in 1..Len(ss) |-> IF j = 1 THEN ss[j] ELSE f[j - 1] \o ss[j]]
<1>1. f = h
  BY DEF IsFlattening
<1>2. h[i] = IF i = 1 THEN ss[i] ELSE f[i - 1] \o ss[i]
  OBVIOUS
<1> HIDE DEF h
<1> QED
  BY <1>1, <1>2

SameFront(ss, tt, n) ==
    /\ 1..n \subseteq 1..Len(ss) /\ 1..n \subseteq 1..Len(tt)
    /\ \A i \in 1..n : ss[i] = tt[i]

\* and two of them agree, on the part of the sequences that is the same.
LEMMA FlatteningsAgree ==
    ASSUME NEW ss, NEW tt, NEW f, NEW g,
           IsFlattening(f, ss), IsFlattening(g, tt), NEW n \in Nat,
           SameFront(ss, tt, n)
    PROVE  \A i \in 1..n : f[i] = g[i]
<1>0. /\ 1..n \subseteq 1..Len(ss) /\ 1..n \subseteq 1..Len(tt)
      /\ \A i \in 1..n : ss[i] = tt[i]
  BY DEF SameFront
<1> DEFINE T == {m \in Nat : m \in 1..n => f[m] = g[m]}
<1>1. 0 \in T
  OBVIOUS
<1>2. ASSUME NEW m \in Nat, m \in T
      PROVE  m + 1 \in T
  <2> SUFFICES ASSUME m + 1 \in 1..n
               PROVE  f[m + 1] = g[m + 1]
    OBVIOUS
  <2>1. /\ f[m + 1] = IF m + 1 = 1 THEN ss[m + 1] ELSE f[m + 1 - 1] \o ss[m + 1]
        /\ g[m + 1] = IF m + 1 = 1 THEN tt[m + 1] ELSE g[m + 1 - 1] \o tt[m + 1]
    <3>1. m + 1 \in 1..Len(ss) /\ m + 1 \in 1..Len(tt)
      BY <1>0
    <3> QED
      BY <3>1, FlatteningAt
  <2>2. ss[m + 1] = tt[m + 1] /\ m + 1 - 1 = m
    BY <1>0
  <2>3. m + 1 # 1 => f[m] = g[m]
    BY <1>2
  <2> QED
    BY <2>1, <2>2, <2>3
<1> HIDE DEF T
<1>3. \A m \in Nat : m \in T
  BY <1>1, <1>2, SetInduction
<1> QED
  BY <1>3 DEF T

\* What a flattening is made of.
LEMMA FlatteningType ==
    ASSUME NEW S, NEW ss \in Seq(Seq(S)), NEW f, IsFlattening(f, ss)
    PROVE  \A i \in 1..Len(ss) : f[i] \in Seq(S)
<1> DEFINE T == {m \in Nat : m \in 1..Len(ss) => f[m] \in Seq(S)}
<1>1. 0 \in T
  OBVIOUS
<1>2. ASSUME NEW m \in Nat, m \in T
      PROVE  m + 1 \in T
  <2> SUFFICES ASSUME m + 1 \in 1..Len(ss)
               PROVE  f[m + 1] \in Seq(S)
    OBVIOUS
  <2>1. f[m + 1] = IF m + 1 = 1 THEN ss[m + 1] ELSE f[m + 1 - 1] \o ss[m + 1]
    BY FlatteningAt
  <2>2. ss[m + 1] \in Seq(S) /\ m + 1 - 1 = m
    OBVIOUS
  <2>3. m + 1 # 1 => f[m] \in Seq(S)
    BY <1>2
  <2> QED
    BY <2>1, <2>2, <2>3
<1> HIDE DEF T
<1>3. \A m \in Nat : m \in T
  BY <1>1, <1>2, SetInduction
<1> QED
  BY <1>3 DEF T

\* Nothing flattened is nothing.
LEMMA FlattenEmpty == FlattenSeq(<<>>) = <<>>
BY DEF FlattenSeq

\* The stream of some blocks is the last value of a flattening.
LEMMA FlattenIsLast ==
    ASSUME NEW S, NEW ss \in Seq(Seq(S)), Len(ss) # 0
    PROVE  \E f : IsFlattening(f, ss) /\ FlattenSeq(ss) = f[Len(ss)]
<1>1. IsFlattening(CHOOSE f : IsFlattening(f, ss), ss)
  BY FlatteningExists
<1> QED
  BY <1>1, FlattenUnfolded

\* The stream of blocks over S is a sequence over S.
LEMMA FlattenType ==
    ASSUME NEW S, NEW ss \in Seq(Seq(S))
    PROVE  FlattenSeq(ss) \in Seq(S)
<1>1. CASE Len(ss) = 0
  <2>1. ss = <<>>
    BY <1>1
  <2>2. <<>> \in Seq(S)
    OBVIOUS
  <2>3. FlattenSeq(ss) = <<>>
    BY <2>1, FlattenEmpty
  <2> QED
    BY <2>2, <2>3
<1>2. CASE Len(ss) # 0
  <2>1. PICK f : IsFlattening(f, ss) /\ FlattenSeq(ss) = f[Len(ss)]
    BY <1>2, FlattenIsLast
  <2>2. Len(ss) \in 1..Len(ss)
    BY <1>2
  <2> QED
    BY <2>1, <2>2, FlatteningType
<1> QED
  BY <1>1, <1>2

\* One block more at the end of the blocks is one block more of the stream.
LEMMA FlattenAppend ==
    ASSUME NEW S, NEW ss \in Seq(Seq(S)), NEW x \in Seq(S)
    PROVE  FlattenSeq(Append(ss, x)) = FlattenSeq(ss) \o x
<1>1. PICK tt \in Seq(Seq(S)) : tt = Append(ss, x)
  BY AppendProperties, Zenon
<1>2. PICK n \in Nat : n = Len(ss)
  OBVIOUS
<1>3. Len(tt) = n + 1 /\ tt[n + 1] = x /\ \A i \in 1..n : ss[i] = tt[i]
  BY <1>1, <1>2
<1>4. PICK g : IsFlattening(g, tt) /\ FlattenSeq(tt) = g[n + 1]
  BY <1>3, FlattenIsLast
<1>5. FlattenSeq(tt) = IF n + 1 = 1 THEN tt[n + 1] ELSE g[n + 1 - 1] \o tt[n + 1]
  <2>1. n + 1 \in 1..Len(tt)
    BY <1>3
  <2> QED
    BY <1>4, <2>1, FlatteningAt
<1>6. CASE n = 0
  <2>1. ss = <<>>
    BY <1>2, <1>6, EmptySeq
  <2>2. FlattenSeq(ss) \o x = x
    BY <2>1, FlattenEmpty
  <2> QED
    BY <1>1, <1>3, <1>5, <1>6, <2>2
<1>7. CASE n # 0
  <2>1. PICK f : IsFlattening(f, ss) /\ FlattenSeq(ss) = f[n]
    BY <1>2, <1>7, FlattenIsLast
  <2>2. n \in Nat /\ SameFront(ss, tt, n)
    BY <1>2, <1>3 DEF SameFront
  <2>3. \A i \in 1..n : f[i] = g[i]
    BY <1>4, <2>1, <2>2, FlatteningsAgree
  <2>4. n + 1 # 1 /\ n + 1 - 1 = n /\ f[n] = g[n]
    BY <1>7, <2>3
  <2> QED
    BY <1>1, <1>3, <1>5, <2>1, <2>4
<1> QED
  BY <1>6, <1>7

\* Blocks after blocks are the one stream after the other.
LEMMA FlattenConcat ==
    ASSUME NEW S, NEW ss \in Seq(Seq(S)), NEW tt \in Seq(Seq(S))
    PROVE  FlattenSeq(ss \o tt) = FlattenSeq(ss) \o FlattenSeq(tt)
<1> DEFINE Splits(u) == FlattenSeq(ss \o u) = FlattenSeq(ss) \o FlattenSeq(u)
           T == {m \in Nat : \A u \in Seq(Seq(S)) : Len(u) = m => Splits(u)}
<1>1. 0 \in T
  <2> SUFFICES ASSUME NEW u \in Seq(Seq(S)), Len(u) = 0
               PROVE  Splits(u)
    OBVIOUS
  <2>1. u = <<>>
    OBVIOUS
  <2>2. ss \o u = ss
    BY <2>1, ConcatEmptySeq
  <2>3. FlattenSeq(ss) \o <<>> = FlattenSeq(ss)
    BY FlattenType, ConcatEmptySeq
  <2> QED
    BY <2>1, <2>2, <2>3, FlattenEmpty
<1>2. ASSUME NEW m \in Nat, m \in T
      PROVE  m + 1 \in T
  <2> SUFFICES ASSUME NEW u \in Seq(Seq(S)), Len(u) = m + 1
               PROVE  Splits(u)
    OBVIOUS
  <2>1. u # <<>>
    OBVIOUS
  <2>2. PICK v \in Seq(Seq(S)), x \in Seq(S) : u = Append(v, x)
    BY <2>1, SequenceEmptyOrAppend
  <2>3. Len(v) = m
    BY <2>2
  <2>4. FlattenSeq(ss \o v) = FlattenSeq(ss) \o FlattenSeq(v)
    BY <1>2, <2>3
  <2>5. ss \o u = Append(ss \o v, x) /\ ss \o v \in Seq(Seq(S))
    <3>1. u = v \o <<x>> /\ <<x>> \in Seq(Seq(S))
      BY <2>2, AppendIsConcat
    <3>2. ss \o v \in Seq(Seq(S))
      BY ConcatProperties
    <3>3. Append(ss \o v, x) = (ss \o v) \o <<x>>
      BY <3>2, AppendIsConcat
    <3> QED
      BY <3>1, <3>2, <3>3, ConcatAssociative
  <2>6. FlattenSeq(ss \o u) = (FlattenSeq(ss) \o FlattenSeq(v)) \o x
    BY <2>4, <2>5, FlattenAppend
  <2>7. FlattenSeq(u) = FlattenSeq(v) \o x
    BY <2>2, FlattenAppend
  <2>8. (FlattenSeq(ss) \o FlattenSeq(v)) \o x
          = FlattenSeq(ss) \o (FlattenSeq(v) \o x)
    <3>1. FlattenSeq(ss) \in Seq(S) /\ FlattenSeq(v) \in Seq(S)
      BY FlattenType
    <3>2. x \in Seq(S)
      BY <2>2
    <3> QED
      BY <3>1, <3>2, ConcatAssociative, SMTT(60)
  <2> QED
    BY <2>6, <2>7, <2>8
<1> HIDE DEF T
<1>3. \A m \in Nat : m \in T
  BY <1>1, <1>2, SetInduction
<1>4. Len(tt) \in T
  BY <1>3
<1> QED
  BY <1>4 DEF T

-----------------------------------------------------------------------------
(* Finite sets of numbers.                                                 *)

\* They have an order, from the least on.
LEMMA NumbersInOrder ==
    ASSUME NEW S \in SUBSET Nat, IsFiniteSet(S)
    PROVE  \E q \in [1..Cardinality(S) -> S] :
              \A i, j \in DOMAIN q : i < j => q[i] < q[j]
<1> DEFINE Ordered(X) == \E q \in [1..Cardinality(X) -> X] :
                            \A i, j \in DOMAIN q : i < j => q[i] < q[j]
           T == {m \in Nat : \A X \in SUBSET S :
                                Cardinality(X) = m => Ordered(X)}
<1>1. 0 \in T
  <2> SUFFICES ASSUME NEW X \in SUBSET S, Cardinality(X) = 0
               PROVE  Ordered(X)
    OBVIOUS
  <2> DEFINE q == [i \in 1..0 |-> i]
  <2>1. q \in [1..Cardinality(X) -> X] /\ DOMAIN q = {}
    OBVIOUS
  <2> HIDE DEF q
  <2> QED
    BY <2>1
<1>2. ASSUME NEW m \in Nat, m \in T
      PROVE  m + 1 \in T
  <2> SUFFICES ASSUME NEW X \in SUBSET S, Cardinality(X) = m + 1
               PROVE  Ordered(X)
    OBVIOUS
  <2>1. IsFiniteSet(X)
    BY FS_Subset
  <2>2. X # {}
    BY FS_EmptySet
  <2>3. PICK x \in X : \A y \in X : x <= y
    BY <2>2, LeastNumber
  <2>4. \A y \in X \ {x} : x < y
    BY <2>3
  <2> DEFINE Y == X \ {x}
  <2>5. Cardinality(Y) = m /\ Y \in SUBSET S
    <3>1. Cardinality(X \ {x}) = Cardinality(X) - 1
      BY <2>1, <2>3, FS_RemoveElement
    <3> QED
      BY <3>1
  <2>6. PICK r \in [1..m -> Y] : \A i, j \in 1..m : i < j => r[i] < r[j]
    <3>1. Ordered(Y)
      BY <1>2, <2>5
    <3> HIDE DEF Y
    <3> QED
      BY <2>5, <3>1
  <2> DEFINE q == [i \in 1..m + 1 |-> IF i = 1 THEN x ELSE r[i - 1]]
  <2>7. q \in [1..Cardinality(X) -> X] /\ DOMAIN q = 1..m + 1
    <3>1. \A i \in 1..m + 1 : i # 1 => i - 1 \in 1..m /\ r[i - 1] \in X
      BY <2>6
    <3>2. \A i \in 1..m + 1 : q[i] \in X
      BY <2>3, <3>1
    <3> QED
      BY <3>2
  <2>8. ASSUME NEW i \in 1..m + 1, NEW j \in 1..m + 1, i < j
        PROVE  q[i] < q[j]
    <3>1. j - 1 \in 1..m /\ q[j] = r[j - 1] /\ r[j - 1] \in Y
      BY <2>6, <2>8
    <3>2. CASE i = 1
      BY <2>4, <3>1, <3>2
    <3>3. CASE i # 1
      <4>1. i - 1 \in 1..m /\ q[i] = r[i - 1] /\ i - 1 < j - 1
        BY <2>8, <3>3
      <4> QED
        BY <2>6, <3>1, <4>1
    <3> QED
      BY <3>2, <3>3
  <2> HIDE DEF q
  <2> QED
    BY <2>7, <2>8
<1> HIDE DEF T
<1>3. \A m \in Nat : m \in T
  BY <1>1, <1>2, SetInduction
<1>4. Cardinality(S) \in T
  BY <1>3, FS_CardinalityType
<1> QED
  BY <1>4 DEF T

=============================================================================
