-------------------------- MODULE RingBufferProofs --------------------------
(***************************************************************************)
(* Proofs about the ring buffer: for every size, every set of bytes and    *)
(* every set of blocks.                                                    *)
(***************************************************************************)
EXTENDS RingBuffer, SequenceTheorems, TLAPS

(***************************************************************************)
(* Indices and what is inside ringbuffer_length: inductive together.  A    *)
(* thread is at a line only outside its own sections; the reader is there  *)
(* only while the queue is not empty, and once it has found the head below *)
(* the tail, the head cannot leave from there.  A tail beyond the end      *)
(* stands for a place at or before the head.                               *)
(***************************************************************************)
Indices ==
    /\ head \in 0..(Size - 1)
    /\ tail \in 0..(2 * Size - 2)
    /\ lock \in {"free", "reader", "gone"}
    /\ lock # "reader" => tail < Size
    /\ tail >= Size => tail - Size <= head

Lines ==
    /\ line \in [Caller -> {0, 107, 108, 109}]
    /\ lock = "reader" => line["reader"] = 0
    /\ lock = "gone" => \A t \in Caller : line[t] = 0
    /\ line["reader"] \in {107, 108} => head # tail
    /\ line["reader"] = 109 => head < tail
    /\ line["writer"] = 108 => head >= tail

\* What is assumed of the size of the buffer and of a word.
LEMMA SizeFacts == Size \in Nat /\ Size > 2 /\ Word \in Nat /\ Word > 2 * Size
BY RingAssumption

\* The length between two indices is less than the size.
LEMMA LengthFacts ==
    ASSUME Indices
    PROVE  /\ Length \in 0..(Size - 1)
           /\ Place(tail) \in 0..(Size - 1)
           /\ Length = IF head >= Place(tail) THEN head - Place(tail)
                       ELSE Size - Place(tail) + head
BY SizeFacts DEF Indices, Length, Filled, Place

-----------------------------------------------------------------------------
(* What each action does to the indices.                                   *)

\* A write moves head within the buffer.
LEMMA WriteMoves ==
    ASSUME Indices, NEW block \in Block, Write(block)
    PROVE  /\ Len(block) \in Nat
           /\ head' = IF head + Len(block) < Size THEN head + Len(block)
                      ELSE head + Len(block) - Size
           /\ head' \in 0..(Size - 1)
           /\ lock = "free" /\ tail < Size /\ line["writer"] = 0
           /\ Length + Len(block) < Size - 1
           /\ Length' = Length + Len(block)
<1>1. Len(block) \in Nat
  BY RingAssumption
<1>2. Length \in 0..(Size - 1) /\ Space = Size - Length - 1
  BY LengthFacts DEF Space
<1>3. lock = "free" /\ line["writer"] = 0 /\ Space > Len(block) /\ tail' = tail
  BY DEF Write, Enters
<1>4. head' = IF head + Len(block) < Size THEN head + Len(block)
              ELSE head + Len(block) - Size
  BY <1>1, SizeFacts DEF Write, CopyWhole, CopySplit, Indices
<1>5. head' \in 0..(Size - 1) /\ Length + Len(block) < Size - 1 /\ tail < Size
  BY <1>1, <1>2, <1>3, <1>4, SizeFacts DEF Indices
<1>6. Length' = Length + Len(block)
  BY <1>1, <1>2, <1>3, <1>4, <1>5, SizeFacts
  DEF Indices, Length, Filled, Place
<1> QED
  BY <1>1, <1>3, <1>4, <1>5, <1>6

\* The first half of a read moves tail, maybe past the end,
LEMMA ReadMovesMoves ==
    ASSUME Indices, NEW n \in 0..Length, ReadMoves(n)
    PROVE  /\ n \in 1..(Size - 1)
           /\ lock = "free" /\ tail < Size /\ line["reader"] = 0
           /\ tail' = tail + n /\ head' = head
           /\ tail' \in 0..(2 * Size - 2)
           /\ tail' >= Size => tail' - Size <= head
           /\ Length' = Length - n
<1>1. Length \in 0..(Size - 1)
  BY LengthFacts
<1>2. lock = "free" /\ line["reader"] = 0 /\ tail' = tail + n /\ head' = head /\ n > 0
  BY DEF ReadMoves, Enters
<1>3. tail < Size /\ tail \in Nat /\ head \in 0..(Size - 1)
  BY <1>2 DEF Indices
<1>4. n \in 1..(Size - 1)
  BY <1>1, <1>2, SizeFacts
<1>5. tail' \in 0..(2 * Size - 2)
  BY <1>2, <1>3, <1>4, SizeFacts
<1>6. (tail' >= Size => tail' - Size <= head) /\ Length' = Length - n
  BY <1>1, <1>2, <1>3, <1>4, SizeFacts DEF Length, Filled, Place
<1> QED
  BY <1>2, <1>3, <1>4, <1>5, <1>6

\* and the second brings it back.
LEMMA ReadWrapsMoves ==
    ASSUME Indices, ReadWraps
    PROVE  /\ tail' = Place(tail) /\ tail' \in 0..(Size - 1)
           /\ head' = head /\ lock = "reader" /\ lock' = "free"
           /\ Length' = Length /\ Place(tail)' = Place(tail)
<1>1. tail' = Place(tail) /\ head' = head /\ lock = "reader" /\ lock' = "free"
  BY SizeFacts DEF Indices, ReadWraps, Place
<1>2. tail' \in 0..(Size - 1)
  BY <1>1, LengthFacts
<1> QED
  BY <1>1, <1>2, SizeFacts DEF Length, Place

-----------------------------------------------------------------------------
(* The invariant of indices and lines.                                     *)

\* Every step keeps the indices where they belong;
LEMMA IndicesStep ==
    ASSUME Indices, Lines, [RingNext]_ringVars
    PROVE  Indices' /\ Lines'
<1> USE SizeFacts
<1>1. ASSUME NEW block \in Block, Write(block) PROVE Indices' /\ Lines'
  <2>1. /\ head' \in 0..(Size - 1) /\ lock = "free" /\ tail < Size
        /\ line["writer"] = 0
    BY <1>1, WriteMoves
  <2>2. tail' = tail /\ lock' = lock /\ line' = line
    BY <1>1 DEF Write
  <2>3. Indices'
    BY <2>1, <2>2 DEF Indices
  <2>4. /\ Length \in Nat /\ Len(block) \in Nat
        /\ Length + Len(block) < Size - 1
        /\ head' = IF head + Len(block) < Size THEN head + Len(block)
                   ELSE head + Len(block) - Size
    BY <1>1, WriteMoves, LengthFacts
  <2>5. head # tail => head' # tail
    BY <2>1, <2>4 DEF Indices, Length, Filled, Place
  <2>6. head < tail => head' < tail
    BY <2>1, <2>4 DEF Indices, Length, Filled, Place
  <2> QED
    BY <2>1, <2>2, <2>3, <2>5, <2>6 DEF Lines
<1>2. ASSUME NEW n \in 0..Length, ReadMoves(n) PROVE Indices' /\ Lines'
  <2>1. /\ lock = "free" /\ tail < Size /\ line["reader"] = 0
        /\ tail' = tail + n /\ head' = head
        /\ tail' \in 0..(2 * Size - 2)
        /\ tail' >= Size => tail' - Size <= head
    BY <1>2, ReadMovesMoves
  <2>2. lock' = "reader" /\ line' = line
    BY <1>2 DEF ReadMoves
  <2>3. Indices'
    BY <2>1, <2>2 DEF Indices
  <2>4. head >= tail => head >= tail'
    BY <2>1 DEF Indices, Length, Filled, Place
  <2> QED
    BY <2>1, <2>2, <2>3, <2>4 DEF Lines
<1>3. CASE ReadWraps
  <2>1. tail' = Place(tail) /\ tail' \in 0..(Size - 1) /\ head' = head
        /\ lock = "reader" /\ lock' = "free" /\ line' = line
    BY <1>3, ReadWrapsMoves DEF ReadWraps
  <2>2. head >= tail => head >= tail'
    BY <2>1 DEF Indices, Place
  <2> QED
    BY <2>1, <2>2 DEF Indices, Lines
<1>4. ASSUME NEW thread \in Caller, Line104(thread) PROVE Indices' /\ Lines'
  BY <1>4 DEF Line104, Answer, GoTo, Indices, Lines, Caller
<1>5. ASSUME NEW thread \in Caller, Line107(thread) PROVE Indices' /\ Lines'
  <2>1. line' = [line EXCEPT ![thread] = IF head > tail THEN 108 ELSE 109]
        /\ head' = head /\ tail' = tail /\ lock' = lock
    BY <1>5 DEF Line107, GoTo
  <2>2. line[thread] = 107 /\ head \in Int /\ tail \in Int
    BY <1>5 DEF Line107, Indices
  <2> QED
    BY <2>1, <2>2 DEF Indices, Lines, Caller
<1>6. ASSUME NEW thread \in Caller, Line108(thread) \/ Line109(thread)
      PROVE Indices' /\ Lines'
  BY <1>6 DEF Line108, Line109, Answer, Indices, Lines, Caller
<1>7. CASE DestroyRing
  <2>1. \A t \in Caller : line[t] = 0 /\ lock = "free"
    BY <1>7 DEF DestroyRing, Enters
  <2> QED
    BY <1>7, <2>1 DEF DestroyRing, Indices, Lines, Caller
<1>8. ASSUME UNCHANGED <<head, tail, lock, line>> PROVE Indices' /\ Lines'
  BY <1>8 DEF Indices, Lines
<1>9. ASSUME NEW block \in Block, Refuse(block) PROVE UNCHANGED <<head, tail, lock, line>>
  BY <1>9 DEF Refuse
<1>10. CASE ReadNothing
  BY <1>8, <1>10 DEF ReadNothing
<1>11. ASSUME NEW n \in 0..Length, PeekCopy(n) PROVE UNCHANGED <<head, tail, lock, line>>
  BY <1>11 DEF PeekCopy
<1>12. CASE UNCHANGED ringVars
  BY <1>8, <1>12 DEF ringVars
<1> QED
  BY <1>1, <1>2, <1>3, <1>4, <1>5, <1>6, <1>7, <1>8, <1>9, <1>10, <1>11, <1>12 DEF RingNext

\* so they always are.
LEMMA IndicesInvariant == RingSpec => [](Indices /\ Lines)
<1>1. RingInit => Indices /\ Lines
  BY SizeFacts DEF RingInit, Indices, Lines, Caller
<1>2. Indices /\ Lines /\ [RingNext]_ringVars => (Indices /\ Lines)'
  BY IndicesStep
<1> QED
  BY <1>1, <1>2, PTL DEF RingSpec

-----------------------------------------------------------------------------
(* The bytes.                                                              *)

Bytes ==
    /\ ring \in [0..(Size - 1) -> RingByte]
    /\ estimate \in [Caller -> Nat]
    /\ written \in Seq(RingByte)
    /\ out \in Seq(RingByte)

\* The bytes in the ring as a sequence: its type and its length.
LEMMA QueueFacts ==
    ASSUME Indices, Bytes
    PROVE  /\ Queue \in Seq(RingByte)
           /\ Len(Queue) = Length
           /\ \A i \in 1..Length : /\ Place(Place(tail) + i - 1) \in 0..(Size - 1)
                                   /\ Queue[i] = ring[Place(Place(tail) + i - 1)]
<1>1. Length \in 0..(Size - 1) /\ Place(tail) \in 0..(Size - 1)
  BY LengthFacts
<1>2. \A i \in 1..Length : Place(Place(tail) + i - 1) \in 0..(Size - 1)
  BY <1>1, SizeFacts DEF Place
<1>3. Queue \in [1..Length -> RingByte]
  BY <1>2 DEF Queue, Bytes
<1>4. Length \in Nat
  BY <1>1, SizeFacts
<1> QED
  BY <1>2, <1>3, <1>4 DEF Queue

\* What has been copied is a sequence of bytes.
LEMMA CopiedFacts ==
    ASSUME Indices, Bytes, tail < Size, NEW n \in 0..Length
    PROVE  /\ Copied(n) \in Seq(RingByte)
           /\ Copied(n) = SubSeq(Queue, 1, n)
<1>1. /\ Length \in 0..(Size - 1) /\ n \in Nat /\ n <= Length
      /\ tail \in 0..(Size - 1) /\ Place(tail) = tail
  BY LengthFacts, SizeFacts DEF Indices, Place
<1>2. /\ Queue \in Seq(RingByte) /\ Len(Queue) = Length
      /\ \A i \in 1..Length : Queue[i] = ring[Place(tail + i - 1)]
  BY QueueFacts, <1>1
<1>3. \A i \in 1..n : (IF i <= Size - tail THEN tail + i - 1 ELSE i - 1 - (Size - tail))
                        = Place(tail + i - 1)
  BY <1>1, SizeFacts DEF Place
<1>4. \A i \in 1..n : Copied(n)[i] = Queue[i]
  BY <1>1, <1>2, <1>3 DEF Copied
<1>5. /\ SubSeq(Queue, 1, n) \in Seq(RingByte) /\ Len(SubSeq(Queue, 1, n)) = n
      /\ \A i \in 1..n : SubSeq(Queue, 1, n)[i] = Queue[i]
  BY <1>1, <1>2
<1>6. Copied(n) = [i \in 1..n |-> Queue[i]]
  BY <1>4 DEF Copied
<1>7. SubSeq(Queue, 1, n) = [i \in 1..n |-> Queue[i]]
  BY <1>1, <1>2, <1>5
<1> QED
  BY <1>5, <1>6, <1>7

\* A write puts its block behind the queue and leaves the queue alone.
LEMMA WriteBytes ==
    ASSUME Indices, Bytes, NEW block \in Block, Write(block)
    PROVE  /\ ring' \in [0..(Size - 1) -> RingByte]
           /\ \A k \in 1..Len(block) : ring'[Place(head + k - 1)] = block[k]
           /\ \A i \in 0..(Size - 1) :
                 (\A k \in 1..Len(block) : i # Place(head + k - 1)) => ring'[i] = ring[i]
<1>1. /\ block \in Seq(RingByte) /\ Len(block) \in Nat /\ Len(block) < Size
      /\ head \in 0..(Size - 1)
  BY WriteMoves, LengthFacts, RingAssumption DEF Indices
<1>2. \A k \in 1..Len(block) : block[k] \in RingByte
  BY <1>1
<1>3. CASE CopyWhole(block)
  <2>1. ring' \in [0..(Size - 1) -> RingByte]
    BY <1>1, <1>2, <1>3, SizeFacts DEF CopyWhole, Bytes
  <2>2. ASSUME NEW k \in 1..Len(block)
        PROVE  ring'[Place(head + k - 1)] = block[k]
    <3>1. k \in Nat /\ Size \in Nat /\ Len(block) < Size - head
      BY <1>1, <1>3, SizeFacts DEF CopyWhole
    <3>2. head + k - 1 \in 0..(Size - 1) /\ head + k - 1 \in head..(head + Len(block) - 1)
      BY <1>1, <3>1
    <3>3. Place(head + k - 1) = head + k - 1
      BY <3>1, <3>2 DEF Place
    <3>4. (head + k - 1) - head + 1 = k
      BY <1>1, <3>1
    <3> QED
      BY <1>3, <3>2, <3>3, <3>4 DEF CopyWhole
  <2>3. ASSUME NEW i \in 0..(Size - 1), \A k \in 1..Len(block) : i # Place(head + k - 1)
        PROVE  ring'[i] = ring[i]
    <3>1. i \in head..(head + Len(block) - 1) =>
             /\ i - head + 1 \in 1..Len(block)
             /\ i = Place(head + (i - head + 1) - 1)
      BY <1>1, <1>3, SizeFacts DEF CopyWhole, Place
    <3> QED
      BY <2>3, <3>1, <1>3 DEF CopyWhole
  <2> QED
    BY <2>1, <2>2, <2>3
<1>4. CASE CopySplit(block)
  <2>1. ring' \in [0..(Size - 1) -> RingByte]
    BY <1>1, <1>2, <1>4, SizeFacts DEF CopySplit, Bytes
  <2>2. ASSUME NEW k \in 1..Len(block)
        PROVE  ring'[Place(head + k - 1)] = block[k]
    <3>1. k \in Nat /\ Size \in Nat /\ Len(block) >= Size - head
      BY <1>1, <1>4, SizeFacts DEF CopySplit
    <3>2. CASE k <= Size - head
      <4>1. head + k - 1 \in 0..(Size - 1) /\ head + k - 1 >= head
        BY <1>1, <3>1, <3>2
      <4>2. Place(head + k - 1) = head + k - 1 /\ (head + k - 1) - head + 1 = k
        BY <1>1, <3>1, <3>2, <4>1 DEF Place
      <4> QED
        BY <1>4, <4>1, <4>2 DEF CopySplit
    <3>3. CASE k > Size - head
      <4> DEFINE i == k - 1 - (Size - head)
      <4>1. i \in 0..(Size - 1) /\ i < head /\ i < Len(block) - (Size - head)
        BY <1>1, <3>1, <3>3
      <4>2. Place(head + k - 1) = i /\ (Size - head) + i + 1 = k /\ ~(i >= head)
        BY <1>1, <3>1, <3>3, <4>1 DEF Place
      <4> HIDE DEF i
      <4>3. ring'[i] = block[(Size - head) + i + 1]
        BY <1>4, <4>1, <4>2 DEF CopySplit
      <4> QED
        BY <4>2, <4>3
    <3> QED
      BY <1>1, <3>1, <3>2, <3>3
  <2>3. ASSUME NEW i \in 0..(Size - 1), \A k \in 1..Len(block) : i # Place(head + k - 1)
        PROVE  ring'[i] = ring[i]
    <3>1. i >= head => /\ i - head + 1 \in 1..Len(block)
                       /\ i = Place(head + (i - head + 1) - 1)
      BY <1>1, <1>4, SizeFacts DEF CopySplit, Place
    <3>2. i < Len(block) - (Size - head) =>
             /\ Size - head + i + 1 \in 1..Len(block)
             /\ i = Place(head + (Size - head + i + 1) - 1)
      BY <1>1, <1>4, SizeFacts DEF CopySplit, Place
    <3> QED
      BY <2>3, <3>1, <3>2, <1>4 DEF CopySplit
  <2> QED
    BY <2>1, <2>2, <2>3
<1> QED
  BY <1>3, <1>4 DEF Write

\* A size_t is a number.
LEMMA SizeTIsNat == ASSUME NEW n \in Int PROVE SizeT(n) \in Nat
BY SizeFacts DEF SizeT

\* Every step keeps the bytes of the ring the bytes of the queue;
LEMMA BytesStep ==
    ASSUME Indices, Lines, Bytes, [RingNext]_ringVars
    PROVE  Bytes'
<1>1. ASSUME NEW block \in Block, Write(block) PROVE Bytes'
  <2>1. ring' \in [0..(Size - 1) -> RingByte] /\ block \in Seq(RingByte)
    BY <1>1, WriteBytes, RingAssumption
  <2> QED
    BY <1>1, <2>1 DEF Write, Forget, Bytes, Caller
<1>2. ASSUME NEW n \in 0..Length, ReadMoves(n) \/ PeekCopy(n) PROVE Bytes'
  <2>1. tail < Size
    BY <1>2 DEF ReadMoves, PeekCopy, Enters, Indices
  <2>2. Copied(n) \in Seq(RingByte)
    BY <2>1, CopiedFacts
  <2>3. ring' = ring /\ written' = <<>> /\ out' = Copied(n)
    BY <1>2 DEF ReadMoves, PeekCopy
  <2>4. estimate' = estimate \/ estimate' = [estimate EXCEPT !["reader"] = 0]
    BY <1>2 DEF ReadMoves, PeekCopy, Forget
  <2>5. <<>> \in Seq(RingByte)
    OBVIOUS
  <2> QED
    BY <2>2, <2>3, <2>4, <2>5 DEF Bytes, Caller
<1>3. ASSUME NEW block \in Block, Refuse(block) PROVE Bytes'
  BY <1>3 DEF Refuse, Silent, Forget, Bytes, Caller
<1>4. CASE ReadNothing \/ ReadWraps \/ DestroyRing
  <2>1. ring' = ring /\ written' = <<>> /\ out' = <<>>
    BY <1>4 DEF ReadNothing, ReadWraps, DestroyRing, Silent
  <2>2. estimate' = estimate \/ estimate' = [estimate EXCEPT !["reader"] = 0]
    BY <1>4 DEF ReadNothing, ReadWraps, DestroyRing, Forget
  <2> QED
    BY <2>1, <2>2 DEF Bytes, Caller
<1>6. ASSUME NEW thread \in Caller, NEW length \in Int, Answer(thread, length)
      PROVE Bytes'
  <2>1. SizeT(IF thread = "writer" THEN Size - length - 1 ELSE length) \in Nat
    BY SizeFacts, SizeTIsNat
  <2> QED
    BY <1>6, <2>1 DEF Answer, Silent, Bytes
<1>7. ASSUME NEW thread \in Caller, NEW next, GoTo(thread, next) PROVE Bytes'
  BY <1>7 DEF GoTo, Silent, Bytes
<1>8. ASSUME NEW thread \in Caller,
             Line104(thread) \/ Line107(thread) \/ Line108(thread) \/ Line109(thread)
      PROVE Bytes'
  <2>1. head - tail \in Int /\ (Size - tail) + head \in Int /\ 0 \in Int
    BY SizeFacts DEF Indices
  <2> QED
    BY <1>6, <1>7, <1>8, <2>1 DEF Line104, Line107, Line108, Line109
<1>9. CASE UNCHANGED ringVars
  BY <1>9 DEF ringVars, Bytes
<1> QED
  BY <1>1, <1>2, <1>3, <1>4, <1>8, <1>9 DEF RingNext

\* so they always are.
LEMMA RingInvariant == RingSpec => [](Indices /\ Lines /\ Bytes)
<1>1. RingInit => Bytes
  BY DEF RingInit, Bytes, Caller
<1>2. Indices /\ Lines /\ Bytes /\ [RingNext]_ringVars => Bytes'
  BY BytesStep
<1> QED
  BY <1>1, <1>2, IndicesInvariant, PTL DEF RingSpec

(***************************************************************************)
(* RingTypeOK: indices stay inside the ring, beyond it only inside a read.     *)
(***************************************************************************)
THEOREM RingTypeCorrect == RingSpec => []RingTypeOK
<1>1. Indices /\ Lines /\ Bytes => RingTypeOK
  BY DEF Indices, Lines, Bytes, RingTypeOK
<1> QED
  BY <1>1, RingInvariant, PTL

-----------------------------------------------------------------------------
(* The refinement.                                                         *)

\* A write appends.
LEMMA WriteAppends ==
    ASSUME Indices, Bytes, NEW block \in Block, Write(block)
    PROVE  Queue' = Queue \o block
<1> USE SizeFacts
<1>1. /\ block \in Seq(RingByte) /\ Len(block) \in Nat /\ tail < Size /\ tail' = tail
      /\ Length + Len(block) < Size - 1 /\ Length' = Length + Len(block)
      /\ Length \in 0..(Size - 1) /\ head \in 0..(Size - 1) /\ tail \in 0..(Size - 1)
  BY WriteMoves, LengthFacts, RingAssumption DEF Indices, Write
<1>2. /\ Queue \in Seq(RingByte) /\ Len(Queue) = Length
      /\ \A i \in 1..Length : Queue[i] = ring[Place(tail + i - 1)]
  BY QueueFacts, <1>1 DEF Place
<1>3. Queue' = [i \in 1..(Length + Len(block)) |-> ring'[Place(tail + i - 1)]]
  BY <1>1 DEF Queue, Place
<1>4. \A i \in 1..Length : ring'[Place(tail + i - 1)] = Queue[i]
  <2> SUFFICES ASSUME NEW i \in 1..Length PROVE ring'[Place(tail + i - 1)] = Queue[i]
    OBVIOUS
  <2>1. Place(tail + i - 1) \in 0..(Size - 1)
    BY <1>1 DEF Place
  <2>2. ASSUME NEW k \in 1..Len(block)
        PROVE  Place(tail + i - 1) # Place(head + k - 1)
    <3>1. k \in Nat /\ i \in Nat /\ Size \in Nat /\ Place(tail) = tail
      BY <1>1 DEF Place
    <3>2. CASE head >= tail
      <4>1. Length = head - tail
        BY <1>1, <3>1, <3>2 DEF Length, Filled
      <4>2. tail + i - 1 < head /\ tail + i - 1 >= tail /\ head + k - 1 - Size < tail
        BY <1>1, <3>1, <3>2, <4>1
      <4> QED
        BY <1>1, <3>1, <3>2, <4>2 DEF Place
    <3>3. CASE head < tail
      <4>1. Length = (Size - tail) + head
        BY <1>1, <3>1, <3>3 DEF Length, Filled
      <4>2. /\ head + k - 1 < tail /\ head + k - 1 >= head /\ head + k - 1 < Size
            /\ tail + i - 1 - Size < head
        BY <1>1, <3>1, <3>3, <4>1
      <4> QED
        BY <1>1, <3>1, <3>3, <4>2 DEF Place
    <3> QED
      BY <1>1, <3>2, <3>3
  <2> QED
    BY <1>2, <2>1, <2>2, WriteBytes
<1>5. \A i \in (Length + 1)..(Length + Len(block)) :
        ring'[Place(tail + i - 1)] = block[i - Length]
  <2> SUFFICES ASSUME NEW i \in (Length + 1)..(Length + Len(block))
               PROVE  ring'[Place(tail + i - 1)] = block[i - Length]
    OBVIOUS
  <2>1. i - Length \in 1..Len(block)
    BY <1>1
  <2>2. /\ i \in Int /\ Size \in Int /\ i > Length /\ i - 1 < Size - 1
        /\ Place(tail) = tail
    BY <1>1 DEF Place
  <2>3. Place(tail + i - 1) = Place(head + (i - Length) - 1)
    <3>1. CASE head >= tail
      <4>1. tail + i - 1 = head + (i - Length) - 1
        BY <1>1, <2>2, <3>1 DEF Length, Filled
      <4> QED
        BY <4>1
    <3>2. CASE head < tail
      <4>1. Length = (Size - tail) + head
        BY <1>1, <2>2, <3>2 DEF Length, Filled
      <4>2. tail + i - 1 >= Size /\ head + (i - Length) - 1 < Size
        BY <1>1, <2>2, <3>2, <4>1
      <4>3. tail + i - 1 - Size = head + (i - Length) - 1
        BY <1>1, <2>2, <3>2, <4>1
      <4> QED
        BY <1>1, <2>2, <4>2, <4>3 DEF Place
    <3> QED
      BY <1>1, <3>1, <3>2
  <2>4. ring'[Place(head + (i - Length) - 1)] = block[i - Length]
    BY <2>1, WriteBytes
  <2> QED
    BY <2>3, <2>4
<1>6. /\ Queue \o block \in Seq(RingByte) /\ Len(Queue \o block) = Length + Len(block)
      /\ \A i \in 1..(Length + Len(block)) : (Queue \o block)[i] =
            IF i <= Length THEN Queue[i] ELSE block[i - Length]
  BY <1>1, <1>2, ConcatProperties
<1>7. \A i \in 1..(Length + Len(block)) :
        ring'[Place(tail + i - 1)] = (Queue \o block)[i]
  BY <1>1, <1>4, <1>5, <1>6
<1>8. Length + Len(block) \in Nat /\ \A i \in 1..(Length + Len(block)) : Queue'[i] \in RingByte
  <2>1. \A i \in 1..(Length + Len(block)) : (Queue \o block)[i] \in RingByte
    BY <1>6, ElementOfSeq
  <2>2. \A i \in 1..(Length + Len(block)) : Queue'[i] = ring'[Place(tail + i - 1)]
    BY <1>3
  <2>3. Length + Len(block) \in Nat
    BY <1>1
  <2>4. \A i \in 1..(Length + Len(block)) : Queue'[i] = (Queue \o block)[i]
    BY <1>7, <2>2
  <2> QED
    BY <2>1, <2>3, <2>4
<1>9. Queue' \in Seq(RingByte) /\ Len(Queue') = Length + Len(block)
  BY <1>3, <1>8
<1>10. \A i \in 1..Len(Queue') : Queue'[i] = (Queue \o block)[i]
  BY <1>3, <1>7, <1>9
<1> QED
  BY <1>6, <1>9, <1>10, SeqEqual

\* A read takes from the front.
LEMMA ReadTakes ==
    ASSUME Indices, Bytes, NEW n \in 0..Length, ReadMoves(n)
    PROVE  Queue' = SubSeq(Queue, n + 1, Len(Queue))
<1> USE SizeFacts
<1>1. /\ n \in 1..(Size - 1) /\ tail < Size /\ tail' = tail + n /\ head' = head
      /\ Length' = Length - n /\ Length \in 0..(Size - 1) /\ n <= Length
      /\ tail \in 0..(Size - 1) /\ ring' = ring
  BY ReadMovesMoves, LengthFacts DEF Indices, ReadMoves
<1>2. /\ Queue \in Seq(RingByte) /\ Len(Queue) = Length
      /\ \A i \in 1..Length : Queue[i] = ring[Place(tail + i - 1)]
  BY QueueFacts, <1>1 DEF Place
<1>3. Queue' = [i \in 1..(Length - n) |-> ring[Place(Place(tail + n) + i - 1)]]
  BY <1>1 DEF Queue, Place
<1>4. \A i \in 1..(Length - n) : Place(Place(tail + n) + i - 1) = Place(tail + (n + i) - 1)
  BY <1>1 DEF Place
<1>5. \A i \in 1..(Length - n) : n + i \in 1..Length
  BY <1>1
<1>6. \A i \in 1..(Length - n) :
        ring[Place(Place(tail + n) + i - 1)] = Queue[n + i]
  BY <1>2, <1>4, <1>5
<1>7. SubSeq(Queue, n + 1, Len(Queue)) = [i \in 1..(Length - n) |-> Queue[n + i]]
  BY <1>1, <1>2
<1> QED
  BY <1>3, <1>6, <1>7

\* Nothing that the queue shows moves.
LEMMA QueueStays ==
    ASSUME ring' = ring, head' = head, Place(tail)' = Place(tail)
    PROVE  Queue' = Queue
BY DEF Queue, Length

(***************************************************************************)
(* Every behaviour of the ring is one of the bounded queue: no step loses, *)
(* doubles or reorders a byte, and a block is refused only when it would   *)
(* leave no room.                                                          *)
(***************************************************************************)
LEMMA RingStep ==
    ASSUME Indices, Lines, Bytes, [RingNext]_ringVars
    PROVE  [Q!Next]_(Q!queueVars)
<1>1. Length \in 0..(Size - 1) /\ Queue \in Seq(RingByte) /\ Len(Queue) = Length
  BY QueueFacts, LengthFacts
<1>2. ASSUME Queue' = Queue, Silent PROVE Q!Next
  <2>1. 0 \in 0..Len(Queue) /\ SubSeq(Queue, 1, 0) = <<>>
    BY <1>1
  <2>2. Q!Look(0)
    BY <1>2, <2>1 DEF Q!Look, Silent
  <2> QED
    BY <2>1, <2>2 DEF Q!Next
<1>3. ASSUME NEW block \in Block, Write(block) PROVE Q!Next
  <2>1. Queue' = Queue \o block
    BY <1>3, WriteAppends
  <2>2. Len(block) \in Nat /\ Length + Len(block) < Size - 1
    BY <1>3, WriteMoves
  <2>3. Len(Queue) + Len(block) <= Size - 1
    BY <1>1, <2>2, SizeFacts
  <2>4. written' = block /\ out' = <<>>
    BY <1>3 DEF Write
  <2> QED
    BY <2>1, <2>3, <2>4 DEF Q!Next, Q!Put
<1>4. ASSUME NEW block \in Block, Refuse(block) PROVE Q!Next
  <2>1. Queue' = Queue
    BY <1>4, QueueStays DEF Refuse, Place
  <2>2. Len(block) \in Nat /\ Size - Length - 1 <= Len(block)
    BY <1>4, RingAssumption DEF Refuse, Space
  <2>3. Len(Queue) + Len(block) >= Size - 1
    BY <1>1, <2>2, SizeFacts
  <2>4. written' = <<>> /\ out' = <<>>
    BY <1>4 DEF Refuse, Silent
  <2> QED
    BY <2>1, <2>3, <2>4 DEF Q!Next, Q!Refuse
<1>5. ASSUME NEW n \in 0..Length, ReadMoves(n) PROVE Q!Next
  <2>1. Queue' = SubSeq(Queue, n + 1, Len(Queue))
    BY <1>5, ReadTakes
  <2>2. tail < Size /\ out' = Copied(n) /\ written' = <<>>
    BY <1>5 DEF ReadMoves, Enters, Indices
  <2>3. out' = SubSeq(Queue, 1, n)
    BY <2>2, CopiedFacts
  <2> QED
    BY <1>1, <2>1, <2>2, <2>3 DEF Q!Next, Q!Take
<1>6. ASSUME NEW n \in 0..Length, PeekCopy(n) PROVE Q!Next
  <2>1. tail < Size /\ out' = Copied(n) /\ written' = <<>> /\ UNCHANGED <<ring, head, tail>>
    BY <1>6 DEF PeekCopy, Enters, Indices
  <2>2. out' = SubSeq(Queue, 1, n)
    BY <2>1, CopiedFacts
  <2>3. Queue' = Queue
    BY <2>1, QueueStays DEF Place
  <2> QED
    BY <1>1, <2>1, <2>2, <2>3 DEF Q!Next, Q!Look
<1>7. CASE ReadWraps
  <2>1. ring' = ring /\ Silent
    BY <1>7 DEF ReadWraps
  <2>2. Queue' = Queue
    BY <1>7, <2>1, ReadWrapsMoves, QueueStays
  <2> QED
    BY <1>2, <2>1, <2>2
<1>8. ASSUME UNCHANGED <<ring, head, tail>>, Silent PROVE Q!Next
  BY <1>2, <1>8, QueueStays DEF Place
<1>9. CASE ReadNothing \/ DestroyRing
  BY <1>8, <1>9 DEF ReadNothing, DestroyRing
<1>11. ASSUME NEW thread \in Caller,
              Line104(thread) \/ Line107(thread) \/ Line108(thread) \/ Line109(thread)
       PROVE  Q!Next
  BY <1>8, <1>11 DEF Line104, Line107, Line108, Line109, Answer, GoTo
<1>12. CASE UNCHANGED ringVars
  <2>1. UNCHANGED <<ring, head, tail, written, out>>
    BY <1>12 DEF ringVars
  <2>2. Queue' = Queue
    BY <2>1, QueueStays DEF Place
  <2> QED
    BY <2>1, <2>2 DEF Q!queueVars
<1> QED
  BY <1>3, <1>4, <1>5, <1>6, <1>7, <1>9, <1>11, <1>12 DEF RingNext

(***************************************************************************)
(* ImplementsQueue, for every size, alphabet and set of blocks.            *)
(***************************************************************************)
THEOREM RingImplementsQueue == RingSpec => ImplementsQueue
<1>1. RingInit => Q!Init
  <2> SUFFICES ASSUME RingInit PROVE Queue = <<>> /\ written = <<>> /\ out = <<>>
    BY DEF Q!Init
  <2>1. head = 0 /\ tail = 0 /\ written = <<>> /\ out = <<>>
    BY DEF RingInit
  <2>2. Place(tail) = 0
    BY <2>1, SizeFacts DEF Place
  <2>3. Length = 0
    BY <2>1, <2>2 DEF Length, Filled
  <2>4. Queue = [i \in 1..0 |-> ring[Place(Place(tail) + i - 1)]]
    BY <2>3 DEF Queue
  <2>5. 1..0 = {}
    OBVIOUS
  <2> QED
    BY <2>1, <2>4, <2>5
<1>2. Indices /\ Lines /\ Bytes /\ [RingNext]_ringVars => [Q!Next]_(Q!queueVars)
  BY RingStep
<1> QED
  BY <1>1, <1>2, RingInvariant, PTL DEF RingSpec, ImplementsQueue, Q!Spec

-----------------------------------------------------------------------------
(* Estimates.                                                              *)

\* A size_t is the number itself, or wraps around.
LEMMA SizeTValues ==
    /\ \A n \in 0..(Size - 1) : SizeT(n) = n
    /\ \A n \in (-Size)..(-1) : SizeT(n) = Word + n
BY SizeFacts, Z3 DEF SizeT

\* The answers of the calls between steps, from the indices.
LEMMA AnswersAreSafe ==
    ASSUME Indices, Lines, Bytes, NEW thread \in Caller, NEW length \in Int,
           Answer(thread, length),
           thread = "reader" => length \in 0..Length \cup (-Size)..(-1),
           thread = "writer" => Size - length - 1 \in 0..Space \cup (-Size)..(-1),
           EstimatesAreSafe
    PROVE  EstimatesAreSafe'
<1>1. Length' = Length /\ Space' = Space
  BY DEF Answer, Length, Space, Place
<1>2. Length \in 0..(Size - 1) /\ Space \in 0..(Size - 1) /\ Length \in Int /\ Space \in Int
  BY LengthFacts, SizeFacts DEF Space
<1>3. CASE thread = "reader"
  <2>1. estimate'["reader"] = SizeT(length) /\ estimate'["writer"] = estimate["writer"]
    BY <1>3 DEF Answer, Bytes, Caller
  <2>2. SizeT(length) <= Length \/ SizeT(length) >= Word - Size
    BY <1>2, <1>3, SizeTValues, SizeFacts
  <2> QED
    BY <1>1, <2>1, <2>2 DEF EstimatesAreSafe
<1>4. CASE thread = "writer"
  <2>1. /\ estimate'["writer"] = SizeT(Size - length - 1)
        /\ estimate'["reader"] = estimate["reader"]
    BY <1>4 DEF Answer, Bytes, Caller
  <2>2. SizeT(Size - length - 1) <= Space \/ SizeT(Size - length - 1) >= Word - Size
    BY <1>2, <1>4, SizeTValues, SizeFacts
  <2> QED
    BY <1>1, <2>1, <2>2 DEF EstimatesAreSafe
<1> QED
  BY <1>3, <1>4 DEF Caller

\* Every step keeps the estimates safe.
LEMMA EstimatesStep ==
    ASSUME Indices, Lines, Bytes, EstimatesAreSafe, [RingNext]_ringVars
    PROVE  EstimatesAreSafe'
<1> USE SizeFacts
<1>0. Length \in 0..(Size - 1) /\ Length \in Int
  BY LengthFacts
<1>1. ASSUME NEW block \in Block, Write(block) PROVE EstimatesAreSafe'
  <2>1. Length' = Length + Len(block) /\ Len(block) \in Nat /\ Length + Len(block) < Size - 1
    BY <1>1, WriteMoves
  <2>2. estimate'["reader"] = estimate["reader"] /\ estimate'["writer"] = 0
    BY <1>1 DEF Write, Forget, Bytes, Caller
  <2>3. Space' >= 0 /\ Length' >= Length
    BY <1>0, <2>1 DEF Space
  <2>4. estimate["reader"] \in Nat
    BY DEF Bytes, Caller
  <2> QED
    BY <1>0, <2>1, <2>2, <2>3, <2>4 DEF EstimatesAreSafe
<1>2. ASSUME NEW n \in 0..Length, ReadMoves(n) PROVE EstimatesAreSafe'
  <2>1. Length' = Length - n /\ n \in Nat
    BY <1>2, ReadMovesMoves
  <2>2. estimate'["writer"] = estimate["writer"] /\ estimate'["reader"] = 0
    BY <1>2 DEF ReadMoves, Forget, Bytes, Caller
  <2>3. Space' >= Space /\ Length' >= 0 /\ Space \in Int /\ Space' \in Int
    BY <1>0, <2>1 DEF Space
  <2>4. estimate["writer"] \in Nat
    BY DEF Bytes, Caller
  <2> QED
    BY <2>2, <2>3, <2>4 DEF EstimatesAreSafe
<1>3. CASE ReadWraps
  <2>1. Length' = Length
    BY <1>3, ReadWrapsMoves
  <2>2. Space' = Space /\ estimate' = estimate
    BY <1>3, <2>1 DEF Space, ReadWraps
  <2> QED
    BY <2>1, <2>2 DEF EstimatesAreSafe
<1>4. ASSUME NEW thread \in Caller, Line104(thread) PROVE EstimatesAreSafe'
  <2>1. CASE head = tail
    <3>1. Length = 0 /\ Space = Size - 1
      BY <2>1 DEF Length, Filled, Place, Space, Indices
    <3> QED
      BY <1>4, <2>1, <3>1, AnswersAreSafe DEF Line104
  <2>2. CASE head # tail
    BY <1>4, <2>2 DEF Line104, GoTo, EstimatesAreSafe, Length, Space, Place
  <2> QED
    BY <2>1, <2>2
<1>5. ASSUME NEW thread \in Caller, Line107(thread) PROVE EstimatesAreSafe'
  BY <1>5 DEF Line107, GoTo, EstimatesAreSafe, Length, Space, Place
<1>6. ASSUME NEW thread \in Caller, Line108(thread) PROVE EstimatesAreSafe'
  <2>1. line[thread] = 108 /\ Answer(thread, head - tail) /\ head - tail \in Int
    BY <1>6 DEF Line108, Indices
  <2>2. thread = "reader" => head - tail \in 0..Length \cup (-Size)..(-1)
    <3>1. thread = "reader" => tail < Size
      BY <2>1 DEF Lines, Indices
    <3> QED
      BY <3>1 DEF Indices, Length, Filled, Place
  <2>3. thread = "writer" => Size - (head - tail) - 1 \in 0..Space \cup (-Size)..(-1)
    <3>1. thread = "writer" => head >= tail
      BY <2>1 DEF Lines
    <3>2. head >= tail => Length = head - tail
      BY DEF Indices, Length, Filled, Place
    <3> QED
      BY <1>0, <3>1, <3>2 DEF Space
  <2> QED
    BY <2>1, <2>2, <2>3, AnswersAreSafe
<1>7. ASSUME NEW thread \in Caller, Line109(thread) PROVE EstimatesAreSafe'
  <2> DEFINE l == (Size - tail) + head
  <2>1. line[thread] = 109 /\ Answer(thread, l) /\ l \in Int
    BY <1>7 DEF Line109, Indices
  <2>2. thread = "reader" => l \in 0..Length \cup (-Size)..(-1)
    <3>1. thread = "reader" => tail < Size /\ head < tail
      BY <2>1 DEF Lines, Indices
    <3> QED
      BY <3>1 DEF Indices, Length, Filled, Place
  <2>3. thread = "writer" => Size - l - 1 \in 0..Space \cup (-Size)..(-1)
    <3>1. CASE tail >= Size \/ head < tail
      <4>1. Length = l
        BY <3>1 DEF Indices, Length, Filled, Place
      <4> QED
        BY <1>0, <4>1 DEF Space
    <3>2. CASE tail < Size /\ head >= tail
      BY <3>2 DEF Indices
    <3> QED
      BY <3>1, <3>2 DEF Indices
  <2> QED
    BY <2>1, <2>2, <2>3, AnswersAreSafe
<1>8. ASSUME UNCHANGED <<head, tail>>,
             estimate' = estimate \/ \E t \in Caller : Forget(t)
      PROVE  EstimatesAreSafe'
  <2>1. Length' = Length /\ Space' = Space /\ Space >= 0
    BY <1>0, <1>8 DEF Length, Space, Place
  <2>2. \A t \in Caller : estimate'[t] = estimate[t] \/ estimate'[t] = 0
    BY <1>8 DEF Forget, Bytes
  <2> QED
    BY <1>0, <2>1, <2>2 DEF EstimatesAreSafe, Caller
<1>9. ASSUME NEW block \in Block, Refuse(block) PROVE EstimatesAreSafe'
  BY <1>8, <1>9 DEF Refuse, Caller
<1>10. CASE ReadNothing \/ DestroyRing
  BY <1>8, <1>10 DEF ReadNothing, DestroyRing, Caller
<1>11. ASSUME NEW n \in 0..Length, PeekCopy(n) PROVE EstimatesAreSafe'
  BY <1>8, <1>11 DEF PeekCopy
<1>13. CASE UNCHANGED ringVars
  BY <1>8, <1>13 DEF ringVars
<1> QED
  BY <1>1, <1>2, <1>3, <1>4, <1>5, <1>6, <1>7, <1>9, <1>10, <1>11, <1>13
  DEF RingNext

(***************************************************************************)
(* EstimatesAreSafe: stale on the safe side, or beyond any size.           *)
(***************************************************************************)
THEOREM RingEstimates == RingSpec => []EstimatesAreSafe
<1>1. RingInit => EstimatesAreSafe
  <2> SUFFICES ASSUME RingInit PROVE EstimatesAreSafe
    OBVIOUS
  <2>1. head = 0 /\ tail = 0 /\ estimate["reader"] = 0 /\ estimate["writer"] = 0
    BY DEF RingInit, Caller
  <2>2. Length \in 0..(Size - 1)
    BY <2>1, SizeFacts DEF Length, Filled, Place
  <2> QED
    BY <2>1, <2>2, SizeFacts DEF EstimatesAreSafe, Space
<1>2. /\ Indices /\ Lines /\ Bytes /\ EstimatesAreSafe /\ [RingNext]_ringVars
      => EstimatesAreSafe'
  BY EstimatesStep
<1> QED
  BY <1>1, <1>2, RingInvariant, PTL DEF RingSpec

=============================================================================
