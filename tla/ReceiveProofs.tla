---------------------------- MODULE ReceiveProofs ----------------------------
(***************************************************************************)
(* Proofs about the two receive loops, the node's and the router's: for    *)
(* every set of bytes, every header, every size of the buffers that they   *)
(* can have, and every stream.                                             *)
(***************************************************************************)
EXTENDS NodeReceive, RouterReceive, StreamLemmas

-----------------------------------------------------------------------------
(* The packet at the front of a buffer.                                    *)

\* The length in a header that is there is a number.
LEMMA LengthByte ==
    ASSUME NEW b \in Seq(Byte), Len(b) >= Header
    PROVE  b[Header] \in Nat
<1>1. Header \in 1..Len(b)
  BY FramingAssumption
<1>2. b[Header] \in Byte
  BY <1>1, ElementOfSeq
<1> QED
  BY <1>2, FramingAssumption

\* A packet is found only behind a whole header, and never exceeds the buffer.
LEMMA NextBounds ==
    ASSUME NEW b \in Seq(Byte)
    PROVE  /\ NextPacket(b) \in Int
           /\ NextPacket(b) <= Len(b)
           /\ NextPacket(b) # 0 => Len(b) >= Header
           /\ Len(b) >= Header => b[Header] \in Nat
<1>1. Len(b) \in Nat /\ Header \in Nat /\ Header >= 3
  BY FramingAssumption
<1>2. Len(b) >= Header => b[Header] \in Nat
  <2>1. Len(b) >= Header => Header \in 1..Len(b)
    BY <1>1
  <2> QED
    BY <2>1, ElementOfSeq, FramingAssumption
<1> QED
  BY <1>1, <1>2 DEF NextPacket

\* What is found does not change when more bytes arrive.
LEMMA NextExtends ==
    ASSUME NEW b \in Seq(Byte), NEW w \in Seq(Byte), NextPacket(b) # 0
    PROVE  NextPacket(Cat(b, w)) = NextPacket(b)
<1>1. /\ Len(b) \in Nat /\ Len(w) \in Nat /\ Header \in Nat
      /\ Header >= 3 /\ Len(b) >= Header
  BY NextBounds, FramingAssumption
<1>2. Len(Cat(b, w)) = Len(b) + Len(w)
  BY CatLength
<1>3. 1 \in 1..Len(b) /\ 2 \in 1..Len(b) /\ Header \in 1..Len(b)
  BY <1>1
<1>4. /\ Cat(b, w)[1] = b[1] /\ Cat(b, w)[2] = b[2]
      /\ Cat(b, w)[Header] = b[Header]
  BY <1>3, CatElement
<1>5. b[Header] \in Nat
  BY <1>1, NextBounds
<1> QED
  BY <1>1, <1>2, <1>4, <1>5 DEF NextPacket

\* The same, of the concatenation as it is written in the modules.
LEMMA NextOfMore ==
    ASSUME NEW b \in Seq(Byte), NEW w \in Seq(Byte), NextPacket(b) # 0
    PROVE  NextPacket(b \o w) = NextPacket(b)
BY NextExtends DEF Cat

\* Nothing found in a buffer with a header in it: a packet longer than the buffer.
LEMMA FoundNothing ==
    ASSUME NEW b \in Seq(Byte), NextPacket(b) = 0, Len(b) >= Header
    PROVE  /\ b[1] = Magic /\ b[2] = Version
           /\ Header + b[Header] > Len(b)
<1>1. Len(b) \in Nat /\ Header \in Nat /\ Header >= 3
  BY FramingAssumption
<1>2. b[Header] \in Nat
  BY <1>1, LengthByte
<1> QED
  BY <1>1, <1>2 DEF NextPacket

-----------------------------------------------------------------------------
(* The node: buffers and streams.                                          *)

\* The part of a sequence from some place on.
LEMMA Rest ==
    ASSUME NEW s \in Seq(Byte), NEW k \in Nat, k <= Len(s)
    PROVE  /\ SubSeq(s, k + 1, Len(s)) \in Seq(Byte)
           /\ Len(SubSeq(s, k + 1, Len(s))) = Len(s) - k
           /\ \A i \in 1..(Len(s) - k) : SubSeq(s, k + 1, Len(s))[i] = s[k + i]
<1> DEFINE l == Len(s)
           r == SubSeq(s, k + 1, l)
<1>1. l \in Nat /\ k + 1 \in Int
  OBVIOUS
<1>2. \A i \in (k + 1)..l : s[i] \in Byte
  BY <1>1, ElementOfSeq
<1>3. /\ r \in Seq(Byte)
      /\ Len(r) = (IF k + 1 <= l THEN l - (k + 1) + 1 ELSE 0)
      /\ \A i \in 1..(l - (k + 1) + 1) : r[i] = s[(k + 1) + i - 1]
  BY <1>1, <1>2, SubSeqProperties DEF r, l
<1>4. k <= l
  OBVIOUS
<1> HIDE DEF r, l
<1>5. Len(r) = l - k
  BY <1>1, <1>3, <1>4
<1>6. ASSUME NEW i \in 1..(l - k)
      PROVE  r[i] = s[k + i]
  <2>1. i \in 1..(l - (k + 1) + 1) /\ (k + 1) + i - 1 = k + i
    BY <1>1
  <2> QED
    BY <1>3, <2>1
<1> QED
  BY <1>3, <1>5, <1>6 DEF r, l

\* Bytes that move from the socket to the buffer stay where they are in the
\* stream.
LEMMA ReadKeepsStream ==
    ASSUME NEW b \in Seq(Byte), NEW w \in Seq(Byte), NEW n \in 1..Len(w)
    PROVE  /\ SubSeq(w, 1, n) \in Seq(Byte) /\ Len(SubSeq(w, 1, n)) = n
           /\ SubSeq(w, n + 1, Len(w)) \in Seq(Byte)
           /\ (b \o SubSeq(w, 1, n)) \o SubSeq(w, n + 1, Len(w)) = b \o w
<1> DEFINE head == SubSeq(w, 1, n)
           tail == SubSeq(w, n + 1, Len(w))
<1>1. n \in 0..Len(w)
  OBVIOUS
<1>2. /\ head \in Seq(Byte) /\ Len(head) = n
      /\ tail \in Seq(Byte) /\ w = Cat(head, tail)
  BY <1>1, CatSplit
<1> HIDE DEF head, tail
<1>3. Cat(Cat(b, head), tail) = Cat(b, Cat(head, tail))
  BY <1>2, CatAssociative
<1>4. (b \o head) \o tail = b \o w
  BY <1>2, <1>3 DEF Cat
<1> QED
  BY <1>2, <1>4 DEF head, tail

\* The elements of s behind the first k; b and then w hold those behind the first p.
Behind(s, k) == SubSeq(s, k + 1, Len(s))
Holds(b, w, s, p) == b \o w = SubSeq(s, p + 1, Len(s))

\* Bytes that are shifted out of the buffer are the next ones of the stream.
LEMMA ShiftKeepsStream ==
    ASSUME NEW s \in Seq(Byte), NEW p \in Nat, p <= Len(s),
           NEW b \in Seq(Byte), NEW w \in Seq(Byte),
           Holds(b, w, s, p),
           NEW n \in 1..Len(b)
    PROVE  /\ Behind(b, n) \in Seq(Byte)
           /\ Len(Behind(b, n)) = Len(b) - n
           /\ p + n <= Len(s)
           /\ Holds(Behind(b, n), w, s, p + n)
<1> DEFINE l == Len(s)
           lb == Len(b)
           lw == Len(w)
           rest == SubSeq(b, n + 1, lb)
           left == SubSeq(s, p + 1, l)
           next == SubSeq(s, p + n + 1, l)
<1>1. l \in Nat /\ lb \in Nat /\ lw \in Nat /\ n \in Nat /\ 1 <= n /\ n <= lb
  OBVIOUS
<1>3. /\ Len(left) = l - p
      /\ \A i \in 1..(l - p) : left[i] = s[p + i]
  BY <1>1, Rest
<1>4. /\ rest \in Seq(Byte) /\ Len(rest) = lb - n
      /\ \A i \in 1..(lb - n) : rest[i] = b[n + i]
  BY <1>1, Rest
<1>5. /\ Len(b \o w) = lb + lw
      /\ \A i \in 1..(lb + lw) : (b \o w)[i] = IF i <= lb THEN b[i] ELSE w[i - lb]
  BY ConcatProperties
<1>9. b \o w = left
  BY DEF Holds
<1>6. lb + lw = l - p
  BY <1>3, <1>5, <1>9
<1>13. p + n <= l
  BY <1>1, <1>6
<1>7. /\ next \in Seq(Byte) /\ Len(next) = l - (p + n)
      /\ \A i \in 1..(l - (p + n)) : next[i] = s[p + n + i]
  <2>1. p + n \in Nat
    OBVIOUS
  <2> QED
    BY <1>13, <2>1, Rest
<1>8. /\ rest \o w \in Seq(Byte) /\ Len(rest \o w) = (lb - n) + lw
      /\ \A i \in 1..((lb - n) + lw) :
            (rest \o w)[i] = IF i <= lb - n THEN rest[i] ELSE w[i - (lb - n)]
  <2> HIDE DEF rest
  <2>1. /\ rest \o w \in Seq(Byte) /\ Len(rest \o w) = Len(rest) + lw
        /\ \A i \in 1..(Len(rest) + lw) :
              (rest \o w)[i] = IF i <= Len(rest) THEN rest[i] ELSE w[i - Len(rest)]
    BY <1>4, ConcatProperties
  <2>2. Len(rest) = lb - n
    BY <1>4
  <2> HIDE DEF lb, lw
  <2> QED
    BY <2>1, <2>2
<1> HIDE DEF l, lb, lw, rest, left, next
<1>10. ASSUME NEW i \in 1..((lb - n) + lw)
       PROVE  (rest \o w)[i] = next[i]
  <2>1. /\ n + i \in 1..(lb + lw) /\ n + i \in 1..(l - p)
        /\ i \in 1..(l - (p + n))
    BY <1>1, <1>6
  <2>2. next[i] = s[p + n + i] /\ left[n + i] = s[p + (n + i)]
    BY <1>3, <1>7, <2>1
  <2>3. p + n + i = p + (n + i)
    BY <1>1
  <2>4. next[i] = (b \o w)[n + i]
    BY <1>9, <2>2, <2>3
  <2>5. CASE i <= lb - n
    <3>1. n + i <= lb /\ i \in 1..(lb - n)
      BY <1>1, <2>5
    <3> QED
      BY <1>4, <1>5, <1>8, <2>1, <2>4, <2>5, <3>1
  <2>6. CASE ~(i <= lb - n)
    <3>1. ~(n + i <= lb) /\ (n + i) - lb = i - (lb - n)
      BY <1>1, <2>6
    <3> QED
      BY <1>5, <1>8, <2>1, <2>4, <2>6, <3>1
  <2> QED
    BY <2>5, <2>6
<1>11. Len(rest \o w) = Len(next)
  <2>1. (lb - n) + lw = l - (p + n)
    BY <1>1, <1>6
  <2> QED
    BY <1>7, <1>8, <2>1
<1>12. rest \o w = next
  BY <1>7, <1>8, <1>10, <1>11, SeqEqual
<1> QED
  BY <1>4, <1>12, <1>13 DEF rest, next, l, lb, Behind, Holds
\* The front of the buffer is the front of the stream.
LEMMA FrontOfConcat ==
    ASSUME NEW b \in Seq(Byte), NEW w \in Seq(Byte), NEW n \in 1..Len(b)
    PROVE  SubSeq(b \o w, 1, n) = SubSeq(b, 1, n)
BY SubSeqOfConcat1

-----------------------------------------------------------------------------
(* The node: the invariant.  BufferIsStream is what makes a full buffer    *)
(* the front of the stream, NothingLeftBehind the front of one packet.     *)

\* Nothing that could be handled or discarded waits for the next read.
NothingLeftBehind == state = "waiting" => NextPacket(buffer) = 0

Inv == ReceiveTypeOK /\ BufferIsStream /\ NothingLeftBehind /\ FullOnlyForLongFrames

\* The invariant holds at the start,
LEMMA InvInit == Init => Inv
<1> SUFFICES ASSUME Init
             PROVE  Inv
  OBVIOUS
<1> USE DEF Init
<1>1. input \in Seq(Byte) /\ Len(input) \in Nat
  BY ReceiveAssumption
<1>2. ReceiveTypeOK
  <2>1. <<>> \in Seq(Byte) /\ <<>> \in Seq(Seq(Byte)) /\ Len(<<>>) = 0
    BY EmptySeq
  <2> QED
    BY <1>1, <2>1, ReceiveAssumption DEF ReceiveTypeOK
<1>3. BufferIsStream
  <2>1. <<>> \o input = input
    BY <1>1, ConcatEmptySeq
  <2>2. SubSeq(input, 1, Len(input)) = input
    BY <1>1, SubSeqFull
  <2> QED
    BY <2>1, <2>2 DEF BufferIsStream
<1>4. NothingLeftBehind
  BY FramingAssumption DEF NothingLeftBehind, NextPacket
<1>5. FullOnlyForLongFrames
  BY DEF FullOnlyForLongFrames
<1> QED
  BY <1>2, <1>3, <1>4, <1>5 DEF Inv

\* and is kept by a read,
LEMMA InvRead == Inv /\ Read => Inv'
<1> SUFFICES ASSUME Inv, Read
             PROVE  Inv'
  OBVIOUS
<1> USE DEF Inv
<1>1. PICK n \in 1..Len(wire) :
        /\ n <= Room
        /\ buffer' = buffer \o SubSeq(wire, 1, n)
        /\ wire' = SubSeq(wire, n + 1, Len(wire))
  BY DEF Read
<1>2. /\ state = "waiting" /\ state' = "scanning"
      /\ input' = input /\ pos' = pos /\ found' = found
  BY DEF Read
<1>3. /\ SubSeq(wire, 1, n) \in Seq(Byte) /\ Len(SubSeq(wire, 1, n)) = n
      /\ wire' \in Seq(Byte)
      /\ buffer' \o wire' = buffer \o wire
  BY <1>1, ReadKeepsStream DEF ReceiveTypeOK
<1>4. ReceiveTypeOK'
  <2>1. buffer' \in Seq(Byte) /\ Len(buffer') = Len(buffer) + n
    BY <1>1, <1>3, ConcatProperties DEF ReceiveTypeOK
  <2>2. Len(buffer') <= Capacity
    BY <1>1, <2>1, ReceiveAssumption DEF ReceiveTypeOK, Room
  <2> QED
    BY <1>2, <1>3, <2>1, <2>2 DEF ReceiveTypeOK
<1>5. BufferIsStream'
  BY <1>2, <1>3 DEF BufferIsStream, Stopped
<1>6. NothingLeftBehind' /\ FullOnlyForLongFrames'
  BY <1>2 DEF NothingLeftBehind, FullOnlyForLongFrames
<1> QED
  BY <1>4, <1>5, <1>6

\* the end of the stream,
LEMMA InvStreamEnds == Inv /\ StreamEnds => Inv'
<1> SUFFICES ASSUME Inv, StreamEnds
             PROVE  Inv'
  OBVIOUS
<1>1. <<>> \in Seq(Byte) /\ Len(<<>>) = 0
  BY EmptySeq
<1>2. ReceiveTypeOK'
  BY <1>1, ReceiveAssumption DEF Inv, ReceiveTypeOK, StreamEnds
<1>3. BufferIsStream' /\ NothingLeftBehind' /\ FullOnlyForLongFrames'
  BY DEF StreamEnds, BufferIsStream, Stopped, NothingLeftBehind,
         FullOnlyForLongFrames
<1> QED
  BY <1>2, <1>3 DEF Inv

\* a full buffer,
LEMMA InvBufferIsFull == Inv /\ BufferIsFull => Inv'
<1> SUFFICES ASSUME Inv, BufferIsFull
             PROVE  Inv'
  OBVIOUS
<1> DEFINE rest == SubSeq(input, pos + 1, Len(input))
<1>1. <<>> \in Seq(Byte) /\ Len(<<>>) = 0
  BY EmptySeq
<1>2. ReceiveTypeOK'
  BY <1>1, ReceiveAssumption DEF Inv, ReceiveTypeOK, BufferIsFull
<1>3. BufferIsStream' /\ NothingLeftBehind'
  BY DEF BufferIsFull, BufferIsStream, Stopped, NothingLeftBehind
<1>4. FullOnlyForLongFrames'
  <2>1. buffer \in Seq(Byte) /\ wire \in Seq(Byte) /\ wire # <<>>
    BY DEF Inv, ReceiveTypeOK, BufferIsFull
  <2>2. Len(buffer) = Capacity
    <3>1. Capacity - Len(buffer) = 0
      BY DEF BufferIsFull, Room
    <3>2. Len(buffer) \in Nat
      BY <2>1
    <3> QED
      BY <3>1, <3>2, ReceiveAssumption
  <2>3. Capacity \in Nat /\ Header \in Nat /\ Header >= 3 /\ Capacity >= Header
    BY ReceiveAssumption, FramingAssumption
  <2>4. /\ buffer[1] = Magic /\ buffer[2] = Version
        /\ Header + buffer[Header] > Capacity
    <3>1. NextPacket(buffer) = 0
      BY DEF Inv, BufferIsFull, NothingLeftBehind
    <3> QED
      BY <2>1, <2>2, <2>3, <3>1, FoundNothing
  <2>5. rest = buffer \o wire
    BY DEF Inv, BufferIsFull, BufferIsStream, Stopped
  <2>6. Len(wire) \in Nat /\ Len(wire) > 0
    BY <2>1, EmptySeq
  <2>7. /\ Len(rest) = Capacity + Len(wire)
        /\ rest[1] = buffer[1] /\ rest[2] = buffer[2]
        /\ rest[Header] = buffer[Header]
    <3> HIDE DEF rest
    <3>1. \A i \in 1..(Len(buffer) + Len(wire)) :
             rest[i] = IF i <= Len(buffer) THEN buffer[i] ELSE wire[i - Len(buffer)]
      BY <2>1, <2>5, ConcatProperties
    <3>2. Len(rest) = Len(buffer) + Len(wire)
      BY <2>1, <2>5, ConcatProperties
    <3> QED
      BY <2>2, <2>3, <2>6, <3>1, <3>2
  <2>8. Len(rest) > Capacity
    <3> HIDE DEF rest
    <3> QED
      BY <2>3, <2>6, <2>7
  <2>9. input' = input /\ pos' = pos
    BY DEF BufferIsFull
  <2> QED
    BY <2>4, <2>7, <2>8, <2>9 DEF FullOnlyForLongFrames
<1> QED
  BY <1>2, <1>3, <1>4 DEF Inv

\* A packet that is found, or an error, is about bytes that are in the buffer.
LEMMA ShiftInv ==
    ASSUME Inv, state = "scanning", NEW n \in 1..Len(buffer),
           buffer' = SubSeq(buffer, n + 1, Len(buffer)),
           pos' = pos + n,
           UNCHANGED <<input, wire>>
    PROVE  /\ buffer' \in Seq(Byte) /\ Len(buffer') <= Capacity
           /\ pos' \in Nat /\ pos' <= Len(input)
           /\ BufferIsStream'
<1>1. /\ input \in Seq(Byte) /\ wire \in Seq(Byte) /\ buffer \in Seq(Byte)
      /\ pos \in Nat /\ pos <= Len(input) /\ Len(buffer) <= Capacity
      /\ buffer \o wire = SubSeq(input, pos + 1, Len(input))
  BY DEF Inv, ReceiveTypeOK, BufferIsStream, Stopped
<1> DEFINE rest == SubSeq(buffer, n + 1, Len(buffer))
<1>2. /\ rest \in Seq(Byte)
      /\ Len(rest) = Len(buffer) - n
      /\ pos + n <= Len(input)
      /\ rest \o wire = SubSeq(input, pos + n + 1, Len(input))
  <2>1. Holds(buffer, wire, input, pos)
    BY <1>1 DEF Holds
  <2> QED
    <3>1. /\ Behind(buffer, n) \in Seq(Byte)
          /\ Len(Behind(buffer, n)) = Len(buffer) - n
          /\ pos + n <= Len(input)
          /\ Holds(Behind(buffer, n), wire, input, pos + n)
      BY <1>1, <2>1, ShiftKeepsStream
    <3> QED
      BY <3>1 DEF Behind, Holds
<1>3. n \in Nat /\ Len(buffer) \in Nat /\ Capacity \in Nat
  BY <1>1, ReceiveAssumption
<1>4. buffer' = rest /\ pos' = pos + n /\ input' = input /\ wire' = wire
  OBVIOUS
<1> HIDE DEF rest
<1>5. Len(buffer') <= Capacity /\ pos' \in Nat /\ pos' <= Len(input)
  BY <1>1, <1>2, <1>3, <1>4
<1>6. buffer' \o wire' = SubSeq(input', pos' + 1, Len(input'))
  BY <1>2, <1>4
<1> QED
  BY <1>2, <1>4, <1>5, <1>6 DEF BufferIsStream

\* bytes that are no header,
LEMMA InvDesync == Inv /\ Desync => Inv'
<1> SUFFICES ASSUME Inv, Desync
             PROVE  Inv'
  OBVIOUS
<1>1. /\ state = "scanning" /\ NextPacket(buffer) < 0
      /\ buffer' = Tail(buffer) /\ pos' = pos + 1
      /\ UNCHANGED <<input, wire, state, found>>
  BY DEF Desync
<1>2. buffer \in Seq(Byte)
  BY DEF Inv, ReceiveTypeOK
<1>3. 1 \in 1..Len(buffer)
  <2>1. Len(buffer) >= Header /\ Header \in Nat /\ Header >= 3
    BY <1>1, <1>2, NextBounds, FramingAssumption
  <2> QED
    BY <1>2, <2>1
<1>4. buffer' = SubSeq(buffer, 2, Len(buffer))
  <2>1. buffer # <<>>
    BY <1>3
  <2> QED
    BY <1>1, <1>2, <2>1, TailIsSubSeq
<1>5. /\ buffer' \in Seq(Byte) /\ Len(buffer') <= Capacity
      /\ pos' \in Nat /\ pos' <= Len(input)
      /\ BufferIsStream'
  <2> DEFINE n == 1
  <2>1. buffer' = SubSeq(buffer, n + 1, Len(buffer))
    <3>1. n + 1 = 2
      OBVIOUS
    <3> QED
      BY <1>4, <3>1
  <2> QED
    BY <1>1, <1>3, <2>1, ShiftInv
<1>6. ReceiveTypeOK'
  BY <1>1, <1>5 DEF Inv, ReceiveTypeOK
<1>7. NothingLeftBehind' /\ FullOnlyForLongFrames'
  BY <1>1 DEF NothingLeftBehind, FullOnlyForLongFrames
<1> QED
  BY <1>5, <1>6, <1>7 DEF Inv

\* a packet taken,
LEMMA InvTakePacket == Inv /\ TakePacket => Inv'
<1> SUFFICES ASSUME Inv, TakePacket
             PROVE  Inv'
  OBVIOUS
<1> DEFINE size == NextPacket(buffer)
<1>1. /\ state = "scanning" /\ size > 0
      /\ found' = Append(found, SubSeq(buffer, 1, size))
      /\ buffer' = SubSeq(buffer, size + 1, Len(buffer)) /\ pos' = pos + size
      /\ UNCHANGED <<input, wire, state>>
  BY DEF TakePacket
<1>2. buffer \in Seq(Byte)
  BY DEF Inv, ReceiveTypeOK
<1>3. size \in 1..Len(buffer)
  BY <1>1, <1>2, NextBounds
<1> HIDE DEF size
<1>4. /\ buffer' \in Seq(Byte) /\ Len(buffer') <= Capacity
      /\ pos' \in Nat /\ pos' <= Len(input)
      /\ BufferIsStream'
  BY <1>1, <1>3, ShiftInv
<1>5. found' \in Seq(Seq(Byte))
  <2>1. SubSeq(buffer, 1, size) \in Seq(Byte)
    BY <1>2, <1>3, ReadKeepsStream
  <2>2. found \in Seq(Seq(Byte))
    BY DEF Inv, ReceiveTypeOK
  <2> QED
    BY <1>1, <2>1, <2>2, AppendProperties
<1>6. ReceiveTypeOK'
  BY <1>1, <1>4, <1>5 DEF Inv, ReceiveTypeOK
<1>7. NothingLeftBehind' /\ FullOnlyForLongFrames'
  BY <1>1 DEF NothingLeftBehind, FullOnlyForLongFrames
<1> QED
  BY <1>4, <1>6, <1>7 DEF Inv

\* the end of a scan,
LEMMA InvScanned == Inv /\ Scanned => Inv'
BY DEF Inv, Scanned, ReceiveTypeOK, BufferIsStream, Stopped, NothingLeftBehind,
       FullOnlyForLongFrames

\* and so by every step.
LEMMA InvStep == Inv /\ [Next]_vars => Inv'
<1> SUFFICES ASSUME Inv, [Next]_vars
             PROVE  Inv'
  OBVIOUS
<1>1. CASE Read
  BY <1>1, InvRead
<1>2. CASE StreamEnds
  BY <1>2, InvStreamEnds
<1>3. CASE BufferIsFull
  BY <1>3, InvBufferIsFull
<1>4. CASE Desync
  BY <1>4, InvDesync
<1>5. CASE TakePacket
  BY <1>5, InvTakePacket
<1>6. CASE Scanned
  BY <1>6, InvScanned
<1>7. CASE UNCHANGED vars
  BY <1>7 DEF vars, Inv, ReceiveTypeOK, BufferIsStream, Stopped, NothingLeftBehind,
              FullOnlyForLongFrames
<1> QED
  BY <1>1, <1>2, <1>3, <1>4, <1>5, <1>6, <1>7 DEF Next, NodeStep

-----------------------------------------------------------------------------

\* The buffer never exceeds its memory and holds bytes of the stream: no read of
\* handleRemoteData goes past the end of the local buffer.
THEOREM ReceiveTypeCorrect == Spec => []ReceiveTypeOK
<1>1. Inv => ReceiveTypeOK
  BY DEF Inv
<1> QED
  BY <1>1, InvInit, InvStep, PTL DEF Spec

\* However the reads cut the stream and whatever is in it, handleRemoteData neither
\* loses a byte nor keeps one twice.
THEOREM BufferHoldsStream == Spec => []BufferIsStream
<1>1. Inv => BufferIsStream
  BY DEF Inv
<1> QED
  BY <1>1, InvInit, InvStep, PTL DEF Spec

\* A full buffer that ends the node is the front of one packet that does not fit
\* into it: no amount of short packets or garbage fills it.
THEOREM OnlyLongFramesFill == Spec => []FullOnlyForLongFrames
<1>1. Inv => FullOnlyForLongFrames
  BY DEF Inv
<1> QED
  BY <1>1, InvInit, InvStep, PTL DEF Spec

-----------------------------------------------------------------------------
(* The node implements the scanner.                                        *)

\* The receive loop starts as the scanner does,
LEMMA InitScans == Init => S!SInit
BY ReceiveAssumption DEF Init, S!SInit

\* What is found in the buffer is what the scan over the whole stream finds.
LEMMA FoundInStream ==
    ASSUME Inv, state = "scanning", NextPacket(buffer) # 0
    PROVE  /\ S!Rest = buffer \o wire
           /\ S!NextPacket(S!Rest) = NextPacket(buffer)
<1>1. buffer \in Seq(Byte) /\ wire \in Seq(Byte)
  BY DEF Inv, ReceiveTypeOK
<1>2. S!Rest = buffer \o wire
  BY DEF Inv, BufferIsStream, Stopped, S!Rest
<1>3. NextPacket(buffer \o wire) = NextPacket(buffer)
  BY <1>1, NextOfMore
<1>4. S!NextPacket(S!Rest) = NextPacket(S!Rest)
  BY DEF S!NextPacket, NextPacket
<1> QED
  BY <1>2, <1>3, <1>4

\* and each of its steps is a step of the scanner, or none.
LEMMA StepScans == Inv /\ [Next]_vars => [S!SNext]_(S!scan)
<1> SUFFICES ASSUME Inv, [Next]_vars
             PROVE  [S!SNext]_(S!scan)
  OBVIOUS
<1>1. CASE Desync
  <2>1. /\ state = "scanning" /\ NextPacket(buffer) < 0
        /\ pos' = pos + 1 /\ UNCHANGED <<input, found>>
    BY <1>1 DEF Desync
  <2>2. NextPacket(buffer) # 0
    BY <2>1
  <2>3. S!NextPacket(S!Rest) < 0
    BY <2>1, <2>2, FoundInStream
  <2> QED
    BY <2>1, <2>3 DEF S!SNext, S!Skip
<1>2. CASE TakePacket
  <2> DEFINE size == NextPacket(buffer)
  <2>1. /\ state = "scanning" /\ size > 0
        /\ found' = Append(found, SubSeq(buffer, 1, size))
        /\ pos' = pos + size /\ UNCHANGED input
    BY <1>2 DEF TakePacket
  <2>2. buffer \in Seq(Byte) /\ wire \in Seq(Byte)
    BY DEF Inv, ReceiveTypeOK
  <2>3. size \in 1..Len(buffer)
    BY <2>1, <2>2, NextBounds
  <2>4. S!Rest = buffer \o wire /\ S!NextPacket(S!Rest) = size
    <3>1. NextPacket(buffer) # 0
      BY <2>1
    <3> QED
      BY <2>1, <3>1, FoundInStream
  <2> HIDE DEF size
  <2>5. SubSeq(S!Rest, 1, size) = SubSeq(buffer, 1, size)
    BY <2>2, <2>3, <2>4, FrontOfConcat
  <2> QED
    BY <2>1, <2>4, <2>5 DEF S!SNext, S!Take
<1>3. CASE Read \/ StreamEnds \/ BufferIsFull \/ Scanned \/ UNCHANGED vars
  BY <1>3 DEF Read, StreamEnds, BufferIsFull, Scanned, vars, S!scan
<1> QED
  BY <1>1, <1>2, <1>3 DEF Next, NodeStep

\* The packets handleRemoteData hands on are those of one scan over the stream,
\* for every stream and every way reads cut it.
THEOREM ReceiveScansTheStream == Spec => ScansTheStream
<1>1. Spec => []Inv
  BY InvInit, InvStep, PTL DEF Spec
<1> QED
  BY <1>1, InitScans, StepScans, PTL DEF Spec, ScansTheStream, S!SSpec

-----------------------------------------------------------------------------
(* The router: the front of a sequence.                                    *)

\* It has the first elements, in their places.
LEMMA FrontElement ==
    ASSUME NEW T, NEW s \in Seq(T), NEW n \in 0..Len(s), NEW i \in 1..n
    PROVE  SubSeq(s, 1, n)[i] = s[i]
<1>1. \A j \in 1..n : s[j] \in T
  BY ElementOfSeq
<1>2. n \in Int /\ 1 \in Int /\ i \in 1..(n - 1 + 1) /\ 1 + i - 1 = i
  OBVIOUS
<1> QED
  BY <1>1, <1>2, SubSeqProperties

-----------------------------------------------------------------------------
(* The router: packets and shifts.                                         *)

\* A packet by itself is one: its header says how long it is.
LEMMA NextAlone ==
    ASSUME NEW b \in Seq(Byte), NextPacket(b) > 0
    PROVE  /\ NextPacket(b) \in 1..Len(b)
           /\ SubSeq(b, 1, NextPacket(b)) \in Seq(Byte)
           /\ Len(SubSeq(b, 1, NextPacket(b))) = NextPacket(b)
           /\ NextPacket(SubSeq(b, 1, NextPacket(b))) = NextPacket(b)
<1> DEFINE n == NextPacket(b)
           f == SubSeq(b, 1, n)
<1>1. n \in 1..Len(b) /\ Len(b) >= Header /\ b[Header] \in Nat /\ Len(b) \in Nat
  BY NextBounds
<1>2. Header \in Nat /\ Header >= 3
  BY FramingAssumption
<1>3. n = Header + b[Header] /\ b[1] = Magic /\ b[2] = Version
  BY <1>1, <1>2 DEF NextPacket
<1>4. n \in 0..Len(b)
  BY <1>1
<1>5. f \in Seq(Byte) /\ Len(f) = n
  BY <1>4, CatSplit
<1>6. \A i \in 1..n : f[i] = b[i]
  BY <1>4, FrontElement
<1> HIDE DEF n, f
<1>7. f[1] = b[1] /\ f[2] = b[2] /\ f[Header] = b[Header]
  <2>1. 1 \in 1..n /\ 2 \in 1..n /\ Header \in 1..n
    BY <1>1, <1>2, <1>3
  <2> QED
    BY <1>6, <2>1
<1>8. NextPacket(f) = n
  <2>1. /\ ~ (Len(f) < Header) /\ f[1] = Magic /\ f[2] = Version
        /\ Header + f[Header] = n /\ n <= Len(f)
    <3>1. n \in Nat /\ n >= Header /\ Len(f) = n
      BY <1>1, <1>2, <1>3, <1>5
    <3>2. f[1] = Magic /\ f[2] = Version /\ f[Header] = b[Header]
      BY <1>3, <1>7
    <3> QED
      BY <1>2, <1>3, <3>1, <3>2
  <2> QED
    BY <2>1 DEF NextPacket
<1> QED
  BY <1>1, <1>5, <1>8 DEF n, f

\* Bytes that move within the buffer are still bytes.
LEMMA ShiftedType ==
    ASSUME NEW b \in Seq(Byte), NEW size \in 0..Len(b), NEW k \in 0..size
    PROVE  Shifted(b, size, k) \in Seq(Byte) /\ Len(Shifted(b, size, k)) = Len(b)
<1> DEFINE s == Shifted(b, size, k)
           l == Len(b)
<1>1. l \in Nat /\ k \in Nat /\ size \in Nat /\ size <= l /\ k <= size
  OBVIOUS
<1>2. s = [i \in 1..l |-> IF i <= size - k THEN b[i + k] ELSE b[i]]
  BY DEF Shifted
<1>3. \A i \in 1..l : b[i] \in Byte
  BY ElementOfSeq
<1> HIDE DEF s, l
<1>4. \A i \in 1..l : i <= size - k => i + k \in 1..l
  BY <1>1
<1>5. s \in [1..l -> Byte]
  BY <1>2, <1>3, <1>4
<1>6. s \in Seq(Byte) /\ Len(s) = l
  BY <1>1, <1>5, FunctionIsSeq
<1> QED
  BY <1>6 DEF s, l

\* When all of the buffer is searched, what is behind a packet moves to its front.
LEMMA ShiftedRest ==
    ASSUME NEW b \in Seq(Byte), NEW k \in 1..Len(b)
    PROVE  SubSeq(Shifted(b, Len(b), k), 1, Len(b) - k) = SubSeq(b, k + 1, Len(b))
<1> DEFINE l == Len(b)
           s == Shifted(b, l, k)
           m == l - k
           f == SubSeq(s, 1, m)
           r == SubSeq(b, k + 1, l)
<1>1. l \in Nat /\ k \in Nat /\ k <= l /\ m \in 0..l /\ k \in 0..l /\ l \in 0..l
  OBVIOUS
<1>2. s \in Seq(Byte) /\ Len(s) = l
  BY <1>1, ShiftedType
<1>3. \A i \in 1..m : s[i] = b[i + k]
  <2>1. s = [i \in 1..l |-> IF i <= l - k THEN b[i + k] ELSE b[i]]
    BY DEF Shifted
  <2> HIDE DEF s
  <2> QED
    BY <1>1, <2>1
<1>4. r \in Seq(Byte) /\ Len(r) = m /\ b = Cat(SubSeq(b, 1, k), r)
      /\ SubSeq(b, 1, k) \in Seq(Byte) /\ Len(SubSeq(b, 1, k)) = k
  BY <1>1, CatSplit
<1>5. \A i \in 1..m : b[k + i] = r[i]
  BY <1>4, CatSecond
<1> HIDE DEF s
<1>6. f \in Seq(Byte) /\ Len(f) = m
  BY <1>1, <1>2, CatSplit
<1>7. \A i \in 1..m : s[i] = f[i]
  BY <1>1, <1>2, FrontElement
<1>8. \A i \in 1..m : f[i] = r[i]
  <2> HIDE DEF f, r, m, l
  <2>1. \A i \in 1..m : i + k = k + i
    BY <1>1
  <2> QED
    BY <1>3, <1>5, <1>7, <2>1
<1> HIDE DEF f, r, m, l
<1>9. f = r
  BY <1>4, <1>6, <1>8, SeqEqual
<1> QED
  BY <1>9 DEF f, r, m, s, l

-----------------------------------------------------------------------------
(* The router: the invariant.  The last part is about streams of packets:  *)
(* while no byte had to be dropped, what was found, the buffer and the     *)
(* socket make up the stream, and all of the buffer is searched.           *)

Taken == FlattenSeq(rFound)

StreamInBuffer ==
    (Dropped = 0 /\ rState # "failed") =>
        /\ rInput = Cat(Taken, Cat(rBuffer, rWire))
        /\ rState = "searching" => buffer_size = Len(rBuffer)

RouterInv == FoundAreFrames /\ Dropped \in Nat /\ StreamInBuffer

\* The length of what was found is a number.
LEMMA TakenType ==
    ASSUME RouterTypeOK
    PROVE  Taken \in Seq(Byte) /\ Len(Taken) \in Nat /\ Dropped = rPos - Len(Taken)
<1>1. Taken \in Seq(Byte)
  BY FlattenType DEF RouterTypeOK, Taken
<1> QED
  BY <1>1 DEF Dropped, Taken

\* The invariant holds at the start,
LEMMA RouterInvInit ==
    ASSUME RouterInit
    PROVE  RouterInv
<1>1. <<>> \in Seq(Byte) /\ <<>> \in Seq(Seq(Byte)) /\ Len(<<>>) = 0 /\ DOMAIN <<>> = {}
  OBVIOUS
<1>2. rInput \in Seq(Byte)
  BY RouterReceiveAssumption DEF RouterInit
<1>3. RouterTypeOK
  BY <1>1, <1>2, RouterReceiveAssumption DEF RouterInit, RouterTypeOK
<1>4. Taken = <<>> /\ Dropped = 0
  <2>1. Taken = <<>>
    BY FlattenEmpty DEF Taken, RouterInit
  <2> QED
    BY <1>1, <2>1 DEF Dropped, Taken, RouterInit
<1>5. rInput = Cat(Taken, Cat(rBuffer, rWire))
  <2>1. Cat(<<>>, rInput) = rInput
    BY <1>2, CatNothing
  <2> QED
    BY <1>4, <2>1 DEF RouterInit
<1>6. StreamInBuffer
  BY <1>5 DEF StreamInBuffer, RouterInit
<1>7. FoundAreFrames
  BY <1>1, <1>3 DEF FoundAreFrames, RouterInit
<1> QED
  BY <1>4, <1>6, <1>7 DEF RouterInv

\* and is kept by a read,
LEMMA RouterInvRead ==
    ASSUME RouterInv, RouterRead
    PROVE  RouterInv'
<1>1. PICK n \in 1..Min({Mtu, Len(rWire)}) :
        /\ n < RouterRoom
        /\ rBuffer' = Cat(rBuffer, SubSeq(rWire, 1, n))
        /\ rWire' = SubSeq(rWire, n + 1, Len(rWire))
  BY DEF RouterRead, Cat
<1>2. /\ buffer_size' = Len(rBuffer') /\ rState' = "searching" /\ rState = "polling"
      /\ UNCHANGED <<rInput, rPos, rFound>>
  BY DEF RouterRead
<1>3. /\ rBuffer \in Seq(Byte) /\ rWire \in Seq(Byte) /\ rInput \in Seq(Byte)
      /\ rFound \in Seq(Seq(Byte)) /\ rPos \in Nat
  BY DEF RouterInv, FoundAreFrames, RouterTypeOK
<1>4. n \in 0..Len(rWire) /\ n \in Nat
  <2>1. {Mtu, Len(rWire)} \subseteq Nat /\ {Mtu, Len(rWire)} # {} /\ Len(rWire) \in Nat
    BY <1>3, RouterReceiveAssumption
  <2>2. Min({Mtu, Len(rWire)}) \in Nat /\ Min({Mtu, Len(rWire)}) <= Len(rWire)
    BY <2>1, MinIsLeast
  <2> QED
    BY <2>1, <2>2
<1> DEFINE front == SubSeq(rWire, 1, n)
           rest == SubSeq(rWire, n + 1, Len(rWire))
<1>5. /\ front \in Seq(Byte) /\ Len(front) = n /\ rest \in Seq(Byte)
      /\ rWire = Cat(front, rest)
  BY <1>3, <1>4, CatSplit
<1>6. rBuffer' = Cat(rBuffer, front) /\ rWire' = rest
  BY <1>1
<1>7. n < RouterCapacity - Len(rBuffer)
  BY <1>1 DEF RouterRoom
<1> HIDE DEF front, rest
<1>8. rBuffer' \in Seq(Byte) /\ Len(rBuffer') = Len(rBuffer) + n
  BY <1>3, <1>5, <1>6, CatType, CatLength
<1>9. Len(rBuffer') < RouterCapacity /\ buffer_size' \in 0..Len(rBuffer')
  <2>1. Len(rBuffer) \in Nat /\ RouterCapacity \in Nat /\ Len(rBuffer') \in Nat
    BY <1>3, <1>8, RouterReceiveAssumption
  <2> QED
    BY <1>2, <1>4, <1>7, <1>8, <2>1
<1>10. RouterTypeOK'
  BY <1>2, <1>3, <1>5, <1>6, <1>8, <1>9 DEF RouterTypeOK
<1>11. FoundAreFrames' /\ Dropped' = Dropped /\ Taken' = Taken
  BY <1>2, <1>10 DEF RouterInv, FoundAreFrames, Dropped, Taken
<1>12. Cat(rBuffer', rWire') = Cat(rBuffer, rWire)
  BY <1>3, <1>5, <1>6, CatAssociative
<1>13. StreamInBuffer'
  BY <1>2, <1>11, <1>12 DEF RouterInv, StreamInBuffer
<1> QED
  BY <1>11, <1>13 DEF RouterInv

\* a failed assertion,
LEMMA RouterInvOverflow ==
    ASSUME RouterInv, Overflow
    PROVE  RouterInv'
<1>1. PICK n \in 1..Min({Mtu, Len(rWire)}) : rWire' = SubSeq(rWire, n + 1, Len(rWire))
  BY DEF Overflow
<1>2. /\ rState' = "failed"
      /\ UNCHANGED <<rInput, rBuffer, buffer_size, rPos, rFound>>
  BY DEF Overflow
<1>3. RouterTypeOK
  BY DEF RouterInv, FoundAreFrames
<1>4. rWire' \in Seq(Byte)
  <2>1. rWire \in Seq(Byte) /\ Len(rWire) \in Nat /\ {Mtu, Len(rWire)} \subseteq Nat
        /\ {Mtu, Len(rWire)} # {}
    BY <1>3, RouterReceiveAssumption DEF RouterTypeOK
  <2>2. Min({Mtu, Len(rWire)}) \in Nat /\ Min({Mtu, Len(rWire)}) <= Len(rWire)
    BY <2>1, MinIsLeast
  <2>3. n \in 0..Len(rWire)
    BY <2>1, <2>2
  <2> QED
    BY <1>1, <2>1, <2>3, CatSplit
<1>5. RouterTypeOK'
  BY <1>2, <1>3, <1>4 DEF RouterTypeOK
<1>6. FoundAreFrames' /\ Dropped' = Dropped
  BY <1>2, <1>5 DEF RouterInv, FoundAreFrames, Dropped
<1> QED
  BY <1>2, <1>6 DEF RouterInv, StreamInBuffer

\* What is searched are the first bytes of the buffer.
LEMMA SearchedFront ==
    ASSUME RouterTypeOK
    PROVE  /\ Searched \in Seq(Byte) /\ Len(Searched) = buffer_size
           /\ buffer_size \in 0..Len(rBuffer)
           /\ rBuffer \in Seq(Byte) /\ Len(rBuffer) \in Nat
           /\ rBuffer = Cat(Searched, SubSeq(rBuffer, buffer_size + 1, Len(rBuffer)))
           /\ SubSeq(rBuffer, buffer_size + 1, Len(rBuffer)) \in Seq(Byte)
           /\ buffer_size = Len(rBuffer) => Searched = rBuffer
<1>1. rBuffer \in Seq(Byte) /\ buffer_size \in 0..Len(rBuffer)
  BY DEF RouterTypeOK
<1>2. buffer_size = Len(rBuffer) => Searched = rBuffer
  BY <1>1, SubSeqFull DEF Searched
<1>3. /\ Searched \in Seq(Byte) /\ Len(Searched) = buffer_size
      /\ rBuffer = Cat(Searched, SubSeq(rBuffer, buffer_size + 1, Len(rBuffer)))
      /\ SubSeq(rBuffer, buffer_size + 1, Len(rBuffer)) \in Seq(Byte)
  BY <1>1, CatSplit DEF Searched
<1>4. Len(rBuffer) \in Nat
  BY <1>1
<1> QED
  BY <1>1, <1>2, <1>3, <1>4

\* a byte that is dropped, after which the last part says nothing any more,
LEMMA RouterInvDesync ==
    ASSUME RouterInv, RouterDesync
    PROVE  RouterInv'
<1>1. /\ rState = "searching" /\ NextPacket(Searched) < 0
      /\ rBuffer' = Shifted(rBuffer, buffer_size, 1) /\ buffer_size' = buffer_size - 1
      /\ rPos' = rPos + 1
      /\ UNCHANGED <<rInput, rWire, rState, rFound>>
  BY DEF RouterDesync
<1>2. RouterTypeOK
  BY DEF RouterInv, FoundAreFrames
<1>3. buffer_size \in 1..Len(rBuffer)
  <2>1. NextPacket(Searched) # 0
    BY <1>1
  <2>2. Len(Searched) >= Header
    BY <1>2, <2>1, SearchedFront, NextBounds
  <2> QED
    BY <1>2, <2>2, SearchedFront, FramingAssumption
<1>4. rBuffer' \in Seq(Byte) /\ Len(rBuffer') = Len(rBuffer)
  <2>1. 1 \in 0..buffer_size /\ buffer_size \in 0..Len(rBuffer) /\ rBuffer \in Seq(Byte)
    BY <1>2, <1>3, SearchedFront
  <2> QED
    BY <1>1, <2>1, ShiftedType
<1>5. buffer_size' \in 0..Len(rBuffer')
  BY <1>1, <1>3, <1>4
<1>6. RouterTypeOK'
  BY <1>1, <1>2, <1>4, <1>5 DEF RouterTypeOK
<1>7. FoundAreFrames'
  BY <1>1, <1>6 DEF RouterInv, FoundAreFrames
<1>8. Dropped' = Dropped + 1
  <2>1. Len(Taken) \in Nat /\ rPos \in Nat
    BY <1>2, TakenType DEF RouterTypeOK
  <2> QED
    BY <1>1, <2>1 DEF Dropped, Taken
<1>9. Dropped' \in Nat /\ Dropped' # 0
  BY <1>8 DEF RouterInv
<1> QED
  BY <1>7, <1>9 DEF RouterInv, StreamInBuffer

\* a packet that is taken out,
LEMMA RouterInvTakePacket ==
    ASSUME RouterInv, RouterTakePacket
    PROVE  RouterInv'
<1> DEFINE size == NextPacket(Searched)
           packet == SubSeq(rBuffer, 1, size)
           rest == SubSeq(rBuffer, size + 1, Len(rBuffer))
<1>1. /\ rState = "searching" /\ rState' = "polling" /\ size > 0
      /\ rFound' = Append(rFound, packet)
      /\ rBuffer' = SubSeq(Shifted(rBuffer, buffer_size, size), 1, Len(rBuffer) - size)
      /\ buffer_size' = 0 /\ rPos' = rPos + size
      /\ UNCHANGED <<rInput, rWire>>
  BY DEF RouterTakePacket
<1>2. RouterTypeOK
  BY DEF RouterInv, FoundAreFrames
<1>3. /\ rBuffer \in Seq(Byte) /\ rFound \in Seq(Seq(Byte)) /\ rPos \in Nat
      /\ rWire \in Seq(Byte) /\ rInput \in Seq(Byte) /\ Len(rBuffer) < RouterCapacity
  BY <1>2 DEF RouterTypeOK
<1>4. size \in 1..buffer_size /\ size \in 0..Len(rBuffer) /\ size \in 1..Len(rBuffer)
  <2>1. Searched \in Seq(Byte) /\ Len(Searched) = buffer_size
        /\ buffer_size \in 0..Len(rBuffer)
    BY <1>2, SearchedFront
  <2>2. size \in 1..Len(Searched)
    BY <1>1, <2>1, NextAlone
  <2> QED
    BY <2>1, <2>2
<1>5. /\ packet \in Seq(Byte) /\ Len(packet) = size /\ NextPacket(packet) = size
  <2>1. /\ Searched \in Seq(Byte) /\ Len(Searched) = buffer_size
        /\ rBuffer = Cat(Searched, SubSeq(rBuffer, buffer_size + 1, Len(rBuffer)))
        /\ SubSeq(rBuffer, buffer_size + 1, Len(rBuffer)) \in Seq(Byte)
    BY <1>2, SearchedFront
  <2>2. packet = SubSeq(Searched, 1, size)
    <3>1. size \in 1..Len(Searched) /\ 1 \in 1..Len(Searched)
      BY <1>4, <2>1
    <3> DEFINE t == SubSeq(rBuffer, buffer_size + 1, Len(rBuffer))
    <3>2. rBuffer = Searched \o t /\ t \in Seq(Byte)
      BY <2>1 DEF Cat
    <3> HIDE DEF t, size
    <3>3. SubSeq(Searched \o t, 1, size) = SubSeq(Searched, 1, size)
      BY <2>1, <3>1, <3>2, SubSeqOfConcat1
    <3> QED
      BY <3>2, <3>3
  <2> QED
    BY <1>1, <2>1, <2>2, NextAlone
<1>6. rBuffer' \in Seq(Byte) /\ Len(rBuffer') = Len(rBuffer) - size
  <2> DEFINE s == Shifted(rBuffer, buffer_size, size)
  <2>1. s \in Seq(Byte) /\ Len(s) = Len(rBuffer)
    BY <1>2, <1>3, <1>4, SearchedFront, ShiftedType
  <2>2. Len(rBuffer) - size \in 0..Len(rBuffer)
    BY <1>3, <1>4
  <2> HIDE DEF s
  <2>3. /\ SubSeq(s, 1, Len(rBuffer) - size) \in Seq(Byte)
        /\ Len(SubSeq(s, 1, Len(rBuffer) - size)) = Len(rBuffer) - size
    BY <2>1, <2>2, CatSplit
  <2> QED
    BY <1>1, <2>3 DEF s
<1>7. buffer_size = Len(rBuffer) => rBuffer' = rest
  BY <1>1, <1>3, <1>4, ShiftedRest
<1>8. /\ rest \in Seq(Byte) /\ rBuffer = Cat(packet, rest)
  BY <1>3, <1>4, CatSplit
<1> HIDE DEF size, packet, rest
<1>9. Taken' = Cat(Taken, packet) /\ Taken \in Seq(Byte)
  <2>1. FlattenSeq(Append(rFound, packet)) = FlattenSeq(rFound) \o packet
    BY <1>3, <1>5, FlattenAppend
  <2> QED
    BY <1>1, <1>2, <2>1, TakenType DEF Taken, Cat
<1>10. Dropped' = Dropped
  <2>1. Len(Taken') = Len(Taken) + size
    BY <1>5, <1>9, CatLength
  <2>2. Dropped' = (rPos + size) - (Len(Taken) + size)
    BY <1>1, <2>1 DEF Dropped, Taken
  <2>3. Dropped = rPos - Len(Taken) /\ Len(Taken) \in Nat /\ size \in Nat
    BY <1>2, <1>4, TakenType
  <2> QED
    BY <1>3, <2>2, <2>3
<1>11. RouterTypeOK'
  <2>1. rFound' \in Seq(Seq(Byte))
    <3> DEFINE B == Seq(Byte)
    <3>1. packet \in B /\ rFound \in Seq(B)
      BY <1>3, <1>5
    <3> HIDE DEF B
    <3>2. rFound' \in Seq(B)
      BY <1>1, <3>1, AppendProperties
    <3> QED
      BY <3>2 DEF B
  <2>2. Len(rBuffer') < RouterCapacity /\ Len(rBuffer') \in Nat /\ rPos' \in Nat
    BY <1>1, <1>3, <1>4, <1>6, RouterReceiveAssumption
  <2>3. 0 \in 0..Len(rBuffer')
    BY <2>2
  <2> QED
    BY <1>1, <1>3, <1>6, <2>1, <2>2, <2>3 DEF RouterTypeOK
<1>12. FoundAreFrames'
  <2>1. ASSUME NEW i \in DOMAIN rFound'
        PROVE  NextPacket(rFound'[i]) = Len(rFound'[i])
    <3> DEFINE B == Seq(Byte)
    <3>1. packet \in B /\ rFound \in Seq(B)
      BY <1>3, <1>5
    <3> HIDE DEF B
    <3>2. \/ i \in DOMAIN rFound /\ rFound'[i] = rFound[i]
          \/ rFound'[i] = packet
      BY <1>1, <3>1, AppendProperties
    <3> QED
      BY <1>5, <3>2 DEF RouterInv, FoundAreFrames
  <2> QED
    BY <1>11, <2>1 DEF FoundAreFrames
<1>13. StreamInBuffer'
  <2> SUFFICES ASSUME Dropped' = 0
               PROVE  rInput' = Cat(Taken', Cat(rBuffer', rWire'))
    BY <1>1 DEF StreamInBuffer
  <2>1. rInput = Cat(Taken, Cat(rBuffer, rWire)) /\ rBuffer' = rest
    BY <1>1, <1>7, <1>10 DEF RouterInv, StreamInBuffer
  <2>2. Cat(rBuffer, rWire) = Cat(packet, Cat(rest, rWire))
    BY <1>3, <1>5, <1>8, CatAssociative
  <2>3. Cat(rest, rWire) \in Seq(Byte)
    BY <1>3, <1>8, CatType
  <2>4. Cat(Taken, Cat(packet, Cat(rest, rWire))) = Cat(Cat(Taken, packet), Cat(rest, rWire))
    BY <1>5, <1>9, <2>3, CatAssociative
  <2> QED
    BY <1>1, <1>9, <2>1, <2>2, <2>4
<1> QED
  BY <1>10, <1>12, <1>13 DEF RouterInv

\* the end of a search,
LEMMA RouterInvNothingFound ==
    ASSUME RouterInv, NothingFound
    PROVE  RouterInv'
<1>1. /\ rState' = "polling" /\ rState = "searching" /\ buffer_size' = 0
      /\ UNCHANGED <<rInput, rWire, rBuffer, rPos, rFound>>
  BY DEF NothingFound
<1>2. RouterTypeOK'
  <2>1. Len(rBuffer) \in Nat
    BY DEF RouterInv, FoundAreFrames, RouterTypeOK
  <2> QED
    BY <1>1, <2>1 DEF RouterInv, FoundAreFrames, RouterTypeOK
<1>3. FoundAreFrames' /\ Dropped' = Dropped /\ Taken' = Taken
  BY <1>1, <1>2 DEF RouterInv, FoundAreFrames, Dropped, Taken
<1> QED
  BY <1>1, <1>3 DEF RouterInv, StreamInBuffer

\* and so by every step.
LEMMA RouterInvStep ==
    ASSUME RouterInv, [RouterNext]_routerVars
    PROVE  RouterInv'
<1>1. CASE UNCHANGED routerVars
  BY <1>1 DEF routerVars, RouterInv, FoundAreFrames, RouterTypeOK, Dropped, Taken, StreamInBuffer
<1> QED
  BY <1>1, RouterInvRead, RouterInvOverflow, RouterInvDesync, RouterInvTakePacket, RouterInvNothingFound DEF RouterNext

\* The search starts where the scan stands, as long as no byte was dropped,
LEMMA RestIsBuffer ==
    ASSUME RouterInv, Dropped = 0, rState = "searching"
    PROVE  /\ Scan!Rest = Cat(rBuffer, rWire)
           /\ Searched = rBuffer /\ rBuffer \in Seq(Byte) /\ rWire \in Seq(Byte)
<1>1. RouterTypeOK
  BY DEF RouterInv, FoundAreFrames
<1>2. /\ rInput = Cat(Taken, Cat(rBuffer, rWire)) /\ buffer_size = Len(rBuffer)
  BY DEF RouterInv, StreamInBuffer
<1>3. rBuffer \in Seq(Byte) /\ rWire \in Seq(Byte) /\ rPos \in Nat
  BY <1>1 DEF RouterTypeOK
<1>4. Taken \in Seq(Byte) /\ Len(Taken) \in Nat /\ rPos = Len(Taken)
  <2>1. Taken \in Seq(Byte) /\ Len(Taken) \in Nat /\ Dropped = rPos - Len(Taken)
    BY <1>1, TakenType
  <2> QED
    BY <1>3, <2>1
<1> DEFINE r == Cat(rBuffer, rWire)
           b == SubSeq(rInput, rPos + 1, Len(rInput))
           f == SubSeq(rInput, 1, rPos)
<1>5. r \in Seq(Byte)
  BY <1>3, CatType
<1>6. rInput \in Seq(Byte) /\ Len(rInput) = rPos + Len(r) /\ Len(r) \in Nat
  BY <1>2, <1>4, <1>5, CatType, CatLength
<1>7. f \in Seq(Byte) /\ Len(f) = rPos /\ b \in Seq(Byte) /\ rInput = Cat(f, b)
  <2>1. rPos \in 0..Len(rInput)
    BY <1>3, <1>6
  <2> QED
    BY <1>6, <2>1, CatSplit
<1> HIDE DEF r, b, f
<1>8. Cat(Taken, r) = Cat(f, b)
  BY <1>2, <1>7 DEF r
<1>9. Taken = f
  <2>1. \A i \in 1..rPos : Taken[i] = f[i]
    <3>1. \A i \in 1..rPos : Cat(Taken, r)[i] = Taken[i]
      BY <1>4, <1>5, CatElement
    <3>2. \A i \in 1..rPos : Cat(f, b)[i] = f[i]
      BY <1>7, CatElement
    <3> QED
      BY <1>8, <3>1, <3>2
  <2> QED
    BY <1>4, <1>7, <2>1, SeqEqual
<1>10. r = b
  BY <1>4, <1>5, <1>7, <1>8, <1>9, CatCancel
<1>11. Scan!Rest = r
  BY <1>10 DEF Scan!Rest, b
<1> QED
  BY <1>1, <1>2, <1>3, <1>11, SearchedFront DEF r

\* and then it finds what the scan finds.
LEMMA RouterStepScans ==
    ASSUME RouterInv, Dropped = 0, RouterNext
    PROVE  [Scan!SNext]_(Scan!scan)
<1>1. CASE RouterRead \/ Overflow \/ NothingFound
  BY <1>1 DEF RouterRead, Overflow, NothingFound, Scan!scan
<1>2. CASE RouterDesync \/ RouterTakePacket
  <2>1. rState = "searching" /\ NextPacket(Searched) # 0
    BY <1>2 DEF RouterDesync, RouterTakePacket
  <2>2. /\ Scan!Rest = Cat(rBuffer, rWire)
        /\ Searched = rBuffer /\ rBuffer \in Seq(Byte) /\ rWire \in Seq(Byte)
    BY <2>1, RestIsBuffer
  <2>3. NextPacket(Cat(rBuffer, rWire)) = NextPacket(rBuffer)
    BY <2>1, <2>2, NextExtends
  <2>4. Scan!NextPacket(Scan!Rest) = NextPacket(Scan!Rest)
    BY DEF Scan!NextPacket, NextPacket
  <2>5. Scan!NextPacket(Scan!Rest) = NextPacket(rBuffer)
    BY <2>2, <2>3, <2>4
  <2>6. CASE RouterDesync
    <3>1. NextPacket(rBuffer) < 0 /\ rPos' = rPos + 1 /\ UNCHANGED <<rInput, rFound>>
      BY <2>2, <2>6 DEF RouterDesync
    <3> QED
      BY <2>5, <3>1 DEF Scan!SNext, Scan!Skip
  <2>7. CASE RouterTakePacket
    <3> DEFINE size == NextPacket(rBuffer)
    <3>1. /\ size > 0 /\ rFound' = Append(rFound, SubSeq(rBuffer, 1, size))
          /\ rPos' = rPos + size /\ UNCHANGED rInput
      BY <2>2, <2>7 DEF RouterTakePacket
    <3>2. size \in 1..Len(rBuffer)
      BY <2>2, <3>1, NextAlone
    <3>3. Scan!NextPacket(Scan!Rest) = size
      BY <2>5
    <3> HIDE DEF size
    <3>4. SubSeq(Scan!Rest, 1, size) = SubSeq(rBuffer, 1, size)
      <4>1. 1 \in 1..Len(rBuffer)
        BY <2>2, <3>2
      <4>2. SubSeq(rBuffer \o rWire, 1, size) = SubSeq(rBuffer, 1, size)
        BY <2>2, <3>2, <4>1, SubSeqOfConcat1
      <4> QED
        BY <2>2, <4>2 DEF Cat
    <3> QED
      BY <3>1, <3>3, <3>4 DEF Scan!SNext, Scan!Take
  <2> QED
    BY <1>2, <2>6, <2>7
<1> QED
  BY <1>1, <1>2 DEF RouterNext

-----------------------------------------------------------------------------

(***************************************************************************)
(* handle_event hands on nothing but frames as long as their header says,  *)
(* with the magic and the version that gnw_parse_header asserts, for any   *)
(* bytes a client sends whose lengths do not wrap the sum at               *)
(* GraphNetwork.c:231, and whatever stale bytes a lost one leaves behind;  *)
(* and it never writes past the end of the local buffer.                   *)
(***************************************************************************)
THEOREM OnlyFramesAreFound ==
    RouterSpec => []FoundAreFrames
<1>1. RouterInit => RouterInv
  BY RouterInvInit
<1>2. RouterInv /\ [RouterNext]_routerVars => RouterInv'
  BY RouterInvStep
<1>3. RouterInv => FoundAreFrames
  BY DEF RouterInv
<1> QED
  BY <1>1, <1>2, <1>3, PTL DEF RouterSpec

(***************************************************************************)
(* As long as gnw_nextPacket has reported no error, handle_event hands on  *)
(* the packets of one scan over the stream, however reads cut it: one      *)
(* packet for one read, with the rest of the buffer kept, loses nothing.   *)
(***************************************************************************)
THEOREM PacketStreamsAreScanned ==
    RouterSpec => CleanStreamsAreScanned
<1>1. RouterInit => RouterInv
  BY RouterInvInit
<1>2. RouterInv /\ [RouterNext]_routerVars => RouterInv'
  BY RouterInvStep
<1>3. RouterInv /\ [RouterNext]_routerVars => [Dropped = 0 => Scan!SNext]_(Scan!scan)
  <2> SUFFICES ASSUME RouterInv, [RouterNext]_routerVars
               PROVE  [Dropped = 0 => Scan!SNext]_(Scan!scan)
    OBVIOUS
  <2>1. CASE RouterNext /\ Dropped = 0
    BY <2>1, RouterStepScans
  <2>2. CASE Dropped # 0
    BY <2>2
  <2>3. CASE UNCHANGED routerVars
    BY <2>3 DEF routerVars, Scan!scan
  <2> QED
    BY <2>1, <2>2, <2>3
<1> QED
  BY <1>1, <1>2, <1>3, PTL DEF RouterSpec, CleanStreamsAreScanned

=============================================================================
