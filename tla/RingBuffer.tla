----------------------------- MODULE RingBuffer -----------------------------
(***************************************************************************)
(* The ring buffer of src/lib/RingBuffer.c, shared by a thread that writes *)
(* and a thread that reads (and cleans up).  Pointers are offsets from     *)
(* root->start.                                                            *)
(*                                                                         *)
(* What runs under the semaphore is a step; ringbuffer_read is two, since  *)
(* the tail is beyond the end of the buffer in between, where              *)
(* ringbuffer_length, which takes no lock, can see it.  The build has no   *)
(* optimisation, so each line of ringbuffer_length loads the indices       *)
(* again: a line is a step.  (Only one of the two indices can move while a *)
(* thread runs it.)                                                        *)
(***************************************************************************)
EXTENDS Integers, Sequences

CONSTANTS
    RingByte,
    Size,     \* root->capacity
    Word,     \* SIZE_MAX + 1: a size_t is a number modulo Word
    Block     \* the blocks that the writer writes

ASSUME RingAssumption ==
    /\ RingByte # {}
    /\ Size \in Nat /\ Size > 2
    /\ Word \in Nat /\ Word > 2 * Size
    /\ Block \subseteq Seq(RingByte)

Caller == {"writer", "reader"}

VARIABLES
    ring,      \* the bytes from root->start to root->end
    head,      \* where the next byte is written
    tail,      \* where the next byte is read
    lock,      \* the thread inside a section of two steps, "free", or "gone"
               \* when the buffer has been destroyed
    line,      \* the line of ringbuffer_length that a thread is at, 0: none
    estimate,  \* what length or capacity last told a thread that has done
               \* nothing about it since
    written,   \* the block that this step's ringbuffer_write took and returned the
               \* length of (<<>>: it returned 0)
    out        \* what this step's ringbuffer_read or _peek_copy copied out

ringVars == <<ring, head, tail, lock, line, estimate, written, out>>

SizeT(n) == n % Word

\* Where an index stands in the ring, also while it is beyond the end.
Place(index) == IF index < Size THEN index ELSE index - Size

\* ringbuffer_length, as one expression.
Filled(h, t) == IF h >= t THEN h - t ELSE (Size - t) + h

Length == Filled(head, Place(tail))

\* The bytes that have been written and not read.
Queue == [i \in 1..Length |-> ring[Place(Place(tail) + i - 1)]]

RingInit ==
    /\ ring \in [0..(Size - 1) -> RingByte]    \* malloc
    /\ head = 0
    /\ tail = 0
    /\ lock = "free"
    /\ line = [t \in Caller |-> 0]
    /\ estimate = [t \in Caller |-> 0]
    /\ written = <<>>
    /\ out = <<>>

\* A thread that is not inside a call starts one that takes the semaphore.
Enters(thread) == lock = "free" /\ line[thread] = 0

\* What a thread was told is used up, or worth nothing, once it has acted.
Forget(thread) == estimate' = [estimate EXCEPT ![thread] = 0]

Silent == written' = <<>> /\ out' = <<>>

-----------------------------------------------------------------------------
(* ringbuffer_write                                                        *)

CopyWhole(block) ==
    /\ Len(block) < Size - head
    /\ ring' = [i \in 0..(Size - 1) |->
                  IF i \in head..(head + Len(block) - 1)
                  THEN block[i - head + 1] ELSE ring[i]]
    /\ head' = head + Len(block)

\* Mutant: the second part overwrites from where the first one did.
CopySplitAtHead(block) == LET rspace == Size - head IN
    /\ Len(block) >= rspace
    /\ ring' = [i \in 0..(Size - 1) |->
                  IF i >= head THEN block[i - head + 1]
                  ELSE IF i < Len(block) - rspace THEN block[i + 1]
                  ELSE ring[i]]
    /\ head' = Len(block) - rspace

CopySplit(block) == LET rspace == Size - head IN
    /\ Len(block) >= rspace
    /\ ring' = [i \in 0..(Size - 1) |->
                  IF i >= head THEN block[i - head + 1]
                  ELSE IF i < Len(block) - rspace THEN block[rspace + i + 1]
                  ELSE ring[i]]
    /\ head' = Len(block) - rspace

Space == Size - Length - 1

Write(block) ==
    /\ Enters("writer")
    /\ Space > Len(block)
    /\ CopyWhole(block) \/ CopySplit(block)
    /\ written' = block
    /\ out' = <<>>
    /\ Forget("writer")
    /\ UNCHANGED <<tail, lock, line>>

Refuse(block) ==
    /\ Enters("writer")
    /\ Space <= Len(block)
    /\ Silent
    /\ Forget("writer")
    /\ UNCHANGED <<ring, head, tail, lock, line>>

-----------------------------------------------------------------------------
(* ringbuffer_read, ringbuffer_peek_copy.  A wish beyond the length is cut *)
(* down to it, so n is what is copied.                                     *)

\* What the one or two calls of memcpy bring together.
Copied(n) == [i \in 1..n |->
                 ring[IF i <= Size - tail THEN tail + i - 1
                                          ELSE i - 1 - (Size - tail)]]

\* A read of nothing returns before it touches the tail.
ReadNothing ==
    /\ Enters("reader")
    /\ Silent
    /\ Forget("reader")
    /\ UNCHANGED <<ring, head, tail, lock, line>>

ReadMoves(n) ==
    /\ Enters("reader")
    /\ n > 0
    /\ out' = Copied(n)
    /\ tail' = tail + n
    /\ lock' = "reader"
    /\ written' = <<>>
    /\ Forget("reader")
    /\ UNCHANGED <<ring, head, line>>

ReadWraps ==
    /\ lock = "reader"
    /\ tail' = IF tail >= Size THEN tail - Size ELSE tail
    /\ lock' = "free"
    /\ Silent
    /\ UNCHANGED <<ring, head, line, estimate>>

PeekCopy(n) ==
    /\ Enters("reader")
    /\ out' = Copied(n)
    /\ written' = <<>>
    /\ UNCHANGED <<ring, head, tail, lock, line, estimate>>

-----------------------------------------------------------------------------
(* ringbuffer_length and ringbuffer_capacity, outside the semaphore: the   *)
(* reader asks how much there is, the writer how much there is room for.   *)

Answer(thread, length) ==
    /\ estimate' = [estimate EXCEPT ![thread] =
                      SizeT(IF thread = "writer" THEN Size - length - 1 ELSE length)]
    /\ line' = [line EXCEPT ![thread] = 0]
    /\ Silent
    /\ UNCHANGED <<ring, head, tail, lock>>

GoTo(thread, next) ==
    /\ line' = [line EXCEPT ![thread] = next]
    /\ Silent
    /\ UNCHANGED <<ring, head, tail, lock, estimate>>

Line104(thread) ==
    /\ lock \notin {thread, "gone"} /\ line[thread] = 0
    /\ IF head = tail THEN Answer(thread, 0) ELSE GoTo(thread, 107)

Line107(thread) ==
    /\ line[thread] = 107
    /\ GoTo(thread, IF head > tail THEN 108 ELSE 109)

Line108(thread) ==
    /\ line[thread] = 108
    /\ Answer(thread, head - tail)

\* Mutant: the end of the buffer is taken for a byte of it.
Line109Inclusive(thread) ==
    /\ line[thread] = 109
    /\ Answer(thread, (Size - tail) + 1 + head)

Line109(thread) ==
    /\ line[thread] = 109
    /\ Answer(thread, (Size - tail) + head)

\* ringbuffer_destroy, with bytes in the buffer or without.  It frees what the
\* others work on: its caller must see to it that nobody is inside a call.
DestroyRing ==
    /\ \A thread \in Caller : Enters(thread)
    /\ lock' = "gone"
    /\ Silent
    /\ UNCHANGED <<ring, head, tail, line, estimate>>

-----------------------------------------------------------------------------

RingNext ==
    \/ \E block \in Block : Write(block) \/ Refuse(block)
    \/ ReadNothing
    \/ \E n \in 0..Length : ReadMoves(n) \/ PeekCopy(n)
    \/ ReadWraps
    \/ \E thread \in Caller :
          Line104(thread) \/ Line107(thread) \/ Line108(thread) \/ Line109(thread)
    \/ DestroyRing

RingSpec == RingInit /\ [][RingNext]_ringVars

-----------------------------------------------------------------------------
(* What the buffer promises.                                               *)

(***************************************************************************)
(* Types; the head stands inside the ring whenever it can be seen, and the *)
(* tail does but for the moment in which a read wraps it.                  *)
(***************************************************************************)
RingTypeOK ==
    /\ ring \in [0..(Size - 1) -> RingByte]
    /\ head \in 0..(Size - 1)
    /\ tail \in 0..(2 * Size - 2)
    /\ lock \in {"free", "reader", "gone"}
    /\ lock # "reader" => tail < Size
    /\ line \in [Caller -> {0, 107, 108, 109}]
    /\ estimate \in [Caller -> Nat]
    /\ written \in Seq(RingByte)
    /\ out \in Seq(RingByte)

(***************************************************************************)
(* The ring is a bounded queue: whole blocks or nothing, first in first    *)
(* out, no byte lost at the seam - with room for one byte less than it was *)
(* made with.  ringbuffer_write refuses a block that would leave no room   *)
(* at all; the queue leaves that block open, since RingBuffer.h says that  *)
(* it fits (64, 116-117).                                                  *)
(***************************************************************************)
Q == INSTANCE BoundedQueue WITH queue <- Queue, Room <- Size - 1
ImplementsQueue == Q!Spec

(***************************************************************************)
(* A length or a capacity that was computed while the other thread moved   *)
(* its index may be stale on the safe side only (what the reader was told  *)
(* is there, what the writer was told is free, is) - or it is a number     *)
(* that went below zero and so beyond any size.  Never one in between,     *)
(* which the caller would believe.                                         *)
(***************************************************************************)
EstimatesAreSafe ==
    /\ estimate["reader"] <= Length \/ estimate["reader"] >= Word - Size
    /\ estimate["writer"] <= Space \/ estimate["writer"] >= Word - Size

=============================================================================
