---------------------------- MODULE BoundedQueue ----------------------------
(***************************************************************************)
(* A queue of bytes with a bound.  A block is put in whole or not at all;  *)
(* bytes come out in the order they went in, each once; looking at them    *)
(* leaves them where they are.  A block that is longer than the room there *)
(* is must be refused, a shorter one must not; one of just this length may *)
(* be put in or refused.                                                   *)
(***************************************************************************)
EXTENDS Integers, Sequences

CONSTANTS
    Block,  \* the blocks of bytes that are written
    Room    \* how many bytes fit

VARIABLES
    queue,    \* the bytes in the buffer
    written,  \* the block that this step put in
    out       \* what this step's read or look copied out

queueVars == <<queue, written, out>>

Init ==
    /\ queue = <<>>
    /\ written = <<>>
    /\ out = <<>>

Put(block) ==
    /\ Len(queue) + Len(block) <= Room
    /\ queue' = queue \o block
    /\ written' = block
    /\ out' = <<>>

Refuse(block) ==
    /\ Len(queue) + Len(block) >= Room
    /\ written' = <<>>
    /\ out' = <<>>
    /\ UNCHANGED queue

Take(n) ==
    /\ out' = SubSeq(queue, 1, n)
    /\ queue' = SubSeq(queue, n + 1, Len(queue))
    /\ written' = <<>>

Look(n) ==
    /\ out' = SubSeq(queue, 1, n)
    /\ written' = <<>>
    /\ UNCHANGED queue

Next ==
    \/ \E block \in Block : Put(block) \/ Refuse(block)
    \/ \E n \in 0..Len(queue) : Take(n) \/ Look(n)

Spec == Init /\ [][Next]_queueVars

=============================================================================
