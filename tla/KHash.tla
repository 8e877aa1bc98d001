------------------------------- MODULE KHash -------------------------------
(***************************************************************************)
(* The hash table of src/lib/klib/khash.h with integer keys, in which      *)
(* GraphRouter keeps address_table and local_buffer: open addressing with  *)
(* triangular steps, deletion by mark, and a resize that rehashes in place *)
(* by kicking entries out, one move a step.  Flags and buckets are one: at *)
(* is defined on the buckets that are neither empty nor deleted.           *)
(***************************************************************************)
EXTENDS Integers, FiniteSets, FiniteSetsExt, Sequences

CONSTANTS
    Nothing,   \* found where there is no value
    Key,       \* keys; each is its own hash
    Pair,      \* what is put: records of a key and a value
    Sizes      \* what callers of kh_resize ask for

ASSUME KHashAssumption ==
    /\ Key \subseteq Nat
    /\ Sizes \subseteq Nat
    /\ \A pair \in Pair : pair.key \in Key

VARIABLES
    hash,      \* n_buckets, the pair at each live bucket, the deleted buckets,
               \* size, n_occupied and upper_bound, as the last call left them
    move,      \* the resize under way: new_n_buckets, the buckets that new_flags
               \* and the old flags have as used, keys and vals, and the pair in hand
    awaiting,  \* the pair that kh_put puts after it, if any
    grown,     \* history: all that was done so far is to put keys not held
    result,    \* the value that this step's call found
    keys       \* the keys that this step's kh_foreach went through

hashVars == <<hash, move, awaiting, grown, result, keys>>

PowerOfTwo(n) == \A d, q \in 1..n : (n = d * q /\ d % 2 = 1) => d = 1

\* kroundup32, and the least size of a table.
Buckets(n) == Min({p \in 4..(2 * n + 4) : p >= n /\ PowerOfTwo(p)})

\* n * 0.77 + 0.5, cut off.
UpperBound(n) == (77 * n + 50) \div 100

NewTable ==
    [n |-> 0, at |-> <<>>, deleted |-> {}, size |-> 0, occupied |-> 0, upper |-> 0]

NoMove == [n |-> 0, used |-> {}, old |-> {}, at |-> <<>>, hand |-> {}]
Moving == move.n > 0
Idle == ~Moving /\ awaiting = {}

Live(h) == DOMAIN h.at
Empty(h, i) == i \notin Live(h) \cup h.deleted

\* The bucket of a key after so many steps; twice around, it is back for good.
Probe(n, key, step) == (key + (step * (step + 1)) \div 2) % n
Steps(n) == 0..(2 * n - 2)

\* Where probing for a key ends: at the key, or at an empty bucket.
Stops(h, key) ==
    {s \in Steps(h.n) : LET i == Probe(h.n, key, s) IN
        Empty(h, i) \/ (i \in Live(h) /\ h.at[i].key = key)}

\* kh_get: a live bucket, or kh_end.
GetBucket(h, key) ==
    IF Stops(h, key) = {} THEN h.n
    ELSE LET i == Probe(h.n, key, Min(Stops(h, key)))
         IN  IF i \in Live(h) THEN i ELSE h.n

Stored(at, i, pair) == [j \in DOMAIN at \cup {i} |-> IF j = i THEN pair ELSE at[j]]

Finds(v) == result' = v /\ keys' = <<>>

ValueAt(h, i) == IF i \in Live(h) THEN h.at[i].value ELSE Nothing

-----------------------------------------------------------------------------
(* kh_resize                                                               *)

\* A size that is too small for what is held changes nothing.
Resizing(asked) ==
    LET n == Buckets(asked)
    IN  move' = IF hash.size >= UpperBound(n) THEN NoMove
                ELSE [n |-> n, used |-> {}, old |-> Live(hash), at |-> hash.at,
                      hand |-> {}]

\* The buckets of the old table in turn, those kicked out before left aside.
TakeOut ==
    LET j == Min(move.old) IN
    /\ Moving
    /\ move.hand = {} /\ move.old # {}
    /\ move' = [move EXCEPT !.old = @ \ {j}, !.hand = {move.at[j]}]
    /\ UNCHANGED <<hash, awaiting, grown, result, keys>>

\* The bucket for a key by the new flags, in which none is deleted.
NewBucket(key) ==
    Probe(move.n, key, Min({s \in Steps(move.n) : Probe(move.n, key, s) \notin move.used}))

\* Mutant: a pair that is kicked out is left where it is.
PutInNoKick == \E pair \in move.hand :
    LET i == NewBucket(pair.key) IN
    /\ Moving
    /\ move' = [move EXCEPT !.used = @ \cup {i}, !.old = @ \ {i},
                            !.at = Stored(@, i, pair), !.hand = {}]
    /\ UNCHANGED <<hash, awaiting, grown, result, keys>>

\* The pair in hand goes to its place; one of the old table that is there is
\* kicked out, and is in hand next.
PutIn == \E pair \in move.hand :
    LET i == NewBucket(pair.key) IN
    /\ Moving
    /\ move' = [move EXCEPT !.used = @ \cup {i}, !.old = @ \ {i},
                            !.at = Stored(@, i, pair),
                            !.hand = IF i \in move.old THEN {move.at[i]} ELSE {}]
    /\ UNCHANGED <<hash, awaiting, grown, result, keys>>

Resized ==
    /\ Moving
    /\ move.hand = {} /\ move.old = {}
    /\ hash' = [n |-> move.n, at |-> [i \in move.used |-> move.at[i]], deleted |-> {},
                size |-> hash.size, occupied |-> hash.size, upper |-> UpperBound(move.n)]
    /\ move' = NoMove
    /\ UNCHANGED <<awaiting, grown, result, keys>>

kh_resize(asked) ==
    /\ Idle
    /\ Resizing(asked)
    /\ Finds(Nothing)
    /\ grown' = FALSE
    /\ UNCHANGED <<hash, awaiting>>

-----------------------------------------------------------------------------
(* kh_put                                                                  *)

\* Mutant: deleted buckets are not counted.
FullOfLive(h) == h.size >= h.upper

Full(h) == h.occupied >= h.upper

\* The bucket for a key: the one it has, or the last deleted one passed on the
\* way to an empty one, or that.
PutBucket(h, key) ==
    LET end == Min(Stops(h, key))
        i == Probe(h.n, key, end)
        passed == {s \in 0..(end - 1) : Probe(h.n, key, s) \in h.deleted}
    IN  IF Empty(h, i) /\ passed # {} THEN Probe(h.n, key, Max(passed)) ELSE i

\* The pair comes into its bucket; kh_value is set by the caller, which may look
\* at the old one first.
PairEnters(pair) ==
    LET i == PutBucket(hash, pair.key) IN
    /\ hash' = [hash EXCEPT !.at = Stored(@, i, pair),
                            !.deleted = @ \ {i},
                            !.size = @ + (IF i \in Live(hash) THEN 0 ELSE 1),
                            !.occupied = @ + (IF Empty(hash, i) THEN 1 ELSE 0)]
    /\ Finds(ValueAt(hash, i))
    /\ grown' = (grown /\ i \notin Live(hash))

\* In a table that is full, room is made first: with few entries among many marks
\* it is rehashed at its size.
kh_put(pair) ==
    /\ Idle
    /\ IF Full(hash)
       THEN /\ Resizing(IF hash.n > 2 * hash.size THEN hash.n - 1 ELSE hash.n + 1)
            /\ awaiting' = {pair}
            /\ UNCHANGED <<hash, grown, result, keys>>
       ELSE PairEnters(pair) /\ UNCHANGED <<move, awaiting>>

PutGoesOn == \E pair \in awaiting :
    /\ ~Moving
    /\ PairEnters(pair)
    /\ awaiting' = {}
    /\ UNCHANGED move

\* One of the allocations of a resize fails: status -1, and kh_end.
PutFails ==
    /\ Idle
    /\ Full(hash)
    /\ Finds(Nothing)
    /\ UNCHANGED <<hash, move, awaiting, grown>>

-----------------------------------------------------------------------------

kh_get(key) ==
    /\ Idle
    /\ Finds(ValueAt(hash, GetBucket(hash, key)))
    /\ UNCHANGED <<hash, move, awaiting, grown>>

\* kh_del of what kh_get returned.
kh_del(key) ==
    LET i == GetBucket(hash, key) IN
    /\ Idle
    /\ hash' = IF i = hash.n THEN hash
               ELSE [hash EXCEPT !.at = [j \in Live(hash) \ {i} |-> @[j]],
                                 !.deleted = @ \cup {i},
                                 !.size = @ - 1]
    /\ Finds(ValueAt(hash, i))
    /\ grown' = FALSE
    /\ UNCHANGED <<move, awaiting>>

kh_clear ==
    /\ Idle
    /\ hash' = [hash EXCEPT !.at = <<>>, !.deleted = {}, !.size = 0, !.occupied = 0]
    /\ Finds(Nothing)
    /\ grown' = FALSE
    /\ UNCHANGED <<move, awaiting>>

\* Bucket after bucket.
kh_foreach ==
    LET buckets == CHOOSE q \in [1..Cardinality(Live(hash)) -> Live(hash)] :
                       \A i, j \in DOMAIN q : i < j => q[i] < q[j]
    IN  /\ Idle
        /\ keys' = [k \in DOMAIN buckets |-> hash.at[buckets[k]].key]
        /\ result' = Nothing
        /\ UNCHANGED <<hash, move, awaiting, grown>>

HashInit ==
    /\ hash = NewTable
    /\ move = NoMove
    /\ awaiting = {}
    /\ grown = TRUE
    /\ result = Nothing
    /\ keys = <<>>

HashNext ==
    \/ \E pair \in Pair : kh_put(pair)
    \/ PutGoesOn
    \/ PutFails
    \/ \E key \in Key : kh_get(key) \/ kh_del(key)
    \/ \E asked \in Sizes : kh_resize(asked)
    \/ TakeOut
    \/ PutIn
    \/ Resized
    \/ kh_clear
    \/ kh_foreach

HashSpec == HashInit /\ [][HashNext]_hashVars

-----------------------------------------------------------------------------
(* What the table promises.                                                *)

(***************************************************************************)
(* The counts are those of the buckets, and there is always an empty one:  *)
(* every probe ends, the one of kh_resize, which looks for nothing else,   *)
(* included.                                                               *)
(***************************************************************************)
ProbesEnd ==
    /\ Live(hash) \cup hash.deleted \subseteq 0..(hash.n - 1)
    /\ hash.size = Cardinality(Live(hash))
    /\ hash.occupied = hash.size + Cardinality(hash.deleted)
    /\ hash.upper = UpperBound(hash.n)
    /\ hash.occupied <= hash.upper
    /\ hash.n > 0 => hash.upper < hash.n
    /\ \A pair \in move.hand :
          \E s \in Steps(move.n) : Probe(move.n, pair.key, s) \notin move.used

(***************************************************************************)
(* As long as only new keys are put, the size of a table follows from what *)
(* it holds: up to six entries there is one word of flags.  The packet     *)
(* handler, which reads flags beyond the end, puts no other keys, and its  *)
(* model in module Router rests on this.                                   *)
(***************************************************************************)
SizeFollowsEntries ==
    (grown /\ hash.size > 0 /\ Idle) =>
        /\ PowerOfTwo(hash.n) /\ UpperBound(hash.n) >= hash.size
        /\ \A n \in 4..(hash.n - 1) : PowerOfTwo(n) => UpperBound(n) < hash.size

\* Both together.
SoundHash == ProbesEnd /\ SizeFollowsEntries

(***************************************************************************)
(* The table is a map: whatever collides, is marked deleted, passed over,  *)
(* taken again or moved by a resize, and a put that fails changes nothing. *)
(***************************************************************************)
HashMap ==
    LET bucket(k) == CHOOSE i \in Live(hash) : hash.at[i].key = k
    IN  [k \in {hash.at[i].key : i \in Live(hash)} |-> hash.at[bucket(k)].value]

HM == INSTANCE AddressMap WITH
        Address <- Key, Data <- {p.value : p \in Pair}, Null <- Nothing,
        map <- HashMap, answer <- result, visited <- keys

HashImplementsMap == HM!Spec

=============================================================================
