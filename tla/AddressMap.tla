----------------------------- MODULE AddressMap -----------------------------
(***************************************************************************)
(* What a table of addresses promises, however it is built: a map from the *)
(* addresses that were put and not removed to their data.                  *)
(***************************************************************************)
EXTENDS Integers, FiniteSets

CONSTANTS Address, Data, Null

VARIABLES
    map,      \* the data of every address that is held
    answer,   \* what this step's operation returned
    visited   \* the addresses that this step's walk went through, in order

mapVars == <<map, answer, visited>>

Held == DOMAIN map

At(a) == IF a \in Held THEN map[a] ELSE Null

Init ==
    /\ map = <<>>
    /\ answer = Null
    /\ visited = <<>>

\* Whether an address that is held keeps its data or gets the new ones is open,
\* and the caller is not told.
Put(a, d) ==
    /\ answer' = d
    /\ \E stays \in {d, At(a)} \ {Null} :
          map' = [b \in Held \cup {a} |-> IF b = a THEN stays ELSE map[b]]
    /\ visited' = <<>>

\* The caller gets what was there.
Overwrite(a, d) ==
    /\ answer' = At(a)
    /\ map' = [b \in Held \cup {a} |-> IF b = a THEN d ELSE map[b]]
    /\ visited' = <<>>

Remove(a) ==
    /\ answer' = At(a)
    /\ map' = [b \in Held \ {a} |-> map[b]]
    /\ visited' = <<>>

Find(a) ==
    /\ answer' = At(a)
    /\ visited' = <<>>
    /\ UNCHANGED map

\* Every address that is held, once, in an order of the table's own.
Walk ==
    /\ DOMAIN visited' = 1..Cardinality(Held)
    /\ {visited'[i] : i \in DOMAIN visited'} = Held
    /\ answer' = Null
    /\ UNCHANGED map

Clear ==
    /\ answer' = Null
    /\ map' = <<>>
    /\ visited' = <<>>

\* What the callers cannot see.
Idle ==
    /\ answer' = Null
    /\ visited' = <<>>
    /\ UNCHANGED map

Next ==
    \/ Idle
    \/ Walk
    \/ Clear
    \/ \E a \in Address : Find(a) \/ Remove(a)
    \/ \E a \in Address, d \in Data : Put(a, d) \/ Overwrite(a, d)

Spec == Init /\ [][Next]_mapVars

=============================================================================
