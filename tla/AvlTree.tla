------------------------------ MODULE AvlTree ------------------------------
(***************************************************************************)
(* The algorithms of src/lib/avl.c, on a heap t of nodes:                  *)
(*   t.item     what avl_data points to, Null for a node that is free      *)
(*   t.link     avl_link[0..1] of every node                               *)
(*   t.balance  avl_balance of every node                                  *)
(* The root is link 0 of Anchor, as in the code, which casts the address   *)
(* of avl_root to a node.  The two mirror images that the code spells out  *)
(* are one here: side 0 is left and 1 is right.                            *)
(***************************************************************************)
EXTENDS Integers, Sequences, SequencesExt

CONSTANTS
    Null,
    Anchor,
    Node,            \* what the allocator gives out
    Compare(_, _)    \* below, at or above 0 for two addresses

Side == {0, 1}
Other(side) == 1 - side
Weight(side) == 2 * side - 1

EmptyTree ==
    [item |-> [n \in Node |-> Null],
     link |-> [n \in Node \cup {Anchor} |-> [s \in Side |-> Null]],
     balance |-> [n \in Node |-> 0]]

Root(t) == t.link[Anchor][0]

Allocated(t) == {n \in Node : t.item[n] # Null}

\* Where a search for an address turns at node p.
Turn(t, address, p) ==
    IF p # Anchor /\ Compare(address, t.item[p].address) > 0 THEN 1 ELSE 0

Matches(t, address, p) ==
    p # Anchor /\ Compare(address, t.item[p].address) = 0

\* The nodes from p down to the match, or to the node under which it would be.
RECURSIVE Descent(_, _, _)
Descent(t, address, p) ==
    LET next == t.link[p][Turn(t, address, p)]
    IN  IF Matches(t, address, p) \/ next = Null THEN <<p>>
        ELSE <<p>> \o Descent(t, address, next)

Path(t, address) == Descent(t, address, Anchor)

\* avl_find: the node of an address, or Null.
Find(t, address) ==
    LET p == Last(Path(t, address))
    IN  IF Matches(t, address, p) THEN p ELSE Null

-----------------------------------------------------------------------------
(* Rotations at y, whose side s is too heavy, under the link <<z, d>>.     *)

Single(t, z, d, y, s) ==
    LET x == t.link[y][s]
    IN  [t EXCEPT !.link[y][s] = t.link[x][Other(s)],
                  !.link[x][Other(s)] = y,
                  !.link[z][d] = x,
                  !.balance[x] = IF t.balance[x] = 0 THEN -Weight(s) ELSE 0,
                  !.balance[y] = IF t.balance[x] = 0 THEN Weight(s) ELSE 0]

\* Mutant: the balances are set as if the inner node had been level.
DoubleLevel(t, z, d, y, s) ==
    LET x == t.link[y][s]
        w == t.link[x][Other(s)]
    IN  [t EXCEPT !.link[x][Other(s)] = t.link[w][s],
                  !.link[w][s] = x,
                  !.link[y][s] = t.link[w][Other(s)],
                  !.link[w][Other(s)] = y,
                  !.link[z][d] = w,
                  !.balance[x] = 0,
                  !.balance[y] = 0,
                  !.balance[w] = 0]

Double(t, z, d, y, s) ==
    LET x == t.link[y][s]
        w == t.link[x][Other(s)]
    IN  [t EXCEPT !.link[x][Other(s)] = t.link[w][s],
                  !.link[w][s] = x,
                  !.link[y][s] = t.link[w][Other(s)],
                  !.link[w][Other(s)] = y,
                  !.link[z][d] = w,
                  !.balance[x] = IF t.balance[w] = -Weight(s) THEN Weight(s) ELSE 0,
                  !.balance[y] = IF t.balance[w] = Weight(s) THEN -Weight(s) ELSE 0,
                  !.balance[w] = 0]

\* The link of z that leads to y.
LinkTo(t, z, y) == IF y # t.link[z][0] THEN 1 ELSE 0

-----------------------------------------------------------------------------
(* avl_probe                                                               *)

\* The node n for an item, under the last node of the path.
Attached(t, path, n, item) ==
    LET q == Last(path)
    IN  [t EXCEPT !.item[n] = item,
                  !.link[q][Turn(t, item.address, q)] = n]

\* The first node whose balance changes: the last that is not level, or the root.
TopIndex(t, path) ==
    Max({i \in 2..Len(path) : t.balance[path[i]] # 0} \cup {2})

\* The balances after a node has come in under the last node of the path.
Balances(t, path, address) ==
    LET changed == {path[i] : i \in TopIndex(t, path)..Len(path)}
    IN  [n \in Node |-> IF n \in changed
                        THEN t.balance[n] + Weight(Turn(t, address, n))
                        ELSE t.balance[n]]

\* Mutant: a rotation is not counted.
InsertedUncounted(t, n, item) ==
    LET path == Path(t, item.address)
        top == TopIndex(t, path)
        u == [Attached(t, path, n, item) EXCEPT
                 !.balance = Balances(t, path, item.address)]
        y == path[top]
        z == path[top - 1]
        s == IF u.balance[y] < 0 THEN 0 ELSE 1
        d == LinkTo(t, z, y)
    IN  IF Len(path) = 1 \/ u.balance[y] \notin {-2, 2}
        THEN [tree |-> u, rotated |-> FALSE]
        ELSE [tree |-> IF u.balance[u.link[y][s]] = Weight(s)
                       THEN Single(u, z, d, y, s) ELSE Double(u, z, d, y, s),
              rotated |-> FALSE]

\* The tree after avl_probe has put an item that was not there at n, and
\* whether it has rotated, in which case it counts the generation up.
Inserted(t, n, item) ==
    LET path == Path(t, item.address)
        top == TopIndex(t, path)
        u == [Attached(t, path, n, item) EXCEPT
                 !.balance = Balances(t, path, item.address)]
        y == path[top]
        z == path[top - 1]
        s == IF u.balance[y] < 0 THEN 0 ELSE 1
        d == LinkTo(t, z, y)
    IN  IF Len(path) = 1 \/ u.balance[y] \notin {-2, 2}
        THEN [tree |-> u, rotated |-> FALSE]
        ELSE [tree |-> IF u.balance[u.link[y][s]] = Weight(s)
                       THEN Single(u, z, d, y, s) ELSE Double(u, z, d, y, s),
              rotated |-> TRUE]

-----------------------------------------------------------------------------
(* avl_delete.  The stack holds the nodes whose side `side' has lost a     *)
(* level, or not: that is found out from the end.                          *)

On(node, side) == [node |-> node, side |-> side]

\* The nodes from p down along one side.
RECURSIVE Chain(_, _, _)
Chain(t, p, side) ==
    IF t.link[p][side] = Null THEN <<p>>
    ELSE <<p>> \o Chain(t, t.link[p][side], side)

Freed(t, n) ==
    [t EXCEPT !.item[n] = Null, !.balance[n] = 0, !.link[n] = [s \in Side |-> Null]]

\* Mutant: the right child takes the place even if it has a left child of its own.
SplicedByRight(t, p, above) ==
    LET parent == Last(above)
        r == t.link[p][1]
    IN  IF r = Null
        THEN [tree |-> [t EXCEPT !.link[parent.node][parent.side] = t.link[p][0]],
              stack |-> above]
        ELSE [tree |-> [t EXCEPT !.link[r][0] = t.link[p][0],
                                 !.balance[r] = t.balance[p],
                                 !.link[parent.node][parent.side] = r],
              stack |-> Append(above, On(r, 1))]

\* The node p leaves; what stands in for it takes its links and its balance.
Spliced(t, p, above) ==
    LET parent == Last(above)
        r == t.link[p][1]
        chain == Chain(t, r, 0)
        s == Last(chain)
        last == chain[Len(chain) - 1]
        onStack == [i \in 1..(Len(chain) - 1) |-> On(chain[i], 0)]
    IN  IF r = Null
        THEN [tree |-> [t EXCEPT !.link[parent.node][parent.side] = t.link[p][0]],
              stack |-> above]
        ELSE IF t.link[r][0] = Null
        THEN [tree |-> [t EXCEPT !.link[r][0] = t.link[p][0],
                                 !.balance[r] = t.balance[p],
                                 !.link[parent.node][parent.side] = r],
              stack |-> Append(above, On(r, 1))]
        ELSE [tree |-> [t EXCEPT !.link[s] = [d \in Side |-> t.link[p][d]],
                                 !.link[last][0] = t.link[s][1],
                                 !.balance[s] = t.balance[p],
                                 !.link[parent.node][parent.side] = s],
              stack |-> Append(above, On(s, 1)) \o onStack]

\* The loop over the stack: it stops where the height has not changed.
RECURSIVE Rebalanced(_, _)
Rebalanced(t, stack) ==
    LET y == Last(stack).node
        s == Other(Last(stack).side)    \* the side that is now heavier
        below == Front(stack)
        parent == Last(below)
        u == [t EXCEPT !.balance[y] = @ + Weight(s)]
        x == u.link[y][s]
    IN  IF Len(stack) = 1 THEN t
        ELSE IF u.balance[y] = Weight(s) THEN u
        ELSE IF u.balance[y] = 0 THEN Rebalanced(u, below)
        ELSE IF u.balance[x] = -Weight(s)
        THEN Rebalanced(Double(u, parent.node, parent.side, y, s), below)
        ELSE LET v == Single(u, parent.node, parent.side, y, s)
             IN  IF u.balance[x] = 0 THEN v ELSE Rebalanced(v, below)

\* The tree after avl_delete has taken out the node p that it found.
Deleted(t, p) ==
    LET path == Path(t, t.item[p].address)
        above == [i \in 1..(Len(path) - 1) |->
                     On(path[i], Turn(t, t.item[p].address, path[i]))]
        spliced == Spliced(t, p, above)
    IN  Freed(Rebalanced(spliced.tree, spliced.stack), p)

-----------------------------------------------------------------------------
(* What the algorithms keep.                                               *)

RECURSIVE InOrder(_, _), PreOrder(_, _), Height(_, _)
InOrder(t, p) ==
    IF p = Null THEN <<>>
    ELSE InOrder(t, t.link[p][0]) \o <<p>> \o InOrder(t, t.link[p][1])

\* table_walk_r.
PreOrder(t, p) ==
    IF p = Null THEN <<>>
    ELSE <<p>> \o PreOrder(t, t.link[p][0]) \o PreOrder(t, t.link[p][1])

Height(t, p) ==
    IF p = Null THEN 0
    ELSE 1 + Max({Height(t, t.link[p][s]) : s \in Side})

=============================================================================
