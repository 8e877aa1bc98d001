---------------------------- MODULE IndexTable ----------------------------
(***************************************************************************)
(* The tables of src/IndexTable.c and src/NodeTable.c on the tree of       *)
(* src/lib/avl.c, with a traverser that goes through a table while it      *)
(* changes.  What runs under node_table_mutex is a step, and so is a       *)
(* lookup, which takes no lock: its comment asks callers not to change the *)
(* table meanwhile.                                                        *)
(***************************************************************************)
EXTENDS Integers, Sequences, SequencesExt

CONSTANTS
    Null,
    Anchor,
    Entry,     \* what is put: records of an address and its data
    Wrap,      \* UINT32_MAX + 1, and twice the range of an int on either side
    Ranges,    \* sets of addresses; the callers of a table keep to one
    Copies     \* how often the same address may be in the tree

Address == {e.address : e \in Entry}
Data == {e.data : e \in Entry}

ASSUME IndexAssumption ==
    /\ Wrap \in Nat /\ Wrap % 2 = 0
    /\ Address \subseteq 0..(Wrap - 1)
    /\ Ranges \subseteq SUBSET Address
    /\ Null \notin Data

\* The difference of two unsigned numbers as an int.
compareAddress32(a, b) ==
    LET difference == (a - b) % Wrap
    IN  IF difference < Wrap \div 2 THEN difference ELSE difference - Wrap

\* A node goes by the address put into it, and by how many of that there were.
Node == Address \X (1..Copies)

INSTANCE AvlTree WITH Compare <- compareAddress32

VARIABLES
    range,     \* the addresses that the callers of the table use
    tree,
    count,     \* avl_count
    trav,      \* the traverser: avl_node, avl_stack up to avl_height, and
               \* whether avl_generation is another than the tree's; the stack
               \* is not read then, and is left empty here
    phase,     \* "live", "freeing" while avl_destroy runs, "gone"
    top,       \* p of avl_destroy
    answer,
    visited

indexVars == <<range, tree, count, trav, phase, top, answer, visited>>

Entries == {e \in Entry : e.address \in range}

NoTraverser == [node |-> Null, stack |-> <<>>, stale |-> FALSE]
Outdated(v) == [v EXCEPT !.stack = <<>>, !.stale = TRUE]

\* Addresses that compareAddress32 puts in an order, and not in a circle.
LinearRanges ==
    {r \in Ranges : \A a, b, c \in r :
        compareAddress32(a, b) < 0 /\ compareAddress32(b, c) < 0
            => compareAddress32(a, c) < 0}

Linear == range \in LinearRanges

IndexInit ==
    /\ range \in Ranges
    /\ tree = EmptyTree
    /\ count = 0
    /\ trav = NoTraverser
    /\ phase = "live"
    /\ top = Null
    /\ answer = Null
    /\ visited = <<>>

DataAt(n) == IF n = Null THEN Null ELSE tree.item[n].data

Answers(a) == answer' = a /\ visited' = <<>>

\* The allocator: the first name of that address that is free.
NewNode(a) ==
    CHOOSE n \in Node : /\ n[1] = a /\ tree.item[n] = Null
                        /\ \A k \in 1..(n[2] - 1) : tree.item[<<a, k>>] # Null

-----------------------------------------------------------------------------
(* IndexTable.c and NodeTable.c                                            *)

\* The bound on the same address in a tree, which only a circle can reach.
Fits(entry) == Find(tree, entry.address) # Null \/ tree.item[<<entry.address, Copies>>] = Null

\* avl_probe has not found the item of this entry.
Insert(entry) ==
    LET in == Inserted(tree, NewNode(entry.address), entry)
    IN  /\ tree' = in.tree
        /\ count' = count + 1
        /\ trav' = IF in.rotated THEN Outdated(trav) ELSE trav

\* table_put, node_table_add: data of an address that is there stay, the caller
\* gets its own back, and the entry made for them is lost.
Put(entry) ==
    /\ IF Find(tree, entry.address) = Null THEN Insert(entry)
       ELSE UNCHANGED <<tree, count, trav>>
    /\ Answers(entry.data)

\* avl_replace.
Replace(entry) ==
    LET n == Find(tree, entry.address) IN
    /\ IF n = Null THEN Insert(entry)
       ELSE tree' = [tree EXCEPT !.item[n] = entry] /\ UNCHANGED <<count, trav>>
    /\ Answers(DataAt(n))

\* table_remove, node_table_remove; not under a traverser.
Delete(a) ==
    LET n == Find(tree, a) IN
    /\ n = Null \/ n # trav.node
    /\ IF n = Null THEN UNCHANGED <<tree, count, trav>>
       ELSE /\ tree' = Deleted(tree, n)
            /\ count' = count - 1
            /\ trav' = Outdated(trav)
    /\ Answers(DataAt(n))

\* table_find, node_table_find.
Search(a) ==
    /\ Answers(DataAt(Find(tree, a)))
    /\ UNCHANGED <<tree, count, trav>>

\* table_walk, node_table_walk: in the order of the tree from its root.
Walk ==
    LET nodes == PreOrder(tree, Root(tree)) IN
    /\ visited' = [i \in DOMAIN nodes |-> tree.item[nodes[i]].address]
    /\ answer' = Null
    /\ UNCHANGED <<tree, count, trav>>

-----------------------------------------------------------------------------
(* The traverser.  It returns the item of the node that it comes to stand  *)
(* on.                                                                     *)

\* avl_t_first and avl_t_last: down one side from the root.
EndOf(side) ==
    IF Root(tree) = Null THEN NoTraverser
    ELSE LET chain == Chain(tree, Root(tree), side)
         IN  [node |-> Last(chain), stack |-> Front(chain), stale |-> FALSE]

\* avl_t_find; the nodes passed are its stack.
FindFrom(a) ==
    LET path == Tail(Path(tree, a))
    IN  IF Find(tree, a) = Null THEN NoTraverser
        ELSE [node |-> Last(path), stack |-> Front(path), stale |-> FALSE]

\* trav_refresh.
Refreshed(v) ==
    IF v.stale /\ v.node # Null THEN FindFrom(tree.item[v.node].address)
    ELSE [v EXCEPT !.stale = FALSE]

\* Up the stack, as long as the node left is on the side gone to.
RECURSIVE UpFrom(_, _, _)
UpFrom(node, stack, side) ==
    IF stack = <<>> THEN NoTraverser
    ELSE LET x == Last(stack) IN
         IF tree.link[x][side] = node THEN UpFrom(x, Front(stack), side)
         ELSE [node |-> x, stack |-> Front(stack), stale |-> FALSE]

\* avl_t_next goes to side 1, avl_t_prev to side 0; both begin anew from an end.
Advanced(side) ==
    LET v == Refreshed(trav)
        x == v.node
        chain == Chain(tree, tree.link[x][side], Other(side))
    IN  IF x = Null THEN EndOf(Other(side))
        ELSE IF tree.link[x][side] = Null THEN UpFrom(x, v.stack, side)
        ELSE [node |-> Last(chain), stack |-> v.stack \o <<x>> \o Front(chain),
              stale |-> FALSE]

\* trav_refresh follows null links in a tree whose addresses go in a circle.
Traverse(v) ==
    /\ Linear
    /\ trav' = v
    /\ Answers(Null)
    /\ UNCHANGED <<tree, count>>

TInit == Traverse(NoTraverser)
TEnd(side) == Traverse(EndOf(side))
TFind(a) == Traverse(FindFrom(a))
TAdvance(side) == Traverse(Advanced(side))

\* avl_t_insert: the stack is not known, and the generation is one behind.
TInsert(entry) ==
    LET n == Find(tree, entry.address)
        in == Inserted(tree, NewNode(entry.address), entry)
        at(m) == [node |-> m, stack |-> <<>>, stale |-> TRUE]
    IN  /\ Linear
        /\ IF n = Null
           THEN /\ tree' = in.tree
                /\ count' = count + 1
                /\ trav' = at(NewNode(entry.address))
           ELSE trav' = at(n) /\ UNCHANGED <<tree, count>>
        /\ Answers(IF n = Null THEN entry.data ELSE DataAt(n))

\* avl_t_replace, with an item of the same address.
TReplace(entry) ==
    /\ trav.node # Null
    /\ tree.item[trav.node].address = entry.address
    /\ tree' = [tree EXCEPT !.item[trav.node] = entry]
    /\ Answers(DataAt(trav.node))
    /\ UNCHANGED <<count, trav>>

-----------------------------------------------------------------------------
(* avl_destroy, which turns the tree into a list as it goes.               *)

Destroy ==
    /\ phase = "live"
    /\ phase' = "freeing"
    /\ top' = Root(tree)
    /\ trav' = NoTraverser
    /\ Answers(Null)
    /\ UNCHANGED <<range, tree, count>>

FreeTop ==
    /\ phase = "freeing" /\ top # Null
    /\ tree.link[top][0] = Null
    /\ tree' = Freed(tree, top)
    /\ top' = tree.link[top][1]
    /\ Answers(Null)
    /\ UNCHANGED <<range, count, trav, phase>>

TurnTop ==
    LET q == tree.link[top][0] IN
    /\ phase = "freeing" /\ top # Null
    /\ q # Null
    /\ tree' = [tree EXCEPT !.link[top][0] = tree.link[q][1], !.link[q][1] = top]
    /\ top' = q
    /\ Answers(Null)
    /\ UNCHANGED <<range, count, trav, phase>>

Destroyed ==
    /\ phase = "freeing" /\ top = Null
    /\ phase' = "gone"
    /\ Answers(Null)
    /\ UNCHANGED <<range, tree, count, trav, top>>

-----------------------------------------------------------------------------

TableStep ==
    \/ \E e \in Entries :
          \/ Fits(e) /\ (Put(e) \/ Replace(e) \/ TInsert(e))
          \/ TReplace(e)
    \/ \E a \in range : Delete(a) \/ Search(a) \/ TFind(a)
    \/ \E side \in Side : TEnd(side) \/ TAdvance(side)
    \/ TInit
    \/ Walk

IndexNext ==
    \/ phase = "live" /\ TableStep /\ UNCHANGED <<range, phase, top>>
    \/ Destroy
    \/ FreeTop
    \/ TurnTop
    \/ Destroyed

IndexSpec == IndexInit /\ [][IndexNext]_indexVars

-----------------------------------------------------------------------------
(* What the tables promise.                                                *)

Whole == InOrder(tree, IF phase = "live" THEN Root(tree) ELSE top)

(***************************************************************************)
(* Types: balances stay within a level between calls, and links and the    *)
(* traverser lead to nodes that are allocated.                             *)
(***************************************************************************)
IndexTypeOK ==
    /\ tree.balance \in [Node -> -1..1]
    /\ \A n \in Allocated(tree) : tree.item[n] \in Entries
    /\ \A n \in Node \cup {Anchor}, s \in Side :
          phase = "live" => tree.link[n][s] \in Allocated(tree) \cup {Null}
    /\ trav.node \in Allocated(tree) \cup {Null}
    /\ \A i \in DOMAIN trav.stack : trav.stack[i] \in Allocated(tree)

(***************************************************************************)
(* Every node that is allocated hangs in the tree exactly once, and is     *)
(* counted: through every rotation and splice, for any comparison, and     *)
(* while avl_destroy takes the tree apart, until nothing is left.          *)
(***************************************************************************)
NoNodeLost ==
    /\ IsInjective(Whole)
    /\ Range(Whole) = Allocated(tree)
    /\ phase = "live" => count = Len(Whole)

(***************************************************************************)
(* Balances are the difference of the heights, whatever was put and        *)
(* removed in which order: searches stay short.                            *)
(***************************************************************************)
BalancesAreHeights ==
    phase = "live" => \A n \in Allocated(tree) :
        tree.balance[n] = Height(tree, tree.link[n][1]) - Height(tree, tree.link[n][0])

(***************************************************************************)
(* Addresses that compareAddress32 puts in an order stand in that order,   *)
(* also while the tree is destroyed, which frees it from the first on.     *)
(***************************************************************************)
InSearchOrder ==
    Linear => \A i, j \in DOMAIN Whole :
        i < j => compareAddress32(tree.item[Whole[i]].address,
                                  tree.item[Whole[j]].address) < 0

\* All of this together.
SoundTree == IndexTypeOK /\ NoNodeLost /\ BalancesAreHeights /\ InSearchOrder

\* The node beside the traverser's, in the round of all nodes and none.
Neighbour(side) ==
    LET round == <<Null>> \o Whole
        at == CHOOSE i \in DOMAIN round : round[i] = trav.node
    IN  round[1 + ((at - 1 + Weight(side)) % Len(round))]

(***************************************************************************)
(* A traverser goes on to the neighbour of its address among those that    *)
(* are held now, and from the ends to no node and back, whatever was put   *)
(* or removed since it stopped there: avl_generation says whether to trust *)
(* the stack.                                                              *)
(***************************************************************************)
TraverserGoesOn ==
    [][\A side \in Side :
          phase = "live" /\ TAdvance(side) => trav'.node = Neighbour(side)]_indexVars

(***************************************************************************)
(* While the addresses in use have an order, a table is a map: whatever    *)
(* was put and removed, and however the tree has turned, what is held is   *)
(* found, removed and walked through, and nothing else is.  What a put     *)
(* makes of an address that is held is left open, since node_table_add     *)
(* (NodeTable.c:36) says that it overwrites, and the tree keeps what it    *)
(* has.  LookupsFindHeld is about the addresses that have no order.        *)
(***************************************************************************)
Map ==
    LET nodes == IF phase = "live" THEN Allocated(tree) ELSE {}
        node(a) == CHOOSE n \in nodes : tree.item[n].address = a
    IN  [a \in {tree.item[n].address : n \in nodes} |-> tree.item[node(a)].data]

M == INSTANCE AddressMap WITH map <- Map

ImplementsMap ==
    /\ Linear => M!Init
    /\ [][Linear => M!Next]_(M!mapVars)

(***************************************************************************)
(* avl_find returns an item that is in the tree, whatever the addresses:   *)
(* "Search |tree| for an item matching |item|, and return it if found."    *)
(* (lib/avl.c:63-64)                                                       *)
(***************************************************************************)
LookupsFindHeld ==
    phase = "live" =>
        \A n \in Allocated(tree) : Find(tree, tree.item[n].address) # Null

=============================================================================
