---------------------------- MODULE ForwardTable ----------------------------
(***************************************************************************)
(* src/ForwardTable.c: the edges of each source, in a list with a lock of  *)
(* its own, in an index table under forward_table_lock.  A call takes a    *)
(* step from one place where it may wait, or be seen, to the next.         *)
(*                                                                         *)
(* An entry goes by its source: there is never more than one.  Iterators   *)
(* look their entry up without forward_table_lock, while table_put and     *)
(* table_remove may be turning the tree.                                   *)
(***************************************************************************)
EXTENDS Integers, FiniteSets, Sequences, SequencesExt

CONSTANTS
    Thread,
    Origin,      \* the sources that threads use
    Target,
    Request,     \* the calls that threads make: records of where in this module
                 \* they begin, of a source and of a target
    Beginning,   \* the lists that there are when the threads begin
    Calls        \* bound: calls that each thread makes

Nobody == "nobody"
Lost == "lost"       \* holds the lock of a list whose holder has returned

ASSUME ForwardAssumption ==
    /\ {Nobody, Lost} \cap Thread = {}
    /\ Request \subseteq [at : {"add", "remove edge", "remove", "iterate"},
                           source : Origin, target : Target]
    /\ Beginning \subseteq [Origin -> Seq(Target)]

VARIABLES
    entries,      \* the sources in forward_table
    edgeList,     \* the targets of each source, in the order of its list
    listLock,
    table_lock,
    turning,      \* table_put or table_remove is at work on the tree
    call,         \* what each thread does, and where it is
    calls,        \* calls begun
    broken        \* history: what has gone wrong so far

forwardVars ==
    <<entries, edgeList, listLock, table_lock, turning, call, calls, broken>>

\* After these the program has no behaviour to speak of.
Fatal == {"null pointer", "freed in use"}

NoCall == [at |-> "idle", source |-> Nobody, target |-> Nobody]

At(t, where) ==
    /\ broken \cap Fatal = {}
    /\ call[t].at = where
Goes(t, where) == call' = [call EXCEPT ![t].at = where]
Returns(t) == call' = [call EXCEPT ![t] = NoCall]
Own(t) == call[t].source

TakesTable(t) == table_lock = Nobody /\ table_lock' = t
LeavesTable == table_lock' = Nobody
ListIsFree(s) == listLock[s] = Nobody

\* A lookup without the lock may miss an entry that a rotation moves.
Misses(s) == s \notin entries \/ (turning /\ Cardinality(entries) > 2)

Begin(t) == \E request \in Request :
    /\ At(t, "idle") /\ calls[t] < Calls
    /\ call' = [call EXCEPT ![t] = request]
    /\ calls' = [calls EXCEPT ![t] = @ + 1]
    /\ UNCHANGED <<entries, edgeList, listLock, table_lock, turning, broken>>

-----------------------------------------------------------------------------
(* forward_table_add_edge                                                  *)

\* The entry that is not there is made and put.
AddFinds(t) ==
    /\ At(t, "add")
    /\ TakesTable(t)
    /\ IF Own(t) \in entries THEN Goes(t, "prepend") /\ UNCHANGED <<entries, turning>>
       ELSE /\ entries' = entries \cup {Own(t)}
            /\ turning' = TRUE
            /\ Goes(t, "put")
    /\ UNCHANGED <<edgeList, listLock, calls, broken>>

AddHasPut(t) ==
    /\ At(t, "put")
    /\ turning' = FALSE
    /\ Goes(t, "prepend")
    /\ UNCHANGED <<entries, edgeList, listLock, table_lock, calls, broken>>

\* prepend_edge.
Prepend(t) ==
    /\ At(t, "prepend")
    /\ ListIsFree(Own(t))
    /\ edgeList' = [edgeList EXCEPT ![Own(t)] = <<call[t].target>> \o @]
    /\ LeavesTable
    /\ Returns(t)
    /\ UNCHANGED <<entries, listLock, turning, calls, broken>>

-----------------------------------------------------------------------------
(* forward_table_remove_edge                                               *)

\* find_edge_to reads the list without its lock.
Edge(s, d) == SelectInSeq(edgeList[s], LAMBDA e : e = d)

FindEdge(t) ==
    LET there == Own(t) \in entries /\ Edge(Own(t), call[t].target) > 0 IN
    /\ At(t, "remove edge")
    /\ IF there THEN TakesTable(t) ELSE table_lock = Nobody /\ UNCHANGED table_lock
    /\ IF there THEN Goes(t, "unlink") ELSE Returns(t)
    /\ UNCHANGED <<entries, edgeList, listLock, turning, calls, broken>>

\* Mutant: forward_table_lock is let go before the entry is pruned.
UnlinkLeavesTable(t) ==
    /\ At(t, "unlink")
    /\ ListIsFree(Own(t))
    /\ edgeList' = [edgeList EXCEPT ![Own(t)] =
                      RemoveAt(@, Edge(Own(t), call[t].target))]
    /\ LeavesTable
    /\ Goes(t, "seal")
    /\ UNCHANGED <<entries, listLock, turning, calls, broken>>

\* remove_edge.
Unlink(t) ==
    /\ At(t, "unlink")
    /\ ListIsFree(Own(t))
    /\ edgeList' = [edgeList EXCEPT ![Own(t)] =
                      RemoveAt(@, Edge(Own(t), call[t].target))]
    /\ Goes(t, "seal")
    /\ UNCHANGED <<entries, listLock, table_lock, turning, calls, broken>>

\* The list is locked for good, although its entry lives on if it has edges.
Seal(t) ==
    /\ At(t, "seal")
    /\ ListIsFree(Own(t))
    /\ IF edgeList[Own(t)] = <<>>
       THEN /\ entries' = entries \ {Own(t)}
            /\ turning' = TRUE
            /\ listLock' = [listLock EXCEPT ![Own(t)] = t]
            /\ Goes(t, "free")
            /\ UNCHANGED <<table_lock, broken>>
       ELSE /\ listLock' = [listLock EXCEPT ![Own(t)] = Lost]
            /\ broken' = broken \cup {"left locked"}
            /\ LeavesTable
            /\ Returns(t)
            /\ UNCHANGED <<entries, turning>>
    /\ UNCHANGED <<edgeList, calls>>

\* Those that have looked the entry up, and not let go of it.
Users(s) == {u \in Thread : call[u].at \in {"wait", "iterating"} /\ Own(u) = s}

FreeEntry(t) ==
    /\ At(t, "free")
    /\ turning' = FALSE
    /\ broken' = IF Users(Own(t)) = {} THEN broken ELSE broken \cup {"freed in use"}
    /\ listLock' = [listLock EXCEPT ![Own(t)] = Nobody]
    /\ LeavesTable
    /\ Returns(t)
    /\ UNCHANGED <<entries, edgeList, calls>>

-----------------------------------------------------------------------------
(* forward_table_remove                                                    *)

RemoveFinds(t) ==
    /\ At(t, "remove")
    /\ TakesTable(t)
    /\ broken' = IF Own(t) \in entries THEN broken ELSE broken \cup {"null pointer"}
    /\ Goes(t, "empty")
    /\ UNCHANGED <<entries, edgeList, listLock, turning, calls>>

\* remove_edge locks the list that is locked already, and waits for itself.
RemoveEdges(t) ==
    /\ At(t, "empty")
    /\ ListIsFree(Own(t))
    /\ edgeList[Own(t)] # <<>>
    /\ listLock' = [listLock EXCEPT ![Own(t)] = t]
    /\ broken' = broken \cup {"waits for itself"}
    /\ Goes(t, "stuck")
    /\ UNCHANGED <<entries, edgeList, table_lock, turning, calls>>

-----------------------------------------------------------------------------
(* forward_table_get_iterator and forward_table_release_iterator           *)

GetFinds(t) ==
    /\ At(t, "iterate")
    /\ \/ Misses(Own(t)) /\ Returns(t)
       \/ Own(t) \in entries /\ Goes(t, "wait")
    /\ UNCHANGED <<entries, edgeList, listLock, table_lock, turning, calls, broken>>

GetLocks(t) ==
    /\ At(t, "wait")
    /\ ListIsFree(Own(t))
    /\ listLock' = [listLock EXCEPT ![Own(t)] = t]
    /\ Goes(t, "iterating")
    /\ UNCHANGED <<entries, edgeList, table_lock, turning, calls, broken>>

Release(t) ==
    /\ At(t, "iterating")
    /\ \/ /\ Own(t) \in entries
          /\ listLock' = [listLock EXCEPT ![Own(t)] = Nobody]
          /\ UNCHANGED broken
       \/ /\ Misses(Own(t))
          /\ listLock' = [listLock EXCEPT ![Own(t)] = Lost]
          /\ broken' = broken \cup {"release missed"}
    /\ Returns(t)
    /\ UNCHANGED <<entries, edgeList, table_lock, turning, calls>>

-----------------------------------------------------------------------------

ForwardInit ==
    /\ edgeList \in Beginning
    /\ entries = {s \in Origin : edgeList[s] # <<>>}
    /\ listLock = [s \in Origin |-> Nobody]
    /\ table_lock = Nobody
    /\ turning = FALSE
    /\ call = [t \in Thread |-> NoCall]
    /\ calls = [t \in Thread |-> 0]
    /\ broken = {}

Proceeds(t) ==
    \/ AddFinds(t) \/ AddHasPut(t) \/ Prepend(t)
    \/ FindEdge(t) \/ Unlink(t) \/ Seal(t) \/ FreeEntry(t)
    \/ RemoveFinds(t) \/ RemoveEdges(t)
    \/ GetFinds(t) \/ GetLocks(t) \/ Release(t)

ForwardNext == \E t \in Thread : Begin(t) \/ Proceeds(t)

\* A thread that need not wait goes on, and so lets go of its iterator.
ForwardFairness == \A t \in Thread : WF_forwardVars(Proceeds(t))

ForwardSpec == ForwardInit /\ [][ForwardNext]_forwardVars /\ ForwardFairness

-----------------------------------------------------------------------------
(* What the table promises.                                                *)

(***************************************************************************)
(* Nobody finds an entry without edges under forward_table_lock: adding    *)
(* and pruning are done before it is let go.  So forward_table_remove      *)
(* always finds an edge to remove, and never returns.                      *)
(***************************************************************************)
EntriesHaveEdges ==
    broken \cap Fatal = {} =>
        /\ table_lock = Nobody => \A s \in Origin : s \in entries <=> edgeList[s] # <<>>
        /\ \A t \in Thread : call[t].at = "empty" => edgeList[Own(t)] # <<>>

(***************************************************************************)
(* Calls return, however they wait for locks, since nobody keeps one but   *)
(* of an entry that it kills: "Never unlock, we're killing this entry"     *)
(* (ForwardTable.c:143, 162).  A step through a null pointer, or on memory *)
(* that is free, ends what can be said.                                    *)
(***************************************************************************)
CallsReturn ==
    \A t \in Thread :
        call[t].at # "idle" ~> (call[t].at = "idle" \/ broken \cap Fatal # {})

=============================================================================
