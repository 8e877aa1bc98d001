---------------------------- MODULE TableProofs -----------------------------
(***************************************************************************)
(* Proofs about two of the tables: the forward table, for all threads,     *)
(* sources, targets and calls, and the hash table, for all keys, pairs and *)
(* sizes.                                                                  *)
(***************************************************************************)
EXTENDS ForwardTable, KHash, StreamLemmas

-----------------------------------------------------------------------------
(* The forward table: the invariant.                                       *)

\* Where a thread is with forward_table_lock locked,
Holding == {"put", "prepend", "unlink", "seal", "free", "empty", "stuck"}
\* of these, where its entry may be without edges,
HalfDone == {"put", "prepend", "seal"}
\* and all others.
Aside == {"idle", "add", "remove edge", "remove", "iterate", "wait", "iterating"}

AnyCall == [at : Holding \cup Aside, source : Origin \cup {Nobody},
            target : Target \cup {Nobody}]

ForwardTypes ==
    /\ entries \in SUBSET Origin
    /\ edgeList \in [Origin -> Seq(Target)]
    /\ table_lock \in Thread \cup {Nobody}
    /\ call \in [Thread -> AnyCall]
    /\ \A t \in Thread : call[t].at # "idle" =>
          call[t].source \in Origin /\ call[t].target \in Target

\* forward_table_lock is held by the thread that is between its lock and unlock.
TableIsHeld == \A t \in Thread : call[t].at \in Holding <=> table_lock = t

\* Until it is pruned, the entry that such a thread has found or put is there.
HoldersHaveEntries ==
    \A t \in Thread : call[t].at \in HalfDone \cup {"unlink"} => Own(t) \in entries

\* Only the entry of a call that is half done may be without edges.
OthersHaveEdges ==
    \A s \in Origin :
        \/ s \in entries <=> edgeList[s] # <<>>
        \/ \E t \in Thread : call[t].at \in HalfDone /\ Own(t) = s

RemovesFromSome ==
    broken \cap Fatal = {} =>
        \A t \in Thread : call[t].at = "empty" => edgeList[Own(t)] # <<>>

TableInv ==
    /\ ForwardTypes /\ TableIsHeld /\ HoldersHaveEntries /\ OthersHaveEdges
    /\ RemovesFromSome

\* It is what is promised.
LEMMA InvMeans == TableInv => EntriesHaveEdges
<1> SUFFICES ASSUME TableInv, broken \cap Fatal = {}
             PROVE  /\ table_lock = Nobody =>
                          \A s \in Origin : s \in entries <=> edgeList[s] # <<>>
                    /\ \A t \in Thread : call[t].at = "empty" => edgeList[Own(t)] # <<>>
  BY DEF EntriesHaveEdges
<1>1. ASSUME table_lock = Nobody, NEW s \in Origin
      PROVE  s \in entries <=> edgeList[s] # <<>>
  <2>1. \A t \in Thread : call[t].at \notin HalfDone
    BY <1>1, ForwardAssumption DEF TableInv, TableIsHeld, Holding, HalfDone
  <2> QED
    BY <2>1 DEF TableInv, OthersHaveEdges
<1> QED
  BY <1>1 DEF TableInv, RemovesFromSome

-----------------------------------------------------------------------------
(* The forward table: what steps have in common.                           *)

\* One thread moves on, and the others stay where they are.
LEMMA GoesFacts ==
    ASSUME ForwardTypes, NEW t \in Thread, call[t].at # "idle",
           NEW where \in Holding \cup Aside, Goes(t, where)
    PROVE  /\ call'[t].at = where /\ Own(t)' = Own(t)
           /\ call'[t].target = call[t].target
           /\ \A u \in Thread : u # t => call'[u] = call[u]
           /\ call' \in [Thread -> AnyCall]
           /\ \A u \in Thread : call'[u].at # "idle" =>
                 call'[u].source \in Origin /\ call'[u].target \in Target
<1>1. call \in [Thread -> AnyCall] /\ call[t] \in AnyCall
  BY DEF ForwardTypes
<1>2. call' = [call EXCEPT ![t] = [call[t] EXCEPT !.at = where]]
  BY DEF Goes
<1> DEFINE c == [call[t] EXCEPT !.at = where]
<1>3. /\ c \in AnyCall /\ c.at = where /\ c.source = call[t].source
      /\ c.target = call[t].target
  BY <1>1 DEF AnyCall
<1> HIDE DEF c
<1>4. call' = [call EXCEPT ![t] = c]
  BY <1>2 DEF c
<1>5. /\ call' \in [Thread -> AnyCall] /\ call'[t] = c
      /\ \A u \in Thread : u # t => call'[u] = call[u]
  <2> HIDE DEF AnyCall
  <2> QED
    BY <1>1, <1>3, <1>4
<1>6. call[t].source \in Origin /\ call[t].target \in Target
  BY DEF ForwardTypes
<1>7. ASSUME NEW u \in Thread, call'[u].at # "idle"
      PROVE  call'[u].source \in Origin /\ call'[u].target \in Target
  BY <1>3, <1>5, <1>6, <1>7 DEF ForwardTypes
<1> QED
  BY <1>3, <1>5, <1>7 DEF Own

\* A call that returns leaves nothing behind.
LEMMA ReturnsFacts ==
    ASSUME ForwardTypes, NEW t \in Thread, Returns(t)
    PROVE  /\ call'[t].at = "idle"
           /\ \A u \in Thread : u # t => call'[u] = call[u]
           /\ call' \in [Thread -> AnyCall]
           /\ \A u \in Thread : call'[u].at # "idle" =>
                 call'[u].source \in Origin /\ call'[u].target \in Target
<1>1. NoCall \in AnyCall /\ NoCall.at = "idle"
  BY DEF NoCall, AnyCall, Aside
<1>2. call' = [call EXCEPT ![t] = NoCall] /\ call \in [Thread -> AnyCall]
  BY DEF Returns, ForwardTypes
<1>3. /\ call' \in [Thread -> AnyCall] /\ call'[t] = NoCall
      /\ \A u \in Thread : u # t => call'[u] = call[u]
  <2> HIDE DEF AnyCall, NoCall
  <2> QED
    BY <1>1, <1>2
<1> QED
  BY <1>1, <1>3 DEF ForwardTypes

\* While a thread holds forward_table_lock, no other is at work.
LEMMA OneHolds ==
    ASSUME TableInv, NEW t \in Thread, call[t].at \in Holding
    PROVE  /\ table_lock = t
           /\ \A u \in Thread : u # t => call[u].at \notin Holding
BY DEF TableInv, TableIsHeld

\* While nobody holds it, every entry has edges.
LEMMA NobodyHolds ==
    ASSUME TableInv, table_lock = Nobody
    PROVE  /\ \A u \in Thread : call[u].at \notin Holding
           /\ \A s \in Origin : s \in entries <=> edgeList[s] # <<>>
<1>1. \A u \in Thread : call[u].at \notin Holding
  BY ForwardAssumption DEF TableInv, TableIsHeld
<1>2. \A u \in Thread : call[u].at \notin HalfDone
  BY <1>1 DEF Holding, HalfDone
<1> QED
  BY <1>1, <1>2 DEF TableInv, OthersHaveEdges

\* The edge that is looked for is in the list, or 0.
LEMMA EdgeRange ==
    ASSUME ForwardTypes, NEW s \in Origin, NEW d
    PROVE  Edge(s, d) \in 0..Len(edgeList[s])
<1> DEFINE l == edgeList[s]
           I == {i \in 1..Len(l) : l[i] = d}
<1>1. Edge(s, d) = IF I # {} THEN Min(I) ELSE 0
  BY DEF Edge, SelectInSeq
<1>2. l \in Seq(Target) /\ Len(l) \in Nat
  BY DEF ForwardTypes
<1>3. I \subseteq Nat /\ I \subseteq 1..Len(l)
  BY <1>2
<1> HIDE DEF I
<1>4. CASE I # {}
  <2>1. Min(I) \in I
    BY <1>3, <1>4, MinIsLeast
  <2>2. Min(I) \in 1..Len(l)
    BY <1>3, <2>1
  <2> QED
    BY <1>1, <1>2, <1>4, <2>2
<1>5. CASE I = {}
  BY <1>1, <1>2, <1>5
<1> QED
  BY <1>4, <1>5

\* What is left of a list is a list.
LEMMA RemoveAtType ==
    ASSUME NEW S, NEW l \in Seq(S), NEW i \in 0..Len(l)
    PROVE  RemoveAt(l, i) \in Seq(S)
<1>1. SubSeq(l, 1, i - 1) \in Seq(S) /\ SubSeq(l, i + 1, Len(l)) \in Seq(S)
  BY \A j \in 1..Len(l) : l[j] \in S
<1> QED
  BY <1>1 DEF RemoveAt

-----------------------------------------------------------------------------
(* The forward table: the steps.                                           *)

\* A step of a thread that leaves the table and forward_table_lock alone.
LEMMA StandsAside ==
    ASSUME TableInv, NEW t \in Thread, ForwardTypes',
           UNCHANGED <<entries, edgeList, table_lock>>, broken \subseteq broken',
           call[t].at \notin Holding, call'[t].at \notin Holding,
           \A u \in Thread : u # t => call'[u] = call[u]
    PROVE  TableInv'
<1>1. TableIsHeld'
  BY DEF TableInv, TableIsHeld
<1>2. HoldersHaveEntries'
  BY DEF TableInv, HoldersHaveEntries, Holding, HalfDone, Own
<1>3. OthersHaveEdges'
  <2> SUFFICES ASSUME NEW s \in Origin, ~(s \in entries <=> edgeList[s] # <<>>)
               PROVE  \E u \in Thread : call'[u].at \in HalfDone /\ Own(u)' = s
    BY DEF OthersHaveEdges
  <2>1. PICK u \in Thread : call[u].at \in HalfDone /\ Own(u) = s
    BY DEF TableInv, OthersHaveEdges
  <2>2. u # t
    BY <2>1 DEF Holding, HalfDone
  <2> QED
    BY <2>1, <2>2 DEF Own
<1>4. RemovesFromSome'
  <2>1. broken' \cap Fatal = {} => broken \cap Fatal = {}
    OBVIOUS
  <2>2. call'[t].at # "empty"
    BY DEF Holding
  <2> QED
    BY <2>1, <2>2 DEF TableInv, RemovesFromSome, Own
<1> QED
  BY <1>1, <1>2, <1>3, <1>4 DEF TableInv

\* A step of the thread that holds forward_table_lock, or takes it: nobody else
\* holds it, and other entries are as they were.
LEMMA HolderMoves ==
    ASSUME TableInv, NEW t \in Thread, ForwardTypes',
           \A u \in Thread : u # t => call[u].at \notin Holding /\ call'[u] = call[u],
           call'[t].at \in Holding <=> table_lock' = t,
           table_lock' \in {t, Nobody},
           NEW o \in Origin, call'[t].at # "idle" => Own(t)' = o,
           call[t].at \in Holding => Own(t) = o,
           \A s \in Origin : s # o =>
               (s \in entries' <=> s \in entries) /\ edgeList'[s] = edgeList[s],
           call'[t].at \in HalfDone \cup {"unlink"} => o \in entries',
           call'[t].at \notin HalfDone => (o \in entries' <=> edgeList'[o] # <<>>),
           broken' \cap Fatal = {} /\ call'[t].at = "empty" => edgeList'[o] # <<>>
    PROVE  TableInv'
<1>1. TableIsHeld'
  <2>1. \A u \in Thread : u # t => table_lock' # u
    BY ForwardAssumption
  <2> QED
    BY <2>1 DEF TableIsHeld
<1>2. HoldersHaveEntries'
  BY DEF HoldersHaveEntries, Holding, HalfDone
<1>3. OthersHaveEdges'
  <2> SUFFICES ASSUME NEW s \in Origin
               PROVE  \/ s \in entries' <=> edgeList'[s] # <<>>
                      \/ \E u \in Thread : call'[u].at \in HalfDone /\ Own(u)' = s
    BY DEF OthersHaveEdges
  <2>1. CASE s = o
    <3>1. call'[t].at \in HalfDone => call'[t].at # "idle"
      BY DEF HalfDone
    <3> QED
      BY <2>1, <3>1
  <2>2. CASE s # o
    <3>1. \A u \in Thread : call[u].at \in HalfDone => call[u].at \in Holding
      BY DEF HalfDone, Holding
    <3>2. s \in entries <=> edgeList[s] # <<>>
      BY <2>2, <3>1 DEF TableInv, OthersHaveEdges
    <3> QED
      BY <2>2, <3>2
  <2> QED
    BY <2>1, <2>2
<1>4. RemovesFromSome'
  BY DEF RemovesFromSome, Holding
<1> QED
  BY <1>1, <1>2, <1>3, <1>4 DEF TableInv

\* Every step is one of a thread whose call has a source and a target.
LEMMA CallFacts ==
    ASSUME TableInv, NEW t \in Thread, call[t].at # "idle"
    PROVE  /\ ForwardTypes
           /\ Own(t) \in Origin /\ call[t].target \in Target
           /\ edgeList[Own(t)] \in Seq(Target)
BY DEF TableInv, ForwardTypes, Own

\* A call begins with no lock.
LEMMA BeginKeeps ==
    ASSUME TableInv, NEW t \in Thread, Begin(t)
    PROVE  TableInv'
<1>1. PICK request \in Request : call' = [call EXCEPT ![t] = request]
  BY DEF Begin
<1>2. call[t].at = "idle" /\ UNCHANGED <<entries, edgeList, listLock, table_lock, turning, broken>>
  BY DEF Begin, At
<1>3. /\ request.at \in Aside /\ request.source \in Origin /\ request.target \in Target
      /\ request \in AnyCall
  <2>1. request \in [at : {"add", "remove edge", "remove", "iterate"},
                     source : Origin, target : Target]
    BY ForwardAssumption
  <2> QED
    BY <2>1 DEF AnyCall, Aside
<1>4. call \in [Thread -> AnyCall]
  BY DEF TableInv, ForwardTypes
<1>5. /\ call' \in [Thread -> AnyCall] /\ call'[t] = request
      /\ \A u \in Thread : u # t => call'[u] = call[u]
  <2> HIDE DEF AnyCall
  <2> QED
    BY <1>1, <1>3, <1>4
<1>6. ForwardTypes'
  BY <1>2, <1>3, <1>5 DEF TableInv, ForwardTypes, AnyCall
<1>7. call[t].at \notin Holding /\ call'[t].at \notin Holding
  BY <1>2, <1>3, <1>5 DEF Holding, Aside
<1> QED
  BY <1>2, <1>5, <1>6, <1>7, StandsAside

\* forward_table_get_iterator looks its entry up without forward_table_lock.
LEMMA GetFindsKeeps ==
    ASSUME TableInv, NEW t \in Thread, GetFinds(t)
    PROVE  TableInv'
<1>1. /\ call[t].at = "iterate"
      /\ UNCHANGED <<entries, edgeList, listLock, table_lock, turning, calls, broken>>
  BY DEF GetFinds, At
<1>2. call[t].at \notin Holding /\ call[t].at # "idle" /\ "wait" \in Holding \cup Aside
  BY <1>1 DEF Holding, Aside
<1>3. ForwardTypes
  BY DEF TableInv
<1>4. CASE Returns(t)
  <2>1. ForwardTypes'
    BY <1>1, <1>3, <1>4, ReturnsFacts DEF ForwardTypes, AnyCall
  <2>2. call'[t].at \notin Holding
    BY <1>3, <1>4, ReturnsFacts DEF Holding
  <2> QED
    BY <1>1, <1>2, <1>3, <1>4, <2>1, <2>2, ReturnsFacts, StandsAside
<1>5. CASE Goes(t, "wait")
  <2>1. ForwardTypes'
    BY <1>1, <1>2, <1>3, <1>5, GoesFacts DEF ForwardTypes, AnyCall
  <2>2. call'[t].at \notin Holding
    BY <1>2, <1>3, <1>5, GoesFacts DEF Holding
  <2> QED
    BY <1>1, <1>2, <1>3, <1>5, <2>1, <2>2, GoesFacts, StandsAside
<1> QED
  BY <1>4, <1>5 DEF GetFinds

\* Then it waits for the lock of the list,
LEMMA GetLocksKeeps ==
    ASSUME TableInv, NEW t \in Thread, GetLocks(t)
    PROVE  TableInv'
<1>1. /\ call[t].at = "wait" /\ Goes(t, "iterating")
      /\ UNCHANGED <<entries, edgeList, table_lock, turning, calls, broken>>
  BY DEF GetLocks, At
<1>2. /\ call[t].at \notin Holding /\ call[t].at # "idle"
      /\ "iterating" \in Holding \cup Aside
  BY <1>1 DEF Holding, Aside
<1>3. ForwardTypes
  BY DEF TableInv
<1>4. ForwardTypes'
  BY <1>1, <1>2, <1>3, GoesFacts DEF ForwardTypes, AnyCall
<1>5. call'[t].at \notin Holding
  BY <1>1, <1>2, <1>3, GoesFacts DEF Holding
<1> QED
  BY <1>1, <1>2, <1>3, <1>4, <1>5, GoesFacts, StandsAside

\* which forward_table_release_iterator lets go, if it finds the entry.
LEMMA ReleaseKeeps ==
    ASSUME TableInv, NEW t \in Thread, Release(t)
    PROVE  TableInv'
<1>1. /\ call[t].at = "iterating" /\ Returns(t) /\ broken \subseteq broken'
      /\ UNCHANGED <<entries, edgeList, table_lock, turning, calls>>
  BY DEF Release, At
<1>2. ForwardTypes /\ call[t].at \notin Holding
  BY <1>1 DEF TableInv, Holding
<1>3. ForwardTypes'
  BY <1>1, <1>2, ReturnsFacts DEF ForwardTypes, AnyCall
<1>4. call'[t].at \notin Holding
  BY <1>1, <1>2, ReturnsFacts DEF Holding
<1> QED
  BY <1>1, <1>2, <1>3, <1>4, ReturnsFacts, StandsAside

\* forward_table_add_edge: an entry that is not there is put, before its edge.
LEMMA AddFindsKeeps ==
    ASSUME TableInv, NEW t \in Thread, AddFinds(t)
    PROVE  TableInv'
<1> DEFINE o == Own(t)
           where == IF o \in entries THEN "prepend" ELSE "put"
<1>1. /\ call[t].at = "add" /\ table_lock = Nobody /\ table_lock' = t
      /\ Goes(t, where) /\ entries' = entries \cup {o}
      /\ UNCHANGED <<edgeList, listLock, calls, broken>>
  BY DEF AddFinds, At, TakesTable
<1>2. ForwardTypes /\ o \in Origin /\ call[t].at # "idle"
  BY <1>1, CallFacts
<1>3. where \in HalfDone /\ where \in Holding /\ where \in Holding \cup Aside
  BY DEF HalfDone, Holding
<1>4. call'[t].at = where /\ Own(t)' = o /\ \A u \in Thread : u # t => call'[u] = call[u]
  <2> HIDE DEF where
  <2> QED
    BY <1>1, <1>2, <1>3, GoesFacts
<1>5. ForwardTypes'
  <2> HIDE DEF where, o
  <2>1. /\ call' \in [Thread -> AnyCall]
        /\ \A u \in Thread : call'[u].at # "idle" =>
              call'[u].source \in Origin /\ call'[u].target \in Target
    BY <1>1, <1>2, <1>3, GoesFacts
  <2> QED
    BY <1>1, <1>2, <2>1 DEF ForwardTypes, AnyCall
<1>6. \A u \in Thread : call[u].at \notin Holding
  BY <1>1, NobodyHolds
<1> HIDE DEF o
<1>7. where # "empty"
  OBVIOUS
<1> HIDE DEF where
<1> QED
  BY <1>1, <1>2, <1>3, <1>4, <1>5, <1>6, <1>7, HolderMoves DEF o

\* The entry is in the tree, and has no edge yet.
LEMMA AddHasPutKeeps ==
    ASSUME TableInv, NEW t \in Thread, AddHasPut(t)
    PROVE  TableInv'
<1> DEFINE o == Own(t)
<1>1. /\ call[t].at = "put" /\ Goes(t, "prepend")
      /\ UNCHANGED <<entries, edgeList, listLock, table_lock, calls, broken>>
  BY DEF AddHasPut, At
<1>2. ForwardTypes /\ o \in Origin /\ call[t].at # "idle"
  BY <1>1, CallFacts
<1>3. /\ call[t].at \in Holding /\ "prepend" \in Holding /\ "prepend" \in HalfDone
      /\ "prepend" \in Holding \cup Aside
  BY <1>1 DEF Holding, HalfDone
<1>4. /\ call'[t].at = "prepend" /\ Own(t)' = o
      /\ \A u \in Thread : u # t => call'[u] = call[u]
  BY <1>1, <1>2, <1>3, GoesFacts
<1>5. ForwardTypes'
  BY <1>1, <1>2, <1>3, GoesFacts DEF ForwardTypes, AnyCall
<1>6. table_lock = t /\ \A u \in Thread : u # t => call[u].at \notin Holding
  BY <1>3, OneHolds
<1>7. o \in entries
  BY <1>1 DEF TableInv, HoldersHaveEntries, HalfDone
<1> HIDE DEF o
<1> QED
  BY <1>1, <1>2, <1>3, <1>4, <1>5, <1>6, <1>7, HolderMoves DEF o

\* prepend_edge gives the entry its edge.
LEMMA PrependKeeps ==
    ASSUME TableInv, NEW t \in Thread, Prepend(t)
    PROVE  TableInv'
<1> DEFINE o == Own(t)
           l == <<call[t].target>> \o edgeList[o]
<1>1. /\ call[t].at = "prepend" /\ Returns(t) /\ table_lock' = Nobody
      /\ edgeList' = [edgeList EXCEPT ![o] = l]
      /\ UNCHANGED <<entries, listLock, turning, calls, broken>>
  BY DEF Prepend, At, LeavesTable
<1>2. /\ ForwardTypes /\ o \in Origin /\ call[t].target \in Target
      /\ edgeList[o] \in Seq(Target)
  BY <1>1, CallFacts
<1>3. l \in Seq(Target) /\ l # <<>>
  <2> DEFINE one == <<call[t].target>>
             r == edgeList[o]
  <2>1. one \in Seq(Target) /\ r \in Seq(Target) /\ Len(one) = 1 /\ Len(r) \in Nat
    BY <1>2
  <2> HIDE DEF one, r
  <2>2. one \o r \in Seq(Target) /\ Len(one \o r) = 1 + Len(r)
    BY <2>1, CatType, CatLength, Zenon DEF Cat
  <2>3. one \o r # <<>>
    BY <2>1, <2>2
  <2> QED
    BY <2>2, <2>3 DEF one, r
<1>4. call'[t].at = "idle" /\ \A u \in Thread : u # t => call'[u] = call[u]
  BY <1>1, <1>2, ReturnsFacts
<1> HIDE DEF l
<1>5. /\ edgeList' \in [Origin -> Seq(Target)] /\ edgeList'[o] = l
      /\ \A s \in Origin : s # o => edgeList'[s] = edgeList[s]
  BY <1>1, <1>2, <1>3 DEF ForwardTypes
<1>6. ForwardTypes'
  BY <1>1, <1>2, <1>5, ReturnsFacts DEF ForwardTypes, AnyCall
<1>7. call[t].at \in Holding /\ "idle" \notin Holding /\ "idle" \notin HalfDone
  BY <1>1 DEF Holding, HalfDone
<1>8. \A u \in Thread : u # t => call[u].at \notin Holding
  BY <1>7, OneHolds
<1>9. o \in entries /\ t # Nobody
  BY <1>1, ForwardAssumption DEF TableInv, HoldersHaveEntries, HalfDone
<1> HIDE DEF o
<1> QED
  BY <1>1, <1>2, <1>3, <1>4, <1>5, <1>6, <1>7, <1>8, <1>9, HolderMoves DEF o

\* forward_table_remove_edge: without such an edge, it lets go at once.
LEMMA FindEdgeKeeps ==
    ASSUME TableInv, NEW t \in Thread, FindEdge(t)
    PROVE  TableInv'
<1> DEFINE o == Own(t)
<1>1. /\ call[t].at = "remove edge" /\ table_lock = Nobody
      /\ UNCHANGED <<entries, edgeList, listLock, turning, calls, broken>>
      /\ \/ Returns(t) /\ UNCHANGED table_lock
         \/ Goes(t, "unlink") /\ table_lock' = t /\ o \in entries
  BY DEF FindEdge, At, TakesTable
<1>2. ForwardTypes /\ o \in Origin /\ call[t].at # "idle"
  BY <1>1, CallFacts
<1>3. /\ \A u \in Thread : call[u].at \notin Holding
      /\ \A s \in Origin : s \in entries <=> edgeList[s] # <<>>
  BY <1>1, NobodyHolds
<1>4. CASE Returns(t) /\ UNCHANGED table_lock
  <2>1. ForwardTypes'
    BY <1>1, <1>2, <1>4, ReturnsFacts DEF ForwardTypes, AnyCall
  <2>2. call'[t].at \notin Holding
    BY <1>2, <1>4, ReturnsFacts DEF Holding
  <2> QED
    BY <1>1, <1>2, <1>3, <1>4, <2>1, <2>2, ReturnsFacts, StandsAside
<1>5. CASE Goes(t, "unlink") /\ table_lock' = t /\ o \in entries
  <2>1. "unlink" \in Holding /\ "unlink" \notin HalfDone /\ "unlink" \in Holding \cup Aside
    BY DEF Holding, HalfDone
  <2>2. /\ call'[t].at = "unlink" /\ Own(t)' = o
        /\ \A u \in Thread : u # t => call'[u] = call[u]
    BY <1>2, <1>5, <2>1, GoesFacts
  <2>3. ForwardTypes'
    BY <1>1, <1>2, <1>5, <2>1, GoesFacts DEF ForwardTypes, AnyCall
  <2> HIDE DEF o
  <2> QED
    BY <1>1, <1>2, <1>3, <1>5, <2>1, <2>2, <2>3, HolderMoves DEF o
<1> QED
  BY <1>1, <1>4, <1>5

\* remove_edge,
LEMMA UnlinkKeeps ==
    ASSUME TableInv, NEW t \in Thread, Unlink(t)
    PROVE  TableInv'
<1> DEFINE o == Own(t)
           l == RemoveAt(edgeList[o], Edge(o, call[t].target))
<1>1. /\ call[t].at = "unlink" /\ Goes(t, "seal")
      /\ edgeList' = [edgeList EXCEPT ![o] = l]
      /\ UNCHANGED <<entries, listLock, table_lock, turning, calls, broken>>
  BY DEF Unlink, At
<1>2. ForwardTypes /\ o \in Origin /\ call[t].at # "idle" /\ edgeList[o] \in Seq(Target)
  BY <1>1, CallFacts
<1>3. l \in Seq(Target)
  BY <1>2, EdgeRange, RemoveAtType
<1> HIDE DEF l
<1>4. /\ call[t].at \in Holding /\ "seal" \in Holding /\ "seal" \in HalfDone
      /\ "seal" \in Holding \cup Aside
  BY <1>1 DEF Holding, HalfDone
<1>5. /\ call'[t].at = "seal" /\ Own(t)' = o
      /\ \A u \in Thread : u # t => call'[u] = call[u]
  BY <1>1, <1>2, <1>4, GoesFacts
<1>6. /\ edgeList' \in [Origin -> Seq(Target)]
      /\ \A s \in Origin : s # o => edgeList'[s] = edgeList[s]
  BY <1>1, <1>2, <1>3 DEF ForwardTypes
<1>7. ForwardTypes'
  BY <1>1, <1>2, <1>4, <1>6, GoesFacts DEF ForwardTypes, AnyCall
<1>8. table_lock = t /\ \A u \in Thread : u # t => call[u].at \notin Holding
  BY <1>4, OneHolds
<1>9. o \in entries
  BY <1>1 DEF TableInv, HoldersHaveEntries
<1> HIDE DEF o
<1> QED
  BY <1>1, <1>2, <1>4, <1>5, <1>6, <1>7, <1>8, <1>9, HolderMoves DEF o

\* and the entry is pruned when that was its last edge.
LEMMA SealKeeps ==
    ASSUME TableInv, NEW t \in Thread, Seal(t)
    PROVE  TableInv'
<1> DEFINE o == Own(t)
<1>1. call[t].at = "seal" /\ UNCHANGED <<edgeList, calls>>
  BY DEF Seal, At
<1>2. ForwardTypes /\ o \in Origin /\ call[t].at # "idle"
  BY <1>1, CallFacts
<1>3. call[t].at \in Holding /\ o \in entries
  BY <1>1 DEF TableInv, HoldersHaveEntries, Holding, HalfDone
<1>4. table_lock = t /\ \A u \in Thread : u # t => call[u].at \notin Holding
  BY <1>3, OneHolds
<1>5. CASE edgeList[o] = <<>>
  <2>1. /\ entries' = entries \ {o} /\ Goes(t, "free") /\ UNCHANGED <<table_lock, broken>>
    BY <1>5 DEF Seal
  <2>2. "free" \in Holding /\ "free" \notin HalfDone /\ "free" \in Holding \cup Aside
    BY DEF Holding, HalfDone
  <2>3. /\ call'[t].at = "free" /\ Own(t)' = o
        /\ \A u \in Thread : u # t => call'[u] = call[u]
    BY <1>2, <2>1, <2>2, GoesFacts
  <2>4. ForwardTypes'
    <3>1. entries' \in SUBSET Origin
      BY <1>2, <2>1 DEF ForwardTypes
    <3> QED
      BY <1>1, <1>2, <2>1, <2>2, <3>1, GoesFacts DEF ForwardTypes, AnyCall
  <2> HIDE DEF o
  <2> QED
    BY <1>1, <1>2, <1>4, <1>5, <2>1, <2>2, <2>3, <2>4, HolderMoves DEF o
<1>6. CASE edgeList[o] # <<>>
  <2>1. Returns(t) /\ table_lock' = Nobody /\ UNCHANGED entries
    BY <1>6 DEF Seal, LeavesTable
  <2>2. "idle" \notin Holding /\ "idle" \notin HalfDone /\ t # Nobody
    BY ForwardAssumption DEF Holding, HalfDone
  <2>3. call'[t].at = "idle" /\ \A u \in Thread : u # t => call'[u] = call[u]
    BY <1>2, <2>1, ReturnsFacts
  <2>4. ForwardTypes'
    BY <1>1, <1>2, <2>1, ReturnsFacts DEF ForwardTypes, AnyCall
  <2> HIDE DEF o
  <2> QED
    BY <1>1, <1>2, <1>3, <1>4, <1>6, <2>1, <2>2, <2>3, <2>4, HolderMoves DEF o
<1> QED
  BY <1>5, <1>6

\* A thread that is not half done has left every entry with its edges.
LEMMA DoneHasEdges ==
    ASSUME TableInv, NEW t \in Thread, call[t].at \in Holding \ HalfDone,
           NEW s \in Origin
    PROVE  s \in entries <=> edgeList[s] # <<>>
<1>1. \A u \in Thread : u # t => call[u].at \notin Holding
  BY OneHolds
<1>2. \A u \in Thread : call[u].at \notin HalfDone
  BY <1>1 DEF Holding, HalfDone
<1> QED
  BY <1>2 DEF TableInv, OthersHaveEdges

\* Its lock goes with it, and then forward_table_lock is let go.
LEMMA FreeEntryKeeps ==
    ASSUME TableInv, NEW t \in Thread, FreeEntry(t)
    PROVE  TableInv'
<1> DEFINE o == Own(t)
<1>1. /\ call[t].at = "free" /\ Returns(t) /\ table_lock' = Nobody
      /\ UNCHANGED <<entries, edgeList, calls>>
  BY DEF FreeEntry, At, LeavesTable
<1>2. ForwardTypes /\ o \in Origin
  BY <1>1, CallFacts
<1>3. call[t].at \in Holding /\ call[t].at \in Holding \ HalfDone
  BY <1>1 DEF Holding, HalfDone
<1>4. \A u \in Thread : u # t => call[u].at \notin Holding
  BY <1>3, OneHolds
<1>5. "idle" \notin Holding /\ "idle" \notin HalfDone /\ t # Nobody
  BY ForwardAssumption DEF Holding, HalfDone
<1>6. call'[t].at = "idle" /\ \A u \in Thread : u # t => call'[u] = call[u]
  BY <1>1, <1>2, ReturnsFacts
<1>7. ForwardTypes'
  BY <1>1, <1>2, ReturnsFacts DEF ForwardTypes, AnyCall
<1>8. o \in entries <=> edgeList[o] # <<>>
  BY <1>2, <1>3, DoneHasEdges
<1> HIDE DEF o
<1> QED
  BY <1>1, <1>2, <1>4, <1>5, <1>6, <1>7, <1>8, HolderMoves DEF o

\* forward_table_remove: an entry that is found has an edge, and one that is not
\* found is used all the same.
LEMMA RemoveFindsKeeps ==
    ASSUME TableInv, NEW t \in Thread, RemoveFinds(t)
    PROVE  TableInv'
<1> DEFINE o == Own(t)
<1>1. /\ call[t].at = "remove" /\ table_lock = Nobody /\ table_lock' = t
      /\ Goes(t, "empty") /\ UNCHANGED <<entries, edgeList, listLock, turning, calls>>
      /\ o \notin entries => broken' = broken \cup {"null pointer"}
  BY DEF RemoveFinds, At, TakesTable
<1>2. ForwardTypes /\ o \in Origin /\ call[t].at # "idle"
  BY <1>1, CallFacts
<1>3. /\ \A u \in Thread : call[u].at \notin Holding
      /\ o \in entries <=> edgeList[o] # <<>>
  BY <1>1, <1>2, NobodyHolds
<1>4. "empty" \in Holding /\ "empty" \notin HalfDone /\ "empty" \in Holding \cup Aside
  BY DEF Holding, HalfDone
<1>5. /\ call'[t].at = "empty" /\ Own(t)' = o
      /\ \A u \in Thread : u # t => call'[u] = call[u]
  BY <1>1, <1>2, <1>4, GoesFacts
<1>6. ForwardTypes'
  BY <1>1, <1>2, <1>4, GoesFacts DEF ForwardTypes, AnyCall
<1>7. broken' \cap Fatal = {} => edgeList'[o] # <<>>
  <2>1. "null pointer" \in Fatal
    BY DEF Fatal
  <2> QED
    BY <1>1, <1>3, <2>1
<1>8. "empty" \notin HalfDone \cup {"unlink"}
  BY <1>4
<1> HIDE DEF o
<1> QED
  BY <1>1, <1>2, <1>3, <1>4, <1>5, <1>6, <1>7, <1>8, HolderMoves DEF o

\* remove_edge waits for the lock that forward_table_remove has taken, for good.
LEMMA RemoveEdgesKeeps ==
    ASSUME TableInv, NEW t \in Thread, RemoveEdges(t)
    PROVE  TableInv'
<1> DEFINE o == Own(t)
<1>1. /\ call[t].at = "empty" /\ Goes(t, "stuck")
      /\ UNCHANGED <<entries, edgeList, table_lock, turning, calls>>
  BY DEF RemoveEdges, At
<1>2. ForwardTypes /\ o \in Origin /\ call[t].at # "idle"
  BY <1>1, CallFacts
<1>3. /\ call[t].at \in Holding /\ call[t].at \in Holding \ HalfDone
      /\ "stuck" \in Holding /\ "stuck" \notin HalfDone \cup {"unlink"}
      /\ "stuck" \in Holding \cup Aside
  BY <1>1 DEF Holding, HalfDone
<1>4. /\ call'[t].at = "stuck" /\ Own(t)' = o
      /\ \A u \in Thread : u # t => call'[u] = call[u]
  BY <1>1, <1>2, <1>3, GoesFacts
<1>5. ForwardTypes'
  BY <1>1, <1>2, <1>3, GoesFacts DEF ForwardTypes, AnyCall
<1>6. table_lock = t /\ \A u \in Thread : u # t => call[u].at \notin Holding
  BY <1>3, OneHolds
<1>7. o \in entries <=> edgeList[o] # <<>>
  BY <1>2, <1>3, DoneHasEdges
<1> HIDE DEF o
<1> QED
  BY <1>1, <1>2, <1>3, <1>4, <1>5, <1>6, <1>7, HolderMoves DEF o

-----------------------------------------------------------------------------
(* The forward table: what holds of it.                                    *)

\* An entry for each list that has edges.
LEMMA TableStarts ==
    ASSUME ForwardInit
    PROVE  TableInv
<1>1. /\ edgeList \in [Origin -> Seq(Target)]
      /\ entries = {s \in Origin : edgeList[s] # <<>>}
      /\ table_lock = Nobody /\ call = [t \in Thread |-> NoCall]
  BY ForwardAssumption DEF ForwardInit
<1>2. NoCall \in AnyCall /\ NoCall.at = "idle"
  BY DEF NoCall, AnyCall, Aside
<1>3. call \in [Thread -> AnyCall] /\ \A t \in Thread : call[t].at = "idle"
  <2> HIDE DEF NoCall, AnyCall
  <2> QED
    BY <1>1, <1>2
<1>4. ForwardTypes
  BY <1>1, <1>3 DEF ForwardTypes
<1>5. "idle" \notin Holding /\ \A t \in Thread : Nobody # t
  BY ForwardAssumption DEF Holding
<1>6. TableIsHeld
  BY <1>1, <1>3, <1>5 DEF TableIsHeld
<1>7. HoldersHaveEntries /\ RemovesFromSome
  BY <1>3 DEF HoldersHaveEntries, RemovesFromSome, HalfDone
<1>8. OthersHaveEdges
  BY <1>1 DEF OthersHaveEdges
<1> QED
  BY <1>4, <1>6, <1>7, <1>8 DEF TableInv

\* Every step keeps the invariant.
LEMMA TableInvInductive ==
    ASSUME TableInv, [ForwardNext]_forwardVars
    PROVE  TableInv'
<1>1. ASSUME NEW t \in Thread, Begin(t)
      PROVE  TableInv'
  BY <1>1, BeginKeeps
<1>2. ASSUME NEW t \in Thread, Proceeds(t)
      PROVE  TableInv'
  BY <1>2, AddFindsKeeps, AddHasPutKeeps, PrependKeeps, FindEdgeKeeps, UnlinkKeeps,
     SealKeeps, FreeEntryKeeps, RemoveFindsKeeps, RemoveEdgesKeeps, GetFindsKeeps,
     GetLocksKeeps, ReleaseKeeps DEF Proceeds
<1>3. CASE UNCHANGED forwardVars
  BY <1>3 DEF forwardVars, TableInv, ForwardTypes, TableIsHeld, HoldersHaveEntries,
              OthersHaveEdges, RemovesFromSome, Own
<1> QED
  BY <1>1, <1>2, <1>3 DEF ForwardNext

\* Whatever the threads call, and in whatever order they get their locks: whoever
\* has forward_table_lock finds edges in every entry, and forward_table_remove
\* finds one to remove, or no entry at all.
THEOREM EntriesAlwaysHaveEdges == ForwardSpec => []EntriesHaveEdges
<1>1. ForwardInit => TableInv
  BY TableStarts
<1>2. TableInv /\ [ForwardNext]_forwardVars => TableInv'
  BY TableInvInductive
<1> QED
  BY <1>1, <1>2, InvMeans, PTL DEF ForwardSpec

-----------------------------------------------------------------------------
(* The hash table: powers of two, and the triangular steps of a probe.     *)

\* What kroundup32 makes, and the number of buckets of a table.
Sized(n) == n \in Nat /\ n >= 4 /\ PowerOfTwo(n)

Divides(n, x) == \E c \in Nat : x = n * c

\* Twice a power of two is one.
LEMMA PowerDoubles ==
    ASSUME NEW n \in Nat, n >= 1, PowerOfTwo(n)
    PROVE  PowerOfTwo(2 * n)
<1> SUFFICES ASSUME NEW d \in 1..(2 * n), NEW q \in 1..(2 * n), 2 * n = d * q, d % 2 = 1
             PROVE  d = 1
  BY DEF PowerOfTwo
<1>1. PICK e \in Nat : d = 2 * e + 1
  BY SMT
<1>2. q = 2 * (n - e * q)
  <2>1. d * q = 2 * (e * q) + q
    BY <1>1, SMT
  <2> QED
    BY <2>1, SMT
<1> DEFINE h == n - e * q
<1>3. h \in Int /\ q = 2 * h
  BY <1>2, SMT
<1> HIDE DEF h
<1>4. h \in Nat /\ h >= 1 /\ n = d * h
  <2>1. h >= 1 /\ h \in Nat
    BY <1>3, SMT
  <2>2. d * q = 2 * (d * h)
    BY <1>3, SMT
  <2> QED
    BY <2>1, <2>2, SMT
<1>5. d <= n /\ h <= n
  <2>1. d * h >= d /\ d * h >= h
    BY <1>4, SMT
  <2> QED
    BY <2>1, <1>4, SMT
<1>6. d \in 1..n /\ h \in 1..n
  BY <1>4, <1>5, SMT
<1> QED
  BY <1>4, <1>6 DEF PowerOfTwo

\* Half a power of two is one, but of 1.
LEMMA PowerHalves ==
    ASSUME NEW n \in Nat, n >= 2, PowerOfTwo(n)
    PROVE  \E h \in Nat : h >= 1 /\ n = 2 * h /\ PowerOfTwo(h)
<1>1. n % 2 # 1
  <2>1. n = n * 1 /\ n \in 1..n /\ 1 \in 1..n
    BY SMT
  <2> QED
    BY <2>1 DEF PowerOfTwo
<1>2. PICK h \in Nat : n = 2 * h
  BY <1>1, SMT
<1>3. ASSUME NEW d \in 1..h, NEW q \in 1..h, h = d * q, d % 2 = 1
      PROVE  d = 1
  <2>1. n = d * (2 * q)
    BY <1>2, <1>3, SMT
  <2>2. d \in 1..n /\ 2 * q \in 1..n
    BY <1>2, SMT
  <2> QED
    BY <1>3, <2>1, <2>2 DEF PowerOfTwo
<1>4. PowerOfTwo(h)
  BY <1>3 DEF PowerOfTwo
<1> QED
  BY <1>2, <1>4, SMT

\* A power of two that divides a product divides the factor beside an odd one.
LEMMA OddCancels ==
    ASSUME NEW n \in Nat, n >= 1, PowerOfTwo(n),
           NEW a \in Nat, NEW b \in Nat, a % 2 = 1, Divides(n, a * b)
    PROVE  Divides(n, b)
<1> DEFINE Cancels(m) == \A x \in Nat : a * b = m * x => \E d \in Nat : b = m * d
           Bad == {m \in Nat : m >= 1 /\ PowerOfTwo(m) /\ ~Cancels(m)}
<1>1. Bad = {}
  <2> SUFFICES ASSUME Bad # {}
               PROVE  FALSE
    OBVIOUS
  <2>1. PICK m \in Bad : \A y \in Bad : m <= y
    BY LeastNumber
  <2>2. Cancels(1)
    BY SMT
  <2>3. m >= 2
    <3>1. m # 1
      BY <2>2
    <3>2. m \in Nat /\ m >= 1
      OBVIOUS
    <3> QED
      BY <3>1, <3>2, SMT
  <2>4. PICK h \in Nat : h >= 1 /\ m = 2 * h /\ PowerOfTwo(h)
    BY <2>3, PowerHalves
  <2>5. Cancels(h)
    <3>1. h < m /\ m \in Nat
      BY <2>4, SMT
    <3>2. h \notin Bad
      <4> HIDE DEF Bad
      <4>1. h \in Bad => m <= h
        BY <2>1
      <4> QED
        BY <3>1, <4>1, SMT
    <3> QED
      BY <3>2, <2>4
  <2>6. ASSUME NEW x \in Nat, a * b = m * x
        PROVE  \E d \in Nat : b = m * d
    <3>1. a * b = h * (2 * x) /\ 2 * x \in Nat
      BY <2>4, <2>6, SMT
    <3>2. PICK d \in Nat : b = h * d
      BY <3>1, <2>5
    <3>3. h * (a * d) = h * (2 * x)
      BY <3>1, <3>2, SMT
    <3>4. a * d = 2 * x
      <4> DEFINE p == a * d
                 r == 2 * x
      <4>1. p \in Nat /\ r \in Nat /\ h * p = h * r
        BY <3>3, SMT
      <4> HIDE DEF p, r
      <4>2. p = r
        BY <4>1, <2>4, SMT
      <4> QED
        BY <4>2 DEF p, r
    <3>5. PICK e \in Nat : a = 2 * e + 1
      BY SMT
    <3>6. d = 2 * (x - e * d)
      <4>1. a * d = 2 * (e * d) + d
        BY <3>5, SMT
      <4> QED
        BY <3>4, <4>1, SMT
    <3> DEFINE g == x - e * d
    <3>7. g \in Nat /\ d = 2 * g
      BY <3>6, SMT
    <3> HIDE DEF g
    <3>8. b = m * g
      BY <3>2, <3>7, <2>4, SMT
    <3> QED
      BY <3>7, <3>8
  <2> QED
    BY <2>6
<1>2. Cancels(n)
  BY <1>1
<1> QED
  BY <1>2 DEF Divides

\* Half of a product of two numbers in a row, twice.
LEMMA Triangular ==
    ASSUME NEW s \in Nat
    PROVE  /\ (s * (s + 1)) \div 2 \in Nat
           /\ 2 * ((s * (s + 1)) \div 2) = s * (s + 1)
<1> DEFINE p == s * (s + 1)
<1>1. p \in Nat /\ p % 2 = 0
  <2>1. CASE s % 2 = 0
    <3>1. PICK k \in Nat : s = 2 * k
      BY <2>1, SMT
    <3>2. p = 2 * (k * (s + 1)) /\ k * (s + 1) \in Nat
      BY <3>1, SMT
    <3> HIDE DEF p
    <3> QED
      BY <3>2, SMT
  <2>2. CASE s % 2 = 1
    <3>0. (s + 1) % 2 = 0
      BY <2>2, SMT
    <3>1. PICK k \in Nat : s + 1 = 2 * k
      BY <3>0, SMT
    <3>2. p = 2 * (s * k) /\ s * k \in Nat
      BY <3>1, SMT
    <3> HIDE DEF p
    <3> QED
      BY <3>2, SMT
  <2> QED
    BY <2>1, <2>2, SMT
<1> HIDE DEF p
<1>2. p \div 2 \in Nat /\ 2 * (p \div 2) = p
  BY <1>1, SMT
<1> QED
  BY <1>2 DEF p

\* Numbers of the same remainder are a multiple apart.
LEMMA SameRemainder ==
    ASSUME NEW n \in Nat, n >= 1, NEW x \in Nat, NEW y \in Nat,
           NEW z \in Nat, x % n = y % n, y = x + z
    PROVE  Divides(n, z)
<1>1. x = n * (x \div n) + (x % n) /\ y = n * (y \div n) + (y % n)
  BY SMT
<1>2. x \div n \in Nat /\ y \div n \in Nat
  BY SMT
<1> DEFINE u == x \div n
           v == y \div n
           r == x % n
<1>3. u \in Nat /\ v \in Nat /\ r \in Int /\ x = n * u + r /\ y = n * v + r
  BY <1>1, <1>2, SMT
<1> HIDE DEF u, v, r
<1>4. z = n * (v - u)
  BY <1>3, SMT
<1>5. v - u >= 0
  BY <1>3, <1>4, SMT
<1> DEFINE w == v - u
<1>6. w \in Nat /\ z = n * w
  BY <1>3, <1>4, <1>5, SMT
<1> QED
  BY <1>6 DEF Divides

\* Buckets are numbers below that of the buckets.
LEMMA ProbeType ==
    ASSUME NEW n \in Nat, n >= 1, NEW key \in Nat, NEW s \in Nat
    PROVE  Probe(n, key, s) \in 0..(n - 1)
<1> DEFINE x == key + (s * (s + 1)) \div 2
<1>1. x \in Nat
  BY Triangular, SMT
<1> HIDE DEF x
<1>2. x % n \in 0..(n - 1)
  BY <1>1, SMT
<1> QED
  BY <1>2 DEF x, Probe

\* In one round the steps lead to different buckets.
LEMMA ProbesDiffer ==
    ASSUME NEW n, Sized(n), NEW key \in Nat, NEW i \in 0..(n - 1), NEW j \in 0..(n - 1),
           i < j
    PROVE  Probe(n, key, i) # Probe(n, key, j)
<1> SUFFICES ASSUME Probe(n, key, i) = Probe(n, key, j)
             PROVE  FALSE
  OBVIOUS
<1>0. n \in Nat /\ n >= 4 /\ PowerOfTwo(n) /\ i \in Nat /\ j \in Nat
  BY SMT DEF Sized
<1> DEFINE ti == (i * (i + 1)) \div 2
           tj == (j * (j + 1)) \div 2
           a == j - i
           b == j + i + 1
<1>1. ti \in Nat /\ tj \in Nat /\ 2 * ti = i * (i + 1) /\ 2 * tj = j * (j + 1)
  BY <1>0, Triangular
<1>2. (key + ti) % n = (key + tj) % n
  BY DEF Probe
<1> HIDE DEF ti, tj
<1>3. 2 * (tj - ti) = a * b
  <2>1. j * (j + 1) - i * (i + 1) = a * b
    BY <1>0, SMT
  <2> QED
    BY <1>1, <2>1, <1>0, SMT
<1>4. a \in Nat /\ b \in Nat /\ a >= 1 /\ a < n /\ b < 2 * n
  BY <1>0, SMT
<1>5. a % 2 = 1 \/ b % 2 = 1
  BY <1>0, SMT
<1> HIDE DEF a, b
<1>6. tj >= ti
  <2>1. a * b >= 0
    BY <1>4, SMT
  <2> QED
    BY <1>1, <1>3, <2>1, SMT
<1>7. PICK c \in Nat : tj - ti = n * c
  <2> DEFINE x == key + ti
             y == key + tj
             z == tj - ti
  <2>1. x \in Nat /\ y \in Nat /\ z \in Nat /\ n >= 1 /\ y = x + z
    BY <1>0, <1>1, <1>6, SMT
  <2>2. x % n = y % n
    BY <1>2
  <2> HIDE DEF x, y, z
  <2>3. Divides(n, z)
    BY <1>0, <2>1, <2>2, SameRemainder
  <2> QED
    BY <2>3 DEF Divides, z
<1> DEFINE m == 2 * n
<1>8. Divides(m, a * b) /\ Divides(m, b * a)
  <2>1. m * c = 2 * (n * c)
    BY <1>0, SMT
  <2>2. a * b = b * a
    BY <1>4, SMT
  <2> QED
    BY <2>1, <2>2, <1>3, <1>7 DEF Divides
<1>9. m \in Nat /\ m >= 1 /\ PowerOfTwo(m)
  <2>1. n >= 1
    BY <1>0, SMT
  <2>2. PowerOfTwo(m)
    BY <1>0, <2>1, PowerDoubles
  <2> QED
    BY <1>0, <2>2, SMT
<1>12. m = 2 * n
  OBVIOUS
<1> HIDE DEF m
<1>10. CASE a % 2 = 1
  <2>0. Divides(m, b)
    BY <1>4, <1>8, <1>9, <1>10, OddCancels
  <2>1. PICK d \in Nat : b = m * d
    BY <2>0 DEF Divides
  <2>2. b >= 1
    BY <1>4, <1>0, SMT DEF b
  <2> QED
    BY <2>1, <2>2, <1>12, <1>4, <1>0, SMT
<1>11. CASE b % 2 = 1
  <2>0. Divides(m, a)
    BY <1>4, <1>8, <1>9, <1>11, OddCancels
  <2>1. PICK d \in Nat : a = m * d
    BY <2>0 DEF Divides
  <2> QED
    BY <2>1, <1>12, <1>4, <1>0, SMT
<1> QED
  BY <1>5, <1>10, <1>11

\* As long as a bucket is free, a probe comes to one within a round.
LEMMA FreeBucket ==
    ASSUME NEW n, Sized(n), NEW key \in Nat, NEW taken \in SUBSET (0..(n - 1)),
           Cardinality(taken) < n
    PROVE  \E s \in Steps(n) : Probe(n, key, s) \notin taken
<1> SUFFICES ASSUME \A s \in Steps(n) : Probe(n, key, s) \in taken
             PROVE  FALSE
  OBVIOUS
<1>0. n \in Nat /\ n >= 4
  BY DEF Sized
<1> DEFINE R == 0..(n - 1)
           f == [s \in R |-> Probe(n, key, s)]
<1>1. IsFiniteSet(R) /\ Cardinality(R) = n
  <2>1. 0 \in Int /\ n - 1 \in Int /\ ~(0 > n - 1) /\ n - 1 - 0 + 1 = n
    BY <1>0, SMT
  <2> QED
    BY <2>1, FS_Interval
<1>2. IsFiniteSet(taken)
  BY <1>1, FS_Subset
<1>3. f \in [R -> taken]
  <2>1. R \subseteq Steps(n)
    BY <1>0, SMT DEF Steps
  <2> QED
    BY <2>1
<1>4. PICK x \in R, y \in R : x # y /\ f[x] = f[y]
  <2>1. Cardinality(taken) < Cardinality(R)
    BY <1>1
  <2> HIDE DEF R, f
  <2>2. \E x, y \in R : x # y /\ f[x] = f[y]
    BY <1>1, <1>2, <1>3, <2>1, FS_PigeonHole
  <2> QED
    BY <2>2
<1>5. Probe(n, key, x) = Probe(n, key, y)
  BY <1>4
<1>6. x < y \/ y < x
  BY <1>0, <1>4, SMT
<1> QED
  BY <1>5, <1>6, ProbesDiffer

\* Between two powers of two there is room to double the smaller.
LEMMA PowersApart ==
    ASSUME NEW n \in Nat, PowerOfTwo(n), NEW p \in Nat, PowerOfTwo(p), p >= 1, p < n
    PROVE  2 * p <= n
<1> DEFINE Bad == {m \in Nat : PowerOfTwo(m) /\ \E q \in Nat :
                       PowerOfTwo(q) /\ q >= 1 /\ q < m /\ 2 * q > m}
<1>1. Bad = {}
  <2> SUFFICES ASSUME Bad # {}
               PROVE  FALSE
    OBVIOUS
  <2>1. PICK m \in Bad : \A y \in Bad : m <= y
    BY LeastNumber
  <2>2. PICK q \in Nat : PowerOfTwo(q) /\ q >= 1 /\ q < m /\ 2 * q > m
    OBVIOUS
  <2>3. m \in Nat /\ PowerOfTwo(m) /\ m >= 2 /\ q >= 2
    BY <2>2, SMT
  <2>4. PICK h \in Nat : h >= 1 /\ m = 2 * h /\ PowerOfTwo(h)
    BY <2>3, PowerHalves
  <2>5. PICK r \in Nat : r >= 1 /\ q = 2 * r /\ PowerOfTwo(r)
    BY <2>2, <2>3, PowerHalves
  <2>6. r < h /\ 2 * r > h /\ h < m
    BY <2>2, <2>3, <2>4, <2>5, SMT
  <2>7. h \in Bad
    BY <2>4, <2>5, <2>6
  <2> HIDE DEF Bad
  <2>8. m <= h
    BY <2>1, <2>7
  <2> QED
    BY <2>3, <2>4, <2>6, <2>8, SMT
<1>2. n \notin Bad
  BY <1>1
<1>3. ~ (2 * p > n)
  BY <1>2
<1> QED
  BY <1>3, SMT

\* From every number to its double there is one.
LEMMA PowerBetween ==
    ASSUME NEW n \in Nat, n >= 1
    PROVE  \E p \in Nat : PowerOfTwo(p) /\ n <= p /\ p <= 2 * n
<1> DEFINE T == {m \in Nat : \E p \in Nat :
                     PowerOfTwo(p) /\ m + 1 <= p /\ p <= 2 * (m + 1)}
<1>1. 0 \in T
  <2>1. PowerOfTwo(1)
    BY SMT DEF PowerOfTwo
  <2>2. 0 + 1 <= 1 /\ 1 <= 2 * (0 + 1)
    BY SMT
  <2> QED
    BY <2>1, <2>2
<1>2. ASSUME NEW m \in Nat, m \in T
      PROVE  m + 1 \in T
  <2>1. PICK p \in Nat : PowerOfTwo(p) /\ m + 1 <= p /\ p <= 2 * (m + 1)
    BY <1>2
  <2>2. CASE p = m + 1
    <3>1. PowerOfTwo(2 * p)
      BY <2>1, <2>2, PowerDoubles, SMT
    <3>2. 2 * p \in Nat /\ (m + 1) + 1 <= 2 * p /\ 2 * p <= 2 * ((m + 1) + 1)
      BY <2>2, SMT
    <3> QED
      BY <3>1, <3>2
  <2>3. CASE p # m + 1
    <3>1. (m + 1) + 1 <= p /\ p <= 2 * ((m + 1) + 1)
      BY <2>1, <2>3, SMT
    <3> QED
      BY <2>1, <3>1
  <2> QED
    BY <2>2, <2>3
<1> HIDE DEF T
<1>3. n - 1 \in T
  <2>1. \A m \in Nat : m \in T
    BY <1>1, <1>2, SetInduction
  <2>2. n - 1 \in Nat
    BY SMT
  <2> QED
    BY <2>1, <2>2
<1> USE DEF T
<1>4. PICK p \in Nat : PowerOfTwo(p) /\ (n - 1) + 1 <= p /\ p <= 2 * ((n - 1) + 1)
  BY <1>3
<1>5. n <= p /\ p <= 2 * n
  BY <1>4, SMT
<1> QED
  BY <1>4, <1>5

\* 1, 2 and 4.
LEMMA FourIsSized == PowerOfTwo(1) /\ PowerOfTwo(2) /\ Sized(4)
<1>1. PowerOfTwo(1)
  BY SMT DEF PowerOfTwo
<1>2. PowerOfTwo(2)
  <2>1. PowerOfTwo(2 * 1)
    BY <1>1, PowerDoubles, SMT
  <2> QED
    BY <2>1, SMT
<1>3. PowerOfTwo(4)
  <2>1. PowerOfTwo(2 * 2)
    BY <1>2, PowerDoubles, SMT
  <2>2. 2 * 2 = 4
    BY SMT
  <2> QED
    BY <2>1, <2>2
<1> QED
  BY <1>1, <1>2, <1>3, SMT DEF Sized

\* kroundup32 gives the least that is enough.
LEMMA BucketsFacts ==
    ASSUME NEW n \in Nat
    PROVE  /\ Sized(Buckets(n)) /\ Buckets(n) >= n
           /\ \A p : Sized(p) /\ p >= n => Buckets(n) <= p
<1> DEFINE T == {p \in 4..(2 * n + 4) : p >= n /\ PowerOfTwo(p)}
<1>1. T # {}
  <2>1. CASE n <= 4
    <3>1. 4 \in 4..(2 * n + 4) /\ 4 >= n
      BY <2>1, SMT
    <3> QED
      BY <3>1, FourIsSized DEF Sized
  <2>2. CASE n > 4
    <3>1. PICK p \in Nat : PowerOfTwo(p) /\ n <= p /\ p <= 2 * n
      BY <2>2, PowerBetween, SMT
    <3>2. p \in 4..(2 * n + 4) /\ p >= n
      BY <3>1, <2>2, SMT
    <3> QED
      BY <3>1, <3>2
  <2> QED
    BY <2>1, <2>2, SMT
<1>2. T \subseteq Nat
  BY SMT
<1>3. Min(T) \in T /\ \A y \in T : Min(T) <= y
  <2> HIDE DEF T
  <2> QED
    BY <1>1, <1>2, MinIsLeast
<1>4. Buckets(n) = Min(T)
  BY DEF Buckets
<1>5. Min(T) \in 4..(2 * n + 4) /\ Min(T) >= n /\ PowerOfTwo(Min(T))
  BY <1>3
<1>6. Sized(Buckets(n)) /\ Buckets(n) >= n
  <2>1. Min(T) \in Nat /\ Min(T) >= 4
    BY <1>5, SMT
  <2> QED
    BY <2>1, <1>4, <1>5 DEF Sized
<1>7. ASSUME NEW p, Sized(p), p >= n
      PROVE  Buckets(n) <= p
  <2>1. p \in Nat /\ p >= 4 /\ PowerOfTwo(p)
    BY <1>7 DEF Sized
  <2>2. CASE p <= 2 * n + 4
    <3>1. p \in 4..(2 * n + 4)
      BY <2>1, <2>2, SMT
    <3>2. p \in T
      BY <3>1, <2>1, <1>7
    <3> QED
      BY <3>2, <1>3, <1>4
  <2>3. CASE ~ (p <= 2 * n + 4)
    <3> HIDE DEF T
    <3> QED
      BY <2>1, <2>3, <1>4, <1>5, SMT
  <2> QED
    BY <2>2, <2>3
<1> QED
  BY <1>6, <1>7

\* One less makes the same size, one more the double.
LEMMA BucketsAround ==
    ASSUME NEW n, Sized(n)
    PROVE  Buckets(n - 1) = n /\ Buckets(n + 1) = 2 * n
<1>0. n \in Nat /\ n >= 4 /\ PowerOfTwo(n)
  BY DEF Sized
<1>1. Buckets(n - 1) = n
  <2> DEFINE m == n - 1
             b == Buckets(m)
  <2>1. m \in Nat /\ n >= m
    BY <1>0, SMT
  <2>2. Sized(b) /\ b >= m /\ b <= n
    BY <2>1, BucketsFacts
  <2> HIDE DEF b
  <2>3. b \in Nat /\ b >= 4 /\ PowerOfTwo(b)
    BY <2>2 DEF Sized
  <2>4. ~ (b < n)
    <3>1. b < n => 2 * b <= n
      BY <1>0, <2>3, PowersApart, SMT
    <3> QED
      BY <3>1, <2>2, <2>3, <1>0, SMT
  <2>5. b = n
    BY <1>0, <2>2, <2>3, <2>4, SMT
  <2> QED
    BY <2>5 DEF b
<1>2. Buckets(n + 1) = 2 * n
  <2> DEFINE m == n + 1
             d == 2 * n
             b == Buckets(m)
  <2>1. m \in Nat /\ d \in Nat /\ d >= m /\ d >= 4
    BY <1>0, SMT
  <2>2. Sized(d)
    BY <1>0, <2>1, PowerDoubles, SMT DEF Sized
  <2>3. Sized(b) /\ b >= m /\ b <= d
    BY <2>1, <2>2, BucketsFacts
  <2> HIDE DEF b
  <2>4. b \in Nat /\ b >= 4 /\ PowerOfTwo(b)
    BY <2>3 DEF Sized
  <2>5. 2 * n <= b
    <3>1. n < b /\ n >= 1
      BY <1>0, <2>3, <2>4, SMT
    <3> QED
      BY <3>1, <1>0, <2>4, PowersApart
  <2>6. b = d
    BY <1>0, <2>3, <2>4, <2>5, SMT
  <2> QED
    BY <2>6 DEF b
<1> QED
  BY <1>1, <1>2

\* The upper bound leaves a bucket empty, and grows with the table.
LEMMA UpperFacts ==
    ASSUME NEW n \in Nat
    PROVE  /\ UpperBound(n) \in Nat
           /\ n >= 4 => UpperBound(n) < n
           /\ \A m \in Nat : m <= n => UpperBound(m) <= UpperBound(n)
           /\ n >= 4 => UpperBound(n) < UpperBound(2 * n)
           /\ \A k \in Nat : n >= 4 /\ n > 2 * k => k < UpperBound(n)
           /\ UpperBound(0) = 0 /\ UpperBound(4) = 3
BY SMT DEF UpperBound

-----------------------------------------------------------------------------
(* The hash table: the invariant.                                          *)

\* Probing for a key passes used buckets only on its way to bucket i.
Reaches(n, key, i, used) ==
    \E s \in Steps(n) : /\ Probe(n, key, s) = i
                        /\ \A r \in 0..(s - 1) : Probe(n, key, r) \in used

TableTypes(h) ==
    /\ DOMAIN h = {"n", "at", "deleted", "size", "occupied", "upper"}
    /\ h.n = 0 \/ Sized(h.n)
    /\ h.at \in [Live(h) -> Pair]
    /\ Live(h) \subseteq 0..(h.n - 1)
    /\ h.deleted \subseteq 0..(h.n - 1)

\* The counts are right, and leave a bucket empty.
TableCounts(h) ==
    /\ Live(h) \cap h.deleted = {}
    /\ h.size = Cardinality(Live(h))
    /\ h.occupied = h.size + Cardinality(h.deleted)
    /\ h.upper = UpperBound(h.n)
    /\ h.occupied <= h.upper

\* Every pair is found on the way of its key, and no other pair of that key.
TableFinds(h) ==
    /\ \A i, j \in Live(h) : h.at[i].key = h.at[j].key => i = j
    /\ \A i \in Live(h) : Reaches(h.n, h.at[i].key, i, Live(h) \cup h.deleted)

SoundTable(h) == TableTypes(h) /\ TableCounts(h) /\ TableFinds(h)

MoveTypes(m, h) ==
    /\ DOMAIN m = {"n", "used", "old", "at", "hand"}
    /\ Sized(m.n)
    /\ m.at \in [DOMAIN m.at -> Pair]
    /\ m.used \cup m.old \subseteq DOMAIN m.at
    /\ m.used \subseteq 0..(m.n - 1)
    /\ m.old \subseteq Live(h)
    /\ m.hand \subseteq Pair
    /\ \A p, q \in m.hand : p = q

\* No pair is counted twice, and all of them have room.
MoveCounts(m, h) ==
    /\ m.used \cap m.old = {}
    /\ Cardinality(m.used) + Cardinality(m.old) + Cardinality(m.hand) = h.size
    /\ h.size < UpperBound(m.n)

\* The pairs that there were are those that have moved, those that have not,
\* and the one in hand; those that have moved are found.
MoveKeeps(m, h) ==
    /\ {m.at[i] : i \in m.used \cup m.old} \cup m.hand = {h.at[i] : i \in Live(h)}
    /\ \A i, j \in m.used \cup m.old : m.at[i].key = m.at[j].key => i = j
    /\ \A p \in m.hand, i \in m.used \cup m.old : m.at[i].key # p.key
    /\ \A i \in m.used : Reaches(m.n, m.at[i].key, i, m.used)

SoundMove(m, h) == MoveTypes(m, h) /\ MoveCounts(m, h) /\ MoveKeeps(m, h)

\* kh_put goes on with room.
AwaitsRoom ==
    /\ awaiting \subseteq Pair
    /\ \A p, q \in awaiting : p = q
    /\ (awaiting # {} /\ ~Moving) => hash.occupied < hash.upper

\* Smaller tables would not hold what is held, with what is awaiting.
TooSmall(n, size) == \A m \in 4..(n - 1) : PowerOfTwo(m) => UpperBound(m) < size

GrowsWithEntries ==
    /\ grown \in BOOLEAN
    /\ grown => /\ hash.deleted = {}
                /\ Moving => awaiting # {} /\ TooSmall(move.n, hash.size + 1)
                /\ TooSmall(hash.n, IF awaiting # {} /\ ~Moving
                                    THEN hash.size + 1 ELSE hash.size)

HashInv ==
    /\ SoundTable(hash)
    /\ move.n \in Nat
    /\ IF Moving THEN SoundMove(move, hash) ELSE move = NoMove
    /\ AwaitsRoom
    /\ GrowsWithEntries

-----------------------------------------------------------------------------
(* The hash table: where a probe ends.                                     *)

\* The greatest of a set of numbers below a bound is one of them.
LEMMA MaxIsGreatest ==
    ASSUME NEW n \in Nat, NEW T, T \subseteq 0..n, T # {}
    PROVE  Max(T) \in T /\ \A y \in T : y <= Max(T)
<1> DEFINE D == {n - y : y \in T}
<1>1. D \subseteq Nat /\ D # {}
  <2>1. \A y \in T : n - y \in Nat
    BY SMT
  <2> QED
    BY <2>1
<1>2. PICK x \in D : \A y \in D : x <= y
  <2> HIDE DEF D
  <2> QED
    BY <1>1, LeastNumber
<1>3. PICK t \in T : x = n - t
  OBVIOUS
<1>4. ASSUME NEW y \in T
      PROVE  y <= t
  <2>1. n - y \in D
    OBVIOUS
  <2>2. n - t <= n - y
    BY <2>1, <1>2, <1>3
  <2> QED
    BY <2>2, SMT
<1> QED
  BY <1>4 DEF Max

\* A table that is sound has numbers for buckets, and counts those used.
LEMMA UsedFacts ==
    ASSUME NEW h, SoundTable(h)
    PROVE  /\ h.n \in Nat /\ UpperBound(h.n) \in Nat
           /\ IsFiniteSet(Live(h)) /\ IsFiniteSet(h.deleted)
           /\ Live(h) \cup h.deleted \subseteq 0..(h.n - 1)
           /\ Cardinality(Live(h) \cup h.deleted) = h.occupied
           /\ h.size \in Nat /\ h.occupied \in Nat /\ h.size <= h.occupied
           /\ h.n # 0 => Sized(h.n) /\ h.upper < h.n
           /\ h.n = 0 => h.upper = 0 /\ Live(h) = {}
<1>1. h.n \in Nat /\ (h.n # 0 => h.n >= 4)
  BY DEF SoundTable, TableTypes, Sized
<1>2. IsFiniteSet(0..(h.n - 1))
  <2>1. 0 \in Int /\ h.n - 1 \in Int
    BY <1>1, SMT
  <2> QED
    BY <2>1, FS_Interval
<1>3. Live(h) \subseteq 0..(h.n - 1) /\ h.deleted \subseteq 0..(h.n - 1)
  BY DEF SoundTable, TableTypes
<1>4. IsFiniteSet(Live(h)) /\ IsFiniteSet(h.deleted)
  BY <1>2, <1>3, FS_Subset
<1>5. Cardinality(Live(h)) \in Nat /\ Cardinality(h.deleted) \in Nat
  BY <1>4, FS_CardinalityType
<1>6. Cardinality(Live(h) \cup h.deleted) = h.occupied
  <2>1. Live(h) \cap h.deleted = {} /\ h.occupied = Cardinality(Live(h)) + Cardinality(h.deleted)
    BY DEF SoundTable, TableCounts
  <2>2. Cardinality(Live(h) \cup h.deleted)
           = Cardinality(Live(h)) + Cardinality(h.deleted) - Cardinality(Live(h) \cap h.deleted)
    BY <1>4, FS_Union
  <2>3. Cardinality(Live(h) \cap h.deleted) = 0
    BY <2>1, FS_EmptySet
  <2> QED
    BY <2>1, <2>2, <2>3, <1>5, SMT
<1>7. h.size = Cardinality(Live(h)) /\ h.occupied = h.size + Cardinality(h.deleted)
  BY DEF SoundTable, TableCounts
<1>8. UpperBound(h.n) \in Nat /\ (h.n >= 4 => UpperBound(h.n) < h.n) /\ UpperBound(0) = 0
  BY <1>1, UpperFacts
<1>9. h.n # 0 => Sized(h.n)
  BY DEF SoundTable, TableTypes
<1>10. h.upper = UpperBound(h.n)
  BY DEF SoundTable, TableCounts
<1>11. h.n = 0 => Live(h) = {}
  <2>1. h.n = 0 => 0..(h.n - 1) = {}
    BY SMT
  <2> QED
    BY <2>1, <1>3
<1>12. h.size <= h.occupied /\ h.size \in Nat /\ h.occupied \in Nat
  BY <1>5, <1>7, SMT
<1> QED
  BY <1>1, <1>3, <1>4, <1>6, <1>8, <1>9, <1>10, <1>11, <1>12

\* Where the probe for a key of the table ends, by a step that reaches it.
LEMMA ReachedStops ==
    ASSUME NEW h, SoundTable(h), NEW i \in Live(h)
    PROVE  /\ Stops(h, h.at[i].key) # {}
           /\ LET b == Probe(h.n, h.at[i].key, Min(Stops(h, h.at[i].key)))
              IN  b \in Live(h) /\ h.at[b].key = h.at[i].key
<1> DEFINE key == h.at[i].key
           S == Stops(h, key)
           used == Live(h) \cup h.deleted
<1>1. PICK s \in Steps(h.n) : /\ Probe(h.n, key, s) = i
                              /\ \A r \in 0..(s - 1) : Probe(h.n, key, r) \in used
  BY DEF SoundTable, TableFinds, Reaches
<1>2. s \in S
  BY <1>1 DEF Stops
<1>3. S \subseteq Nat /\ h.n \in Nat
  <2>1. h.n \in Nat
    BY UsedFacts
  <2>2. Steps(h.n) \subseteq Nat
    BY <2>1, SMT DEF Steps
  <2> QED
    BY <2>1, <2>2 DEF Stops
<1> DEFINE m == Min(S)
           b == Probe(h.n, key, m)
<1>4. m \in S /\ m <= s
  <2> HIDE DEF S
  <2> QED
    BY <1>2, <1>3, MinIsLeast
<1>5. Empty(h, b) \/ (b \in Live(h) /\ h.at[b].key = key)
  BY <1>4 DEF Stops
<1>6. ~ Empty(h, b)
  <2>1. CASE m = s
    BY <2>1, <1>1 DEF Empty
  <2>2. CASE m # s
    <3>1. m \in Nat /\ s \in Nat
      BY <1>2, <1>3, <1>4
    <3>2. m \in 0..(s - 1)
      <4> HIDE DEF m, S
      <4> QED
        BY <1>4, <2>2, <3>1, SMT
    <3>3. b \in used
      BY <3>2, <1>1
    <3> QED
      BY <3>3 DEF Empty
  <2> QED
    BY <2>1, <2>2
<1>7. S # {}
  BY <1>2
<1> QED
  BY <1>5, <1>6, <1>7

\* kh_get returns the bucket of a key, or kh_end when there is none.
LEMMA GetFindsKey ==
    ASSUME NEW h, SoundTable(h), NEW key \in Nat
    PROVE  /\ GetBucket(h, key) \in Live(h) => h.at[GetBucket(h, key)].key = key
           /\ GetBucket(h, key) \notin Live(h) =>
                 GetBucket(h, key) = h.n /\ \A i \in Live(h) : h.at[i].key # key
           /\ h.n \notin Live(h)
<1>1. h.n \notin Live(h)
  <2>1. h.n \in Nat /\ Live(h) \subseteq 0..(h.n - 1)
    BY UsedFacts
  <2>2. h.n \notin 0..(h.n - 1)
    BY <2>1, SMT
  <2> QED
    BY <2>1, <2>2
<1> DEFINE S == Stops(h, key)
           b == Probe(h.n, key, Min(S))
<1>2. CASE \E i \in Live(h) : h.at[i].key = key
  <2>1. PICK i \in Live(h) : h.at[i].key = key
    BY <1>2
  <2>2. S # {} /\ b \in Live(h) /\ h.at[b].key = key
    BY <2>1, ReachedStops
  <2>3. GetBucket(h, key) = b
    BY <2>2 DEF GetBucket
  <2> QED
    BY <2>2, <2>3, <1>1
<1>3. CASE ~ \E i \in Live(h) : h.at[i].key = key
  <2>1. GetBucket(h, key) = h.n
    <3>1. CASE S = {}
      BY <3>1 DEF GetBucket
    <3>2. CASE S # {}
      <4>1. S \subseteq Nat
        <5>1. h.n \in Nat
          BY UsedFacts
        <5>2. Steps(h.n) \subseteq Nat
          BY <5>1, SMT DEF Steps
        <5> QED
          BY <5>2 DEF Stops
      <4>2. Min(S) \in S
        <5> HIDE DEF S
        <5> QED
          BY <3>2, <4>1, MinIsLeast
      <4>3. Empty(h, b)
        BY <4>2, <1>3 DEF Stops
      <4>4. b \notin Live(h)
        BY <4>3 DEF Empty
      <4> QED
        BY <3>2, <4>4 DEF GetBucket
    <3> QED
      BY <3>1, <3>2
  <2> QED
    BY <2>1, <1>1, <1>3
<1> QED
  BY <1>2, <1>3

\* kh_put finds the bucket of a key, or one for it on its way.
LEMMA PutFinds ==
    ASSUME NEW h, SoundTable(h), h.occupied < h.upper, NEW key \in Nat
    PROVE  LET i == PutBucket(h, key)
           IN  /\ i \in 0..(h.n - 1)
               /\ i \in Live(h) => h.at[i].key = key
               /\ i \notin Live(h) => \A j \in Live(h) : h.at[j].key # key
               /\ Reaches(h.n, key, i, Live(h) \cup h.deleted)
<1> DEFINE used == Live(h) \cup h.deleted
           S == Stops(h, key)
           end == Min(S)
           e == Probe(h.n, key, end)
           passed == {s \in 0..(end - 1) : Probe(h.n, key, s) \in h.deleted}
           i == PutBucket(h, key)
<1>1. /\ h.n \in Nat /\ h.upper < h.n /\ Sized(h.n)
      /\ used \subseteq 0..(h.n - 1) /\ Cardinality(used) = h.occupied
      /\ h.occupied \in Nat /\ h.n >= 4
  <2>1. h.n # 0
    <3>1. h.occupied \in Nat /\ (h.n = 0 => h.upper = 0)
      BY UsedFacts
    <3> QED
      BY <3>1, SMT
  <2> QED
    BY <2>1, UsedFacts DEF Sized
<1>2. Cardinality(used) < h.n
  <2>1. h.upper \in Nat
    BY UsedFacts DEF SoundTable, TableCounts
  <2> QED
    BY <2>1, <1>1, SMT
<1>3. S # {}
  <2>1. PICK s \in Steps(h.n) : Probe(h.n, key, s) \notin used
    <3> HIDE DEF used
    <3> QED
      BY <1>1, <1>2, FreeBucket
  <2>2. s \in S
    BY <2>1 DEF Stops, Empty
  <2> QED
    BY <2>2
<1>4. Steps(h.n) \subseteq Nat
  BY <1>1, SMT DEF Steps
<1>5. end \in S /\ \A s \in S : end <= s
  <2>1. S \subseteq Nat
    BY <1>4 DEF Stops
  <2> HIDE DEF S
  <2> QED
    BY <1>3, <2>1, MinIsLeast
<1>6. end \in Steps(h.n) /\ end \in Nat
  BY <1>4, <1>5 DEF Stops
<1>7. Empty(h, e) \/ (e \in Live(h) /\ h.at[e].key = key)
  BY <1>5 DEF Stops
<1>8. ASSUME NEW r \in 0..(end - 1)
      PROVE  r \in Steps(h.n) /\ Probe(h.n, key, r) \in used
  <2> HIDE DEF S, end
  <2>1. r \in Steps(h.n) /\ r \in Nat /\ ~ (end <= r)
    BY <1>1, <1>6, SMT DEF Steps
  <2>2. r \notin S
    BY <2>1, <1>5
  <2> USE DEF S
  <2>3. ~ Empty(h, Probe(h.n, key, r))
    BY <2>1, <2>2 DEF Stops
  <2> QED
    BY <2>1, <2>3 DEF Empty
<1>9. ASSUME Empty(h, e)
      PROVE  \A j \in Live(h) : h.at[j].key # key
  <2> SUFFICES ASSUME NEW j \in Live(h), h.at[j].key = key
               PROVE  FALSE
    OBVIOUS
  <2>1. e \in Live(h)
    BY ReachedStops
  <2> QED
    BY <2>1, <1>9 DEF Empty
<1>10. CASE Empty(h, e) /\ passed # {}
  <2> DEFINE t == Max(passed)
  <2>1. t \in passed
    <3>1. passed \subseteq 0..end
      <4> HIDE DEF S, end
      <4> QED
        BY <1>6, SMT
    <3> HIDE DEF passed, S, end
    <3> QED
      BY <1>6, <1>10, <3>1, MaxIsGreatest
  <2>2. i = Probe(h.n, key, t)
    BY <1>10 DEF PutBucket
  <2>3. i \in h.deleted /\ t \in 0..(end - 1)
    BY <2>1, <2>2
  <2>4. i \notin Live(h) /\ i \in 0..(h.n - 1)
    <3>1. Live(h) \cap h.deleted = {}
      BY DEF SoundTable, TableCounts
    <3> QED
      BY <2>3, <3>1, <1>1
  <2>5. Reaches(h.n, key, i, used)
    <3>1. t \in Steps(h.n)
      BY <2>3, <1>8
    <3>2. ASSUME NEW r \in 0..(t - 1)
          PROVE  Probe(h.n, key, r) \in used
      <4>1. r \in 0..(end - 1)
        <5> HIDE DEF t, end, S, passed
        <5> QED
          BY <2>3, <1>6, SMT
      <4> QED
        BY <4>1, <1>8
    <3> HIDE DEF used
    <3> QED
      BY <3>1, <3>2, <2>2 DEF Reaches
  <2> QED
    BY <2>4, <2>5, <1>9, <1>10
<1>11. CASE ~ (Empty(h, e) /\ passed # {})
  <2>1. i = e
    BY <1>11 DEF PutBucket
  <2>2. e \in 0..(h.n - 1)
    <3> HIDE DEF end
    <3> QED
      BY <1>1, <1>6, ProbeType, SMT
  <2>3. Reaches(h.n, key, e, used)
    <3> HIDE DEF used, end
    <3> QED
      BY <1>6, <1>8 DEF Reaches
  <2> QED
    BY <2>1, <2>2, <2>3, <1>7, <1>9 DEF Empty
<1> QED
  BY <1>10, <1>11

\* More used buckets do not cut a way off.
LEMMA ReachesMore ==
    ASSUME NEW n, NEW key, NEW i, NEW used, NEW more, used \subseteq more,
           Reaches(n, key, i, used)
    PROVE  Reaches(n, key, i, more)
BY DEF Reaches

-----------------------------------------------------------------------------
(* The hash table: what the calls do to it.                                *)

\* What kh_put makes of a table.
Entered(h, i, pair) ==
    [h EXCEPT !.at = Stored(@, i, pair),
              !.deleted = @ \ {i},
              !.size = @ + (IF i \in Live(h) THEN 0 ELSE 1),
              !.occupied = @ + (IF Empty(h, i) THEN 1 ELSE 0)]

\* The fields of that.
LEMMA EnteredFields ==
    ASSUME NEW h, SoundTable(h), NEW i, NEW pair, NEW g, g = Entered(h, i, pair)
    PROVE  /\ DOMAIN g = {"n", "at", "deleted", "size", "occupied", "upper"}
           /\ g.n = h.n /\ g.deleted = h.deleted \ {i} /\ g.upper = h.upper
           /\ g.at = Stored(h.at, i, pair)
           /\ g.size = h.size + (IF i \in Live(h) THEN 0 ELSE 1)
           /\ g.occupied = h.occupied + (IF Empty(h, i) THEN 1 ELSE 0)
           /\ Live(g) = Live(h) \cup {i}
           /\ g.at[i] = pair
           /\ \A j \in Live(h) \ {i} : g.at[j] = h.at[j]
<1>1. DOMAIN h = {"n", "at", "deleted", "size", "occupied", "upper"}
  BY DEF SoundTable, TableTypes
<1>2. /\ DOMAIN g = {"n", "at", "deleted", "size", "occupied", "upper"}
      /\ g.n = h.n /\ g.deleted = h.deleted \ {i} /\ g.upper = h.upper
      /\ g.at = Stored(h.at, i, pair)
      /\ g.size = h.size + (IF i \in Live(h) THEN 0 ELSE 1)
      /\ g.occupied = h.occupied + (IF Empty(h, i) THEN 1 ELSE 0)
  BY <1>1 DEF Entered
<1> QED
  BY <1>2 DEF Live, Stored

\* A pair that comes into the bucket that kh_put finds leaves the table sound.
LEMMA EnteredIsSound ==
    ASSUME NEW h, SoundTable(h), h.occupied < h.upper, NEW pair \in Pair
    PROVE  LET i == PutBucket(h, pair.key)
           IN  SoundTable(Entered(h, i, pair))
<1> DEFINE i == PutBucket(h, pair.key)
           g == Entered(h, i, pair)
           used == Live(h) \cup h.deleted
<1>0. pair.key \in Nat
  BY KHashAssumption
<1>1. /\ i \in 0..(h.n - 1)
      /\ i \in Live(h) => h.at[i].key = pair.key
      /\ i \notin Live(h) => \A j \in Live(h) : h.at[j].key # pair.key
      /\ Reaches(h.n, pair.key, i, used)
  BY <1>0, PutFinds
<1> HIDE DEF i
<1>2. /\ DOMAIN g = {"n", "at", "deleted", "size", "occupied", "upper"}
      /\ Live(g) = Live(h) \cup {i}
      /\ g.at[i] = pair
      /\ \A j \in Live(h) \ {i} : g.at[j] = h.at[j]
  BY EnteredFields
<1>3. /\ g.n = h.n /\ g.deleted = h.deleted \ {i} /\ g.upper = h.upper
      /\ g.at = Stored(h.at, i, pair)
      /\ g.size = h.size + (IF i \in Live(h) THEN 0 ELSE 1)
      /\ g.occupied = h.occupied + (IF Empty(h, i) THEN 1 ELSE 0)
  BY EnteredFields
<1> HIDE DEF g
<1>4. TableTypes(g)
  <2>1. DOMAIN g = {"n", "at", "deleted", "size", "occupied", "upper"}
    BY <1>2
  <2>2. g.at \in [Live(g) -> Pair]
    <3>1. h.at \in [Live(h) -> Pair]
      BY DEF SoundTable, TableTypes
    <3> QED
      BY <3>1, <1>2, <1>3 DEF Stored, Live
  <2> QED
    BY <2>1, <2>2, <1>1, <1>2, <1>3 DEF SoundTable, TableTypes
<1>5. TableCounts(g)
  <2>1. /\ IsFiniteSet(Live(h)) /\ IsFiniteSet(h.deleted)
        /\ Live(h) \cap h.deleted = {}
        /\ h.size = Cardinality(Live(h))
        /\ h.occupied = h.size + Cardinality(h.deleted)
        /\ h.upper = UpperBound(h.n) /\ h.upper \in Nat
        /\ h.size \in Nat /\ h.occupied \in Nat
    BY UsedFacts DEF SoundTable, TableCounts
  <2>2. Cardinality(h.deleted) \in Nat
    BY <2>1, FS_CardinalityType
  <2>3. Cardinality(Live(h) \cup {i}) = IF i \in Live(h) THEN h.size ELSE h.size + 1
    BY <2>1, FS_AddElement
  <2>4. Cardinality(h.deleted \ {i})
           = IF i \in h.deleted THEN Cardinality(h.deleted) - 1 ELSE Cardinality(h.deleted)
    BY <2>1, FS_RemoveElement
  <2>5. Empty(h, i) <=> (i \notin Live(h) /\ i \notin h.deleted)
    BY DEF Empty
  <2>6. g.size = Cardinality(Live(g))
    BY <2>1, <2>3, <1>2, <1>3, SMT
  <2>7. g.occupied = g.size + Cardinality(g.deleted)
    <3>1. CASE i \in Live(h)
      <4>1. i \notin h.deleted /\ ~ Empty(h, i)
        BY <3>1, <2>1, <2>5
      <4> QED
        BY <3>1, <4>1, <2>1, <2>2, <2>4, <1>3, SMT
    <3>2. CASE i \in h.deleted
      <4>1. i \notin Live(h) /\ ~ Empty(h, i)
        BY <3>2, <2>1, <2>5
      <4> QED
        BY <3>2, <4>1, <2>1, <2>2, <2>4, <1>3, SMT
    <3>3. CASE i \notin Live(h) /\ i \notin h.deleted
      <4>1. Empty(h, i)
        BY <3>3, <2>5
      <4> QED
        BY <3>3, <4>1, <2>1, <2>2, <2>4, <1>3, SMT
    <3> QED
      BY <3>1, <3>2, <3>3
  <2>8. g.occupied <= g.upper
    BY <2>1, <1>3, SMT
  <2>9. Live(g) \cap g.deleted = {}
    BY <2>1, <1>2, <1>3
  <2> QED
    BY <2>1, <2>6, <2>7, <2>8, <2>9, <1>3 DEF TableCounts
<1>6. TableFinds(g)
  <2>1. ASSUME NEW j \in Live(h), j # i
        PROVE  h.at[j].key # pair.key
    <3>1. CASE i \in Live(h)
      BY <3>1, <2>1, <1>1 DEF SoundTable, TableFinds
    <3>2. CASE i \notin Live(h)
      BY <3>2, <1>1
    <3> QED
      BY <3>1, <3>2
  <2>2. ASSUME NEW j \in Live(g), NEW k \in Live(g), g.at[j].key = g.at[k].key
        PROVE  j = k
    <3>1. CASE j = i /\ k = i
      BY <3>1
    <3>2. CASE j = i /\ k # i
      <4>1. k \in Live(h) /\ g.at[k] = h.at[k] /\ g.at[j] = pair
        BY <3>2, <1>2
      <4> QED
        BY <4>1, <3>2, <2>1, <2>2
    <3>3. CASE j # i /\ k = i
      <4>1. j \in Live(h) /\ g.at[j] = h.at[j] /\ g.at[k] = pair
        BY <3>3, <1>2
      <4> QED
        BY <4>1, <3>3, <2>1, <2>2
    <3>4. CASE j # i /\ k # i
      <4>1. j \in Live(h) /\ g.at[j] = h.at[j] /\ k \in Live(h) /\ g.at[k] = h.at[k]
        BY <3>4, <1>2
      <4> QED
        BY <4>1, <2>2 DEF SoundTable, TableFinds
    <3> QED
      BY <3>1, <3>2, <3>3, <3>4
  <2>3. used \subseteq Live(g) \cup g.deleted
    BY <1>2, <1>3
  <2>4. ASSUME NEW j \in Live(g)
        PROVE  Reaches(g.n, g.at[j].key, j, Live(g) \cup g.deleted)
    <3>1. CASE j = i
      <4>1. g.at[j].key = pair.key /\ g.n = h.n
        BY <3>1, <1>2, <1>3
      <4>2. Reaches(h.n, pair.key, i, Live(g) \cup g.deleted)
        BY <1>1, <2>3, ReachesMore
      <4> QED
        BY <3>1, <4>1, <4>2
    <3>2. CASE j # i
      <4>1. j \in Live(h) /\ g.at[j] = h.at[j]
        BY <3>2, <1>2
      <4>2. Reaches(h.n, h.at[j].key, j, used)
        BY <4>1 DEF SoundTable, TableFinds
      <4> QED
        BY <4>1, <4>2, <1>3, <2>3, ReachesMore
    <3> QED
      BY <3>1, <3>2
  <2> QED
    BY <2>2, <2>4 DEF TableFinds
<1> QED
  BY <1>4, <1>5, <1>6 DEF SoundTable, g, i

\* What kh_del makes of one.
Without(h, i) ==
    [h EXCEPT !.at = [j \in Live(h) \ {i} |-> @[j]],
              !.deleted = @ \cup {i},
              !.size = @ - 1]

\* The fields of that.
LEMMA WithoutFields ==
    ASSUME NEW h, SoundTable(h), NEW i, NEW g, g = Without(h, i)
    PROVE  /\ DOMAIN g = {"n", "at", "deleted", "size", "occupied", "upper"}
           /\ g.n = h.n /\ g.deleted = h.deleted \cup {i} /\ g.upper = h.upper
           /\ g.at = [j \in Live(h) \ {i} |-> h.at[j]]
           /\ g.size = h.size - 1 /\ g.occupied = h.occupied
           /\ Live(g) = Live(h) \ {i}
           /\ \A j \in Live(h) \ {i} : g.at[j] = h.at[j]
<1>1. DOMAIN h = {"n", "at", "deleted", "size", "occupied", "upper"}
  BY DEF SoundTable, TableTypes
<1>2. /\ DOMAIN g = {"n", "at", "deleted", "size", "occupied", "upper"}
      /\ g.n = h.n /\ g.deleted = h.deleted \cup {i} /\ g.upper = h.upper
      /\ g.at = [j \in Live(h) \ {i} |-> h.at[j]]
      /\ g.size = h.size - 1 /\ g.occupied = h.occupied
  BY <1>1 DEF Without
<1> QED
  BY <1>2 DEF Live

\* A pair that is marked deleted leaves the table sound.
LEMMA WithoutIsSound ==
    ASSUME NEW h, SoundTable(h), NEW i \in Live(h)
    PROVE  SoundTable(Without(h, i))
<1> DEFINE g == Without(h, i)
           used == Live(h) \cup h.deleted
<1>0. g = Without(h, i)
  OBVIOUS
<1> HIDE DEF g
<1>1. /\ DOMAIN g = {"n", "at", "deleted", "size", "occupied", "upper"}
      /\ Live(g) = Live(h) \ {i}
  BY <1>0, WithoutFields
<1>2. /\ g.n = h.n /\ g.deleted = h.deleted \cup {i} /\ g.upper = h.upper
      /\ g.at = [j \in Live(h) \ {i} |-> h.at[j]]
      /\ g.size = h.size - 1 /\ g.occupied = h.occupied
  BY <1>0, WithoutFields
<1>6. \A j \in Live(g) : j \in Live(h) /\ g.at[j] = h.at[j]
  BY <1>1, <1>2
<1>3. TableTypes(g)
  <2>1. DOMAIN g = {"n", "at", "deleted", "size", "occupied", "upper"}
    BY <1>1
  <2>2. h.at \in [Live(h) -> Pair]
    BY DEF SoundTable, TableTypes
  <2>3. g.at \in [Live(g) -> Pair]
    BY <2>2, <1>1, <1>2
  <2> QED
    BY <2>1, <2>3, <1>1, <1>2 DEF SoundTable, TableTypes
<1>4. TableCounts(g)
  <2>1. /\ IsFiniteSet(Live(h)) /\ IsFiniteSet(h.deleted)
        /\ Live(h) \cap h.deleted = {}
        /\ h.size = Cardinality(Live(h))
        /\ h.occupied = h.size + Cardinality(h.deleted)
        /\ h.upper = UpperBound(h.n) /\ h.occupied <= h.upper
        /\ h.size \in Nat /\ h.occupied \in Nat
    BY UsedFacts DEF SoundTable, TableCounts
  <2>2. Cardinality(h.deleted) \in Nat
    BY <2>1, FS_CardinalityType
  <2>3. Cardinality(Live(h) \ {i}) = h.size - 1
    BY <2>1, FS_RemoveElement
  <2>4. Cardinality(h.deleted \cup {i}) = Cardinality(h.deleted) + 1
    <3>1. i \notin h.deleted
      BY <2>1
    <3> QED
      BY <2>1, <3>1, FS_AddElement
  <2>5. g.occupied = g.size + Cardinality(g.deleted)
    BY <2>1, <2>2, <2>4, <1>2, SMT
  <2> QED
    BY <2>1, <2>3, <2>5, <1>1, <1>2 DEF TableCounts
<1>5. TableFinds(g)
  <2>1. used \subseteq Live(g) \cup g.deleted
    BY <1>1, <1>2
  <2>2. ASSUME NEW j \in Live(g)
        PROVE  Reaches(g.n, g.at[j].key, j, Live(g) \cup g.deleted)
    <3>1. j \in Live(h) /\ g.at[j] = h.at[j]
      BY <1>6
    <3>2. Reaches(h.n, h.at[j].key, j, used)
      BY <3>1 DEF SoundTable, TableFinds
    <3> QED
      BY <3>1, <3>2, <1>2, <2>1, ReachesMore
  <2>3. ASSUME NEW j \in Live(g), NEW k \in Live(g), g.at[j].key = g.at[k].key
        PROVE  j = k
    <3>1. j \in Live(h) /\ g.at[j] = h.at[j] /\ k \in Live(h) /\ g.at[k] = h.at[k]
      BY <1>6
    <3> QED
      BY <3>1, <2>3 DEF SoundTable, TableFinds
  <2> QED
    BY <2>2, <2>3 DEF TableFinds
<1> QED
  BY <1>3, <1>4, <1>5 DEF SoundTable, g

\* What kh_clear makes of one.
Cleared(h) == [h EXCEPT !.at = <<>>, !.deleted = {}, !.size = 0, !.occupied = 0]

\* It is sound, with nothing in it.
LEMMA ClearedIsSound ==
    ASSUME NEW h, SoundTable(h)
    PROVE  SoundTable(Cleared(h)) /\ Live(Cleared(h)) = {} /\ Cleared(h).n = h.n
<1> DEFINE g == Cleared(h)
<1>1. DOMAIN h = {"n", "at", "deleted", "size", "occupied", "upper"}
  BY DEF SoundTable, TableTypes
<1>2. DOMAIN g = {"n", "at", "deleted", "size", "occupied", "upper"}
  BY <1>1 DEF Cleared
<1>9. /\ g.n = h.n /\ g.at = <<>> /\ g.deleted = {} /\ g.size = 0 /\ g.occupied = 0
      /\ g.upper = h.upper
  BY <1>1 DEF Cleared
<1> HIDE DEF g
<1>4. Live(g) = {} /\ g.at \in [Live(g) -> Pair]
  BY <1>9 DEF Live
<1>5. TableTypes(g)
  BY <1>2, <1>9, <1>4 DEF SoundTable, TableTypes
<1>6. TableCounts(g)
  <2>1. h.upper = UpperBound(h.n) /\ UpperBound(h.n) \in Nat
    BY UsedFacts DEF SoundTable, TableCounts
  <2>2. 0 <= h.upper /\ 0 = 0 + 0
    BY <2>1, SMT
  <2>3. Cardinality({}) = 0
    BY FS_EmptySet
  <2> QED
    BY <2>1, <2>2, <2>3, <1>9, <1>4 DEF TableCounts
<1>7. TableFinds(g)
  BY <1>4 DEF TableFinds
<1> QED
  BY <1>9, <1>4, <1>5, <1>6, <1>7 DEF SoundTable, g

-----------------------------------------------------------------------------
(* The hash table: what the moves of kh_resize do.                         *)

\* A set whose elements are all the same has none or one.
LEMMA OneAtMost ==
    ASSUME NEW S, \A p, q \in S : p = q
    PROVE  /\ IsFiniteSet(S)
           /\ \A p \in S : S = {p} /\ Cardinality(S) = 1
           /\ S = {} => Cardinality(S) = 0
<1>1. CASE S = {}
  BY <1>1, FS_EmptySet
<1>2. CASE S # {}
  <2>1. PICK p \in S : TRUE
    BY <1>2
  <2>2. S = {p}
    BY <2>1
  <2>3. IsFiniteSet({p}) /\ Cardinality({p}) = 1
    BY FS_Singleton
  <2> QED
    BY <2>2, <2>3
<1> QED
  BY <1>1, <1>2

\* The sets of a move are finite.
LEMMA MoveSets ==
    ASSUME NEW h, SoundTable(h), NEW m, SoundMove(m, h)
    PROVE  /\ IsFiniteSet(m.used) /\ IsFiniteSet(m.old) /\ IsFiniteSet(m.hand)
           /\ Cardinality(m.used) \in Nat /\ Cardinality(m.old) \in Nat
           /\ Cardinality(m.hand) \in Nat
           /\ m.old \subseteq Nat
           /\ h.size \in Nat /\ m.n \in Nat /\ m.n >= 4
<1>1. m.used \subseteq 0..(m.n - 1) /\ m.old \subseteq Live(h) /\ m.n \in Nat /\ m.n >= 4
  BY DEF SoundMove, MoveTypes, Sized
<1>2. IsFiniteSet(m.used)
  <2>1. IsFiniteSet(0..(m.n - 1))
    <3>1. 0 \in Int /\ m.n - 1 \in Int
      BY <1>1, SMT
    <3> QED
      BY <3>1, FS_Interval
  <2> QED
    BY <1>1, <2>1, FS_Subset
<1>3. IsFiniteSet(m.old)
  BY <1>1, UsedFacts, FS_Subset
<1>4. IsFiniteSet(m.hand)
  BY OneAtMost DEF SoundMove, MoveTypes
<1>5. m.old \subseteq Nat
  <2>1. Live(h) \subseteq 0..(h.n - 1) /\ h.n \in Nat
    BY UsedFacts
  <2>2. 0..(h.n - 1) \subseteq Nat
    BY <2>1, SMT
  <2> QED
    BY <2>1, <2>2, <1>1
<1> QED
  BY <1>1, <1>2, <1>3, <1>4, <1>5, UsedFacts, FS_CardinalityType

\* A move begins with everything in the old table.
LEMMA MoveBegins ==
    ASSUME NEW h, SoundTable(h), NEW n, Sized(n), h.size < UpperBound(n)
    PROVE  SoundMove([n |-> n, used |-> {}, old |-> Live(h), at |-> h.at,
                      hand |-> {}], h)
<1> DEFINE m == [n |-> n, used |-> {}, old |-> Live(h), at |-> h.at, hand |-> {}]
<1>1. /\ DOMAIN m = {"n", "used", "old", "at", "hand"}
      /\ m.n = n /\ m.used = {} /\ m.old = Live(h) /\ m.at = h.at /\ m.hand = {}
  OBVIOUS
<1> HIDE DEF m
<1>2. MoveTypes(m, h)
  <2>1. h.at \in [Live(h) -> Pair] /\ DOMAIN h.at = Live(h)
    BY DEF SoundTable, TableTypes
  <2> QED
    BY <1>1, <2>1 DEF MoveTypes
<1>3. MoveCounts(m, h)
  <2>1. Cardinality({}) = 0 /\ h.size = Cardinality(Live(h)) /\ h.size \in Nat
    BY FS_EmptySet, UsedFacts DEF SoundTable, TableCounts
  <2>2. 0 + h.size + 0 = h.size
    BY <2>1, SMT
  <2> QED
    BY <1>1, <2>1, <2>2 DEF MoveCounts
<1>4. MoveKeeps(m, h)
  BY <1>1 DEF MoveKeeps, SoundTable, TableFinds
<1> QED
  BY <1>2, <1>3, <1>4 DEF SoundMove, m

\* A pair of the old table is taken in hand.
LEMMA TakenOutIsSound ==
    ASSUME NEW h, SoundTable(h), NEW m, SoundMove(m, h), m.hand = {}, NEW j \in m.old
    PROVE  SoundMove([m EXCEPT !.old = @ \ {j}, !.hand = {m.at[j]}], h)
<1> DEFINE g == [m EXCEPT !.old = @ \ {j}, !.hand = {m.at[j]}]
<1>1. /\ DOMAIN g = {"n", "used", "old", "at", "hand"}
      /\ g.n = m.n /\ g.used = m.used /\ g.old = m.old \ {j} /\ g.at = m.at
      /\ g.hand = {m.at[j]}
  BY DEF SoundMove, MoveTypes
<1> HIDE DEF g
<1>2. /\ m.at \in [DOMAIN m.at -> Pair] /\ m.used \cup m.old \subseteq DOMAIN m.at
      /\ m.used \cap m.old = {}
      /\ \A k, l \in m.used \cup m.old : m.at[k].key = m.at[l].key => k = l
  BY DEF SoundMove, MoveTypes, MoveCounts, MoveKeeps
<1>3. MoveTypes(g, h)
  <2>1. m.at[j] \in Pair
    BY <1>2
  <2> QED
    BY <1>1, <2>1 DEF SoundMove, MoveTypes
<1>4. MoveCounts(g, h)
  <2>1. Cardinality(g.old) = Cardinality(m.old) - 1
    <3>1. IsFiniteSet(m.old)
      BY MoveSets
    <3>2. Cardinality(m.old \ {j}) = Cardinality(m.old) - 1
      BY <3>1, FS_RemoveElement
    <3> QED
      BY <3>2, <1>1
  <2>2. Cardinality(g.hand) = 1 /\ Cardinality(m.hand) = 0
    <3>1. Cardinality({m.at[j]}) = 1 /\ Cardinality({}) = 0
      BY FS_Singleton, FS_EmptySet
    <3> QED
      BY <3>1, <1>1
  <2>3. Cardinality(g.used) = Cardinality(m.used) /\ g.used \cap g.old = {} /\ g.n = m.n
    BY <1>1, <1>2
  <2>4. Cardinality(m.used) + Cardinality(m.old) + Cardinality(m.hand) = h.size
    BY DEF SoundMove, MoveCounts
  <2>5. Cardinality(m.used) \in Nat /\ Cardinality(m.old) \in Nat
    BY MoveSets
  <2>6. Cardinality(g.used) + Cardinality(g.old) + Cardinality(g.hand) = h.size
    BY <2>1, <2>2, <2>3, <2>4, <2>5, SMT
  <2> QED
    BY <2>3, <2>6 DEF SoundMove, MoveCounts
<1>5. MoveKeeps(g, h)
  <2>1. {g.at[i] : i \in g.used \cup g.old} \cup g.hand
           = {m.at[i] : i \in m.used \cup m.old} \cup m.hand
    <3>1. g.used \cup g.old \cup {j} = m.used \cup m.old
      BY <1>1
    <3>2. {g.at[i] : i \in g.used \cup g.old} \cup g.hand
             = {m.at[i] : i \in g.used \cup g.old \cup {j}}
      BY <1>1
    <3> QED
      BY <3>1, <3>2
  <2>2. \A p \in g.hand, i \in g.used \cup g.old : g.at[i].key # p.key
    <3> SUFFICES ASSUME NEW i \in g.used \cup g.old, g.at[i].key = m.at[j].key
                 PROVE  FALSE
      BY <1>1
    <3>1. i \in m.used \cup m.old /\ j \in m.used \cup m.old /\ i # j
      BY <1>1, <1>2
    <3> QED
      BY <1>1, <1>2, <3>1
  <2> QED
    BY <1>1, <2>1, <2>2 DEF SoundMove, MoveKeeps
<1> QED
  BY <1>3, <1>4, <1>5 DEF SoundMove, g

\* The pair in hand comes to a bucket that is free, and in hand comes what was
\* there.
LEMMA PutInIsSound ==
    ASSUME NEW h, SoundTable(h), NEW m, SoundMove(m, h), NEW pair \in m.hand,
           NEW i \in 0..(m.n - 1), i \notin m.used, Reaches(m.n, pair.key, i, m.used)
    PROVE  SoundMove([m EXCEPT !.used = @ \cup {i}, !.old = @ \ {i},
                               !.at = Stored(@, i, pair),
                               !.hand = IF i \in m.old THEN {m.at[i]} ELSE {}], h)
<1> DEFINE g == [m EXCEPT !.used = @ \cup {i}, !.old = @ \ {i},
                          !.at = Stored(@, i, pair),
                          !.hand = IF i \in m.old THEN {m.at[i]} ELSE {}]
<1>1. /\ DOMAIN g = {"n", "used", "old", "at", "hand"}
      /\ g.n = m.n /\ g.used = m.used \cup {i} /\ g.old = m.old \ {i}
      /\ g.at = Stored(m.at, i, pair)
      /\ g.hand = IF i \in m.old THEN {m.at[i]} ELSE {}
  BY DEF SoundMove, MoveTypes
<1> HIDE DEF g
<1> DEFINE K == m.used \cup m.old
           L == g.used \cup g.old
<1>2. /\ m.at \in [DOMAIN m.at -> Pair] /\ K \subseteq DOMAIN m.at
      /\ m.used \cap m.old = {} /\ m.hand \subseteq Pair /\ m.hand = {pair}
      /\ \A k, l \in K : m.at[k].key = m.at[l].key => k = l
      /\ \A k \in K : m.at[k].key # pair.key
  BY DEF SoundMove, MoveTypes, MoveCounts, MoveKeeps
<1>3. /\ DOMAIN g.at = DOMAIN m.at \cup {i}
      /\ g.at[i] = pair
      /\ \A k \in DOMAIN m.at \ {i} : g.at[k] = m.at[k]
  BY <1>1 DEF Stored
<1>4. L = K \cup {i}
  BY <1>1
<1>5. \A k \in L : k # i => k \in K /\ g.at[k] = m.at[k]
  BY <1>2, <1>3, <1>4
<1>6. MoveTypes(g, h)
  <2>1. g.at \in [DOMAIN g.at -> Pair]
    BY <1>1, <1>2, <1>3 DEF Stored
  <2>2. g.hand \subseteq Pair /\ \A p, q \in g.hand : p = q
    BY <1>1, <1>2
  <2>3. L \subseteq DOMAIN g.at
    BY <1>2, <1>3, <1>4
  <2>4. g.used \subseteq 0..(g.n - 1) /\ g.old \subseteq Live(h) /\ Sized(g.n)
    BY <1>1 DEF SoundMove, MoveTypes
  <2> QED
    BY <1>1, <2>1, <2>2, <2>3, <2>4 DEF MoveTypes
<1>7. MoveCounts(g, h)
  <2>0. IsFiniteSet(m.used) /\ IsFiniteSet(m.old)
    BY MoveSets
  <2>1. Cardinality(g.used) = Cardinality(m.used) + 1
    <3>1. Cardinality(m.used \cup {i}) = Cardinality(m.used) + 1
      BY <2>0, FS_AddElement
    <3> QED
      BY <3>1, <1>1
  <2>2. Cardinality(g.old)
           = IF i \in m.old THEN Cardinality(m.old) - 1 ELSE Cardinality(m.old)
    <3>1. Cardinality(m.old \ {i})
             = IF i \in m.old THEN Cardinality(m.old) - 1 ELSE Cardinality(m.old)
      BY <2>0, FS_RemoveElement
    <3> QED
      BY <3>1, <1>1
  <2>3. Cardinality(g.hand) = (IF i \in m.old THEN 1 ELSE 0) /\ Cardinality(m.hand) = 1
    <3>1. /\ Cardinality({m.at[i]}) = 1 /\ Cardinality({pair}) = 1
          /\ Cardinality({}) = 0
      BY FS_Singleton, FS_EmptySet
    <3> QED
      BY <3>1, <1>1, <1>2
  <2>4. /\ Cardinality(m.used) + Cardinality(m.old) + Cardinality(m.hand) = h.size
        /\ h.size < UpperBound(m.n)
    BY DEF SoundMove, MoveCounts
  <2>5. Cardinality(m.used) \in Nat /\ Cardinality(m.old) \in Nat
    BY MoveSets
  <2>6. Cardinality(g.used) + Cardinality(g.old) + Cardinality(g.hand) = h.size
    BY <2>1, <2>2, <2>3, <2>4, <2>5, SMT
  <2>7. g.used \cap g.old = {} /\ g.n = m.n
    BY <1>1, <1>2
  <2> QED
    BY <2>4, <2>6, <2>7 DEF MoveCounts
<1>8. MoveKeeps(g, h)
  <2>1. {g.at[k] : k \in L} \cup g.hand = {m.at[k] : k \in K} \cup m.hand
    <3>1. ASSUME NEW p \in {g.at[k] : k \in L} \cup g.hand
          PROVE  p \in {m.at[k] : k \in K} \cup m.hand
      <4>1. CASE p \in g.hand
        BY <4>1, <1>1
      <4>2. CASE p \notin g.hand
        <5>1. PICK k \in L : p = g.at[k]
          BY <4>2
        <5> QED
          BY <5>1, <1>2, <1>3, <1>5
      <4> QED
        BY <4>1, <4>2
    <3>2. ASSUME NEW p \in {m.at[k] : k \in K} \cup m.hand
          PROVE  p \in {g.at[k] : k \in L} \cup g.hand
      <4>1. CASE p \in m.hand
        BY <4>1, <1>2, <1>3, <1>4
      <4>2. CASE p \notin m.hand
        <5>1. PICK k \in K : p = m.at[k]
          BY <4>2
        <5>2. CASE k = i
          <6>1. i \in m.old
            BY <5>1, <5>2
          <6> QED
            BY <5>1, <5>2, <6>1, <1>1
        <5>3. CASE k # i
          <6>1. k \in L /\ g.at[k] = m.at[k]
            BY <5>1, <5>3, <1>4, <1>5
          <6> QED
            BY <5>1, <6>1
        <5> QED
          BY <5>2, <5>3
      <4> QED
        BY <4>1, <4>2
    <3> QED
      BY <3>1, <3>2
  <2>2. ASSUME NEW k \in L, NEW l \in L, g.at[k].key = g.at[l].key
        PROVE  k = l
    BY <2>2, <1>2, <1>3, <1>5
  <2>3. ASSUME NEW p \in g.hand, NEW k \in L
        PROVE  g.at[k].key # p.key
    <3>1. i \in m.old /\ p = m.at[i]
      BY <1>1, <2>3
    <3>2. CASE k = i
      BY <3>1, <3>2, <1>2, <1>3
    <3>3. CASE k # i
      <4>1. k \in K /\ g.at[k] = m.at[k] /\ i \in K
        BY <3>1, <3>3, <1>5
      <4> QED
        BY <3>1, <3>3, <4>1, <1>2
    <3> QED
      BY <3>2, <3>3
  <2>4. ASSUME NEW k \in g.used
        PROVE  Reaches(g.n, g.at[k].key, k, g.used)
    <3>1. m.used \subseteq g.used /\ g.n = m.n
      BY <1>1
    <3>2. CASE k = i
      <4>1. g.at[k].key = pair.key
        BY <3>2, <1>3
      <4>2. Reaches(m.n, pair.key, i, g.used)
        BY <3>1, ReachesMore
      <4> QED
        BY <3>1, <3>2, <4>1, <4>2
    <3>3. CASE k # i
      <4>1. k \in m.used /\ g.at[k] = m.at[k]
        BY <3>3, <1>1, <1>5
      <4>2. Reaches(m.n, m.at[k].key, k, m.used)
        BY <4>1 DEF SoundMove, MoveKeeps
      <4>3. Reaches(m.n, m.at[k].key, k, g.used)
        BY <4>2, <3>1, ReachesMore
      <4> QED
        BY <3>1, <4>1, <4>3
    <3> QED
      BY <3>2, <3>3
  <2> QED
    BY <2>1, <2>2, <2>3, <2>4 DEF SoundMove, MoveKeeps
<1> QED
  BY <1>6, <1>7, <1>8 DEF SoundMove, g

\* Whenever a pair is in hand there is a free bucket for it.
LEMMA FreeForHand ==
    ASSUME NEW h, SoundTable(h), NEW m, SoundMove(m, h), NEW pair \in m.hand
    PROVE  \E s \in Steps(m.n) : Probe(m.n, pair.key, s) \notin m.used
<1>1. Cardinality(m.used) < m.n
  <2>1. /\ Cardinality(m.used) + Cardinality(m.old) + Cardinality(m.hand) = h.size
        /\ h.size < UpperBound(m.n)
    BY DEF SoundMove, MoveCounts
  <2>2. UpperBound(m.n) < m.n /\ UpperBound(m.n) \in Nat
    BY MoveSets, UpperFacts
  <2>3. /\ Cardinality(m.used) \in Nat /\ Cardinality(m.old) \in Nat
        /\ Cardinality(m.hand) \in Nat /\ h.size \in Nat /\ m.n \in Nat
    BY MoveSets
  <2> QED
    BY <2>1, <2>2, <2>3, SMT
<1>2. pair.key \in Nat
  BY KHashAssumption DEF SoundMove, MoveTypes
<1> QED
  BY <1>1, <1>2, FreeBucket DEF SoundMove, MoveTypes

\* That is where it goes.
LEMMA NewBucketFacts ==
    ASSUME SoundTable(hash), SoundMove(move, hash), NEW pair \in move.hand
    PROVE  /\ NewBucket(pair.key) \in 0..(move.n - 1)
           /\ NewBucket(pair.key) \notin move.used
           /\ Reaches(move.n, pair.key, NewBucket(pair.key), move.used)
<1> DEFINE n == move.n
           key == pair.key
           S == {s \in Steps(n) : Probe(n, key, s) \notin move.used}
           t == Min(S)
<1>1. n \in Nat /\ n >= 4
  BY MoveSets
<1>2. S # {}
  BY FreeForHand
<1>3. key \in Nat
  BY KHashAssumption DEF SoundMove, MoveTypes
<1>4. S \subseteq Nat
  BY <1>1, SMT DEF Steps
<1>5. t \in S /\ \A y \in S : t <= y
  <2> HIDE DEF S
  <2> QED
    BY <1>2, <1>4, MinIsLeast
<1>6. t \in Steps(n) /\ t \in Nat /\ Probe(n, key, t) \notin move.used
  BY <1>4, <1>5
<1>7. ASSUME NEW r \in 0..(t - 1)
      PROVE  Probe(n, key, r) \in move.used
  <2>1. r \in Steps(n) /\ r \in Nat /\ ~ (t <= r)
    <3> HIDE DEF t, S, n
    <3> QED
      BY <1>1, <1>6, SMT DEF Steps
  <2> QED
    BY <2>1, <1>5
<1>8. Probe(n, key, t) \in 0..(n - 1)
  <2> HIDE DEF t, S, n, key
  <2>1. n >= 1
    BY <1>1, SMT
  <2> QED
    BY <2>1, <1>1, <1>3, <1>6, ProbeType
<1>9. NewBucket(key) = Probe(n, key, t)
  BY DEF NewBucket
<1>10. Reaches(n, key, Probe(n, key, t), move.used)
  <2> HIDE DEF t, S, n, key
  <2> QED
    BY <1>6, <1>7 DEF Reaches
<1> QED
  BY <1>6, <1>8, <1>9, <1>10

\* What is in a table.
PairsOf(h) == {h.at[i] : i \in Live(h)}

\* The table that a move makes.
Moved(m, h) ==
    [n |-> m.n, at |-> [i \in m.used |-> m.at[i]], deleted |-> {},
     size |-> h.size, occupied |-> h.size, upper |-> UpperBound(m.n)]

\* When it is over, that has room, and the same pairs.
LEMMA EndOfMove ==
    ASSUME NEW h, SoundTable(h), NEW m, SoundMove(m, h), m.hand = {}, m.old = {},
           NEW g, g = Moved(m, h)
    PROVE  /\ SoundTable(g)
           /\ g.occupied < g.upper
           /\ PairsOf(g) = PairsOf(h)
<1>1. /\ DOMAIN g = {"n", "at", "deleted", "size", "occupied", "upper"}
      /\ g.n = m.n /\ g.at = [i \in m.used |-> m.at[i]] /\ g.deleted = {}
      /\ g.size = h.size /\ g.occupied = h.size /\ g.upper = UpperBound(m.n)
  BY DEF Moved
<1>2. Live(g) = m.used /\ \A i \in m.used : g.at[i] = m.at[i]
  BY <1>1 DEF Live
<1>3. /\ m.at \in [DOMAIN m.at -> Pair] /\ m.used \subseteq DOMAIN m.at
      /\ m.used \subseteq 0..(m.n - 1) /\ Sized(m.n)
  BY DEF SoundMove, MoveTypes
<1>4. h.size < UpperBound(m.n) /\ Cardinality(m.used) = h.size
  <2>1. /\ Cardinality(m.used) + Cardinality(m.old) + Cardinality(m.hand) = h.size
        /\ h.size < UpperBound(m.n)
    BY DEF SoundMove, MoveCounts
  <2>2. Cardinality({}) = 0
    BY FS_EmptySet
  <2>3. Cardinality(m.used) \in Nat
    BY MoveSets
  <2> QED
    BY <2>1, <2>2, <2>3, SMT
<1>5. TableTypes(g)
  <2>1. g.at \in [Live(g) -> Pair]
    BY <1>1, <1>2, <1>3
  <2> QED
    BY <1>1, <1>2, <1>3, <2>1 DEF TableTypes
<1>6. TableCounts(g)
  <2>1. Cardinality({}) = 0
    BY FS_EmptySet
  <2>2. h.size \in Nat /\ UpperBound(m.n) \in Nat
    BY MoveSets, UpperFacts
  <2>3. h.size = h.size + 0 /\ h.size <= UpperBound(m.n)
    BY <2>2, <1>4, SMT
  <2> QED
    BY <1>1, <1>2, <1>4, <2>1, <2>3 DEF TableCounts
<1>7. {m.at[i] : i \in m.used} = {h.at[i] : i \in Live(h)}
  BY DEF SoundMove, MoveKeeps
<1>8. TableFinds(g)
  <2>1. \A i, j \in m.used : m.at[i].key = m.at[j].key => i = j
    BY DEF SoundMove, MoveKeeps
  <2>2. \A i \in m.used : Reaches(m.n, m.at[i].key, i, m.used)
    BY DEF SoundMove, MoveKeeps
  <2>3. Live(g) \cup g.deleted = m.used
    BY <1>1, <1>2
  <2> QED
    BY <2>1, <2>2, <2>3, <1>1, <1>2 DEF TableFinds
<1>9. {g.at[i] : i \in Live(g)} = {m.at[i] : i \in m.used}
  BY <1>2
<1> QED
  BY <1>1, <1>4, <1>5, <1>6, <1>7, <1>8, <1>9 DEF SoundTable, PairsOf

-----------------------------------------------------------------------------
(* The hash table: the map that it is.                                     *)

MapOf(h) ==
    [k \in {h.at[i].key : i \in Live(h)} |->
        h.at[CHOOSE i \in Live(h) : h.at[i].key = k].value]

\* What a map has for a key.
AtKey(f, k) == IF k \in DOMAIN f THEN f[k] ELSE Nothing

\* One with another value for a key, and one without it.
With(f, k, v) == [b \in DOMAIN f \cup {k} |-> IF b = k THEN v ELSE f[b]]
NotAt(f, k) == [b \in DOMAIN f \ {k} |-> f[b]]

\* A sequence of its keys.
GoesThrough(ks, f) ==
    /\ DOMAIN ks = 1..Cardinality(DOMAIN f)
    /\ {ks[i] : i \in DOMAIN ks} = DOMAIN f

\* The order of kh_foreach.
InOrder(S) ==
    CHOOSE p \in [1..Cardinality(S) -> S] : \A i, j \in DOMAIN p : i < j => p[i] < p[j]

\* It has the keys of the live buckets, and for each the value that is there.
LEMMA MapAt ==
    ASSUME NEW h, SoundTable(h)
    PROVE  /\ DOMAIN MapOf(h) = {h.at[i].key : i \in Live(h)}
           /\ \A i \in Live(h) : MapOf(h)[h.at[i].key] = h.at[i].value
<1>1. DOMAIN MapOf(h) = {h.at[i].key : i \in Live(h)}
  BY DEF MapOf
<1>2. ASSUME NEW i \in Live(h)
      PROVE  MapOf(h)[h.at[i].key] = h.at[i].value
  <2> DEFINE k == h.at[i].key
             j == CHOOSE b \in Live(h) : h.at[b].key = k
  <2>1. j \in Live(h) /\ h.at[j].key = h.at[i].key
    OBVIOUS
  <2>2. j = i
    <3> HIDE DEF j
    <3> QED
      BY <2>1 DEF SoundTable, TableFinds
  <2>3. MapOf(h)[k] = h.at[j].value
    BY DEF MapOf
  <2> QED
    BY <2>2, <2>3
<1> QED
  BY <1>1, <1>2

\* There is but one such function.
LEMMA MapIs ==
    ASSUME NEW h, SoundTable(h), NEW K, NEW f, f \in [K -> {f[k] : k \in K}],
           K = {h.at[i].key : i \in Live(h)},
           \A i \in Live(h) : f[h.at[i].key] = h.at[i].value
    PROVE  MapOf(h) = f
<1>1. ASSUME NEW k \in K
      PROVE  MapOf(h)[k] = f[k]
  <2>1. PICK i \in Live(h) : k = h.at[i].key
    OBVIOUS
  <2>2. MapOf(h)[h.at[i].key] = h.at[i].value
    BY MapAt
  <2> QED
    BY <2>1, <2>2
<1>2. MapOf(h) = [k \in K |-> MapOf(h)[k]]
  BY DEF MapOf
<1>3. f = [k \in K |-> f[k]]
  OBVIOUS
<1> QED
  BY <1>1, <1>2, <1>3

\* Where the pairs of a table are does not tell.
LEMMA SamePairs ==
    ASSUME NEW h, SoundTable(h), NEW g, SoundTable(g),
           PairsOf(g) = PairsOf(h)
    PROVE  MapOf(g) = MapOf(h)
<1> DEFINE f == MapOf(h)
           K == {h.at[i].key : i \in Live(h)}
<1>1. DOMAIN f = K /\ \A i \in Live(h) : f[h.at[i].key] = h.at[i].value
  BY MapAt
<1>2. f = [k \in K |-> f[k]]
  BY DEF MapOf
<1> HIDE DEF f
<1>3. f \in [K -> {f[k] : k \in K}]
  BY <1>2
<1>4. \A i \in Live(g) : \E j \in Live(h) : g.at[i] = h.at[j]
  BY DEF PairsOf
<1>5. \A j \in Live(h) : \E i \in Live(g) : g.at[i] = h.at[j]
  BY DEF PairsOf
<1>6. K = {g.at[i].key : i \in Live(g)}
  BY <1>4, <1>5
<1>7. \A i \in Live(g) : f[g.at[i].key] = g.at[i].value
  BY <1>1, <1>4
<1>8. MapOf(g) = f
  <2> HIDE DEF K
  <2> QED
    BY <1>3, <1>6, <1>7, MapIs
<1> QED
  BY <1>8 DEF f

\* kh_get finds what the map has.
LEMMA GetIsAt ==
    ASSUME NEW h, SoundTable(h), NEW key \in Nat
    PROVE  ValueAt(h, GetBucket(h, key)) = AtKey(MapOf(h), key)
<1> DEFINE i == GetBucket(h, key)
<1>1. /\ i \in Live(h) => h.at[i].key = key
      /\ i \notin Live(h) => \A j \in Live(h) : h.at[j].key # key
  BY GetFindsKey
<1> HIDE DEF i
<1>2. ValueAt(h, i) = AtKey(MapOf(h), key)
  <2> DEFINE old == MapOf(h)
  <2>1. /\ DOMAIN old = {h.at[j].key : j \in Live(h)}
        /\ \A j \in Live(h) : old[h.at[j].key] = h.at[j].value
    BY MapAt
  <2> HIDE DEF old
  <2>2. CASE i \in Live(h)
    <3>1. key \in DOMAIN old
      BY <2>1, <2>2, <1>1
    <3>2. old[key] = h.at[i].value
      BY <2>1, <2>2, <1>1
    <3> QED
      BY <2>2, <3>1, <3>2 DEF ValueAt, AtKey, old
  <2>3. CASE i \notin Live(h)
    <3>1. key \notin DOMAIN old
      BY <2>1, <2>3, <1>1
    <3> QED
      BY <2>3, <3>1 DEF ValueAt, AtKey, old
  <2> QED
    BY <2>2, <2>3
<1> QED
  BY <1>2 DEF i

\* kh_put finds what the map has, and puts its value in place of it.
LEMMA PutIsOverwrite ==
    ASSUME NEW h, SoundTable(h), h.occupied < h.upper, NEW pair \in Pair,
           NEW i, i = PutBucket(h, pair.key), NEW g, g = Entered(h, i, pair)
    PROVE  /\ ValueAt(h, i) = AtKey(MapOf(h), pair.key)
           /\ MapOf(g) = With(MapOf(h), pair.key, pair.value)
<1>0. pair.key \in Nat
  BY KHashAssumption
<1>1. /\ i \in Live(h) => h.at[i].key = pair.key
      /\ i \notin Live(h) => \A j \in Live(h) : h.at[j].key # pair.key
  BY <1>0, PutFinds
<1>2. ValueAt(h, i) = AtKey(MapOf(h), pair.key)
  <2> DEFINE old == MapOf(h)
  <2>1. /\ DOMAIN old = {h.at[j].key : j \in Live(h)}
        /\ \A j \in Live(h) : old[h.at[j].key] = h.at[j].value
    BY MapAt
  <2> HIDE DEF old
  <2>2. CASE i \in Live(h)
    <3>1. pair.key \in DOMAIN old
      BY <2>1, <2>2, <1>1
    <3>2. old[pair.key] = h.at[i].value
      BY <2>1, <2>2, <1>1
    <3> QED
      BY <2>2, <3>1, <3>2 DEF ValueAt, AtKey, old
  <2>3. CASE i \notin Live(h)
    <3>1. pair.key \notin DOMAIN old
      BY <2>1, <2>3, <1>1
    <3> QED
      BY <2>3, <3>1 DEF ValueAt, AtKey, old
  <2> QED
    BY <2>2, <2>3
<1>3. SoundTable(g)
  BY EnteredIsSound
<1>4. /\ Live(g) = Live(h) \cup {i} /\ g.at[i] = pair
      /\ \A j \in Live(h) \ {i} : g.at[j] = h.at[j]
  BY EnteredFields
<1> DEFINE old == MapOf(h)
           K == DOMAIN old \cup {pair.key}
           f == [b \in K |-> IF b = pair.key THEN pair.value ELSE old[b]]
<1>5. /\ DOMAIN old = {h.at[j].key : j \in Live(h)}
      /\ \A j \in Live(h) : old[h.at[j].key] = h.at[j].value
  BY MapAt
<1> HIDE DEF old
<1>6. K = {g.at[j].key : j \in Live(g)}
  <2>1. ASSUME NEW k \in K
        PROVE  \E j \in Live(g) : g.at[j].key = k
    <3>1. CASE k = pair.key
      BY <3>1, <1>4
    <3>2. CASE k # pair.key
      <4>1. PICK j \in Live(h) : k = h.at[j].key
        BY <3>2, <1>5
      <4>2. j # i
        BY <4>1, <3>2, <1>1
      <4> QED
        BY <4>1, <4>2, <1>4
    <3> QED
      BY <3>1, <3>2
  <2>2. ASSUME NEW j \in Live(g)
        PROVE  g.at[j].key \in K
    BY <1>4, <1>5
  <2> QED
    BY <2>1, <2>2
<1>7. ASSUME NEW j \in Live(g)
      PROVE  f[g.at[j].key] = g.at[j].value
  <2>1. CASE j = i
    BY <2>1, <1>4
  <2>2. CASE j # i
    <3>1. j \in Live(h) /\ g.at[j] = h.at[j]
      BY <2>2, <1>4
    <3>2. h.at[j].key # pair.key
      BY <2>2, <3>1, <1>1 DEF SoundTable, TableFinds
    <3>3. h.at[j].key \in K
      BY <3>1, <1>5
    <3> QED
      BY <3>1, <3>2, <3>3, <1>5
  <2> QED
    BY <2>1, <2>2
<1>8. f \in [K -> {f[k] : k \in K}]
  OBVIOUS
<1>9. MapOf(g) = f
  <2> HIDE DEF K, f
  <2> QED
    BY <1>3, <1>6, <1>7, <1>8, MapIs
<1> QED
  BY <1>2, <1>9 DEF old, With

\* kh_del takes one key off the map.
LEMMA DelIsRemove ==
    ASSUME NEW h, SoundTable(h), NEW i \in Live(h), NEW key, key = h.at[i].key,
           NEW g, g = Without(h, i)
    PROVE  MapOf(g) = NotAt(MapOf(h), key)
<1>1. SoundTable(g)
  BY WithoutIsSound
<1>2. /\ Live(g) = Live(h) \ {i}
      /\ \A j \in Live(h) \ {i} : g.at[j] = h.at[j]
  <2>1. /\ g.at = [j \in Live(h) \ {i} |-> h.at[j]]
        /\ Live(g) = Live(h) \ {i}
    BY WithoutFields
  <2> QED
    BY <2>1
<1>3. \A j \in Live(h) : h.at[j].key = key => j = i
  BY DEF SoundTable, TableFinds
<1> DEFINE old == MapOf(h)
           K == DOMAIN old \ {key}
           f == [b \in K |-> old[b]]
<1>4. /\ DOMAIN old = {h.at[j].key : j \in Live(h)}
      /\ \A j \in Live(h) : old[h.at[j].key] = h.at[j].value
  BY MapAt
<1> HIDE DEF old
<1>5. K = {g.at[j].key : j \in Live(g)}
  BY <1>2, <1>3, <1>4
<1>6. ASSUME NEW j \in Live(g)
      PROVE  f[g.at[j].key] = g.at[j].value
  BY <1>2, <1>3, <1>4
<1>7. f \in [K -> {f[k] : k \in K}]
  OBVIOUS
<1>8. MapOf(g) = f
  <2> HIDE DEF K, f
  <2> QED
    BY <1>1, <1>5, <1>6, <1>7, MapIs
<1> QED
  BY <1>8 DEF old, NotAt

\* A table without a live bucket is the empty map.
LEMMA MapOfNone ==
    ASSUME NEW h, Live(h) = {}
    PROVE  MapOf(h) = <<>>
BY DEF MapOf

\* kh_foreach goes through every key of the map, once.
LEMMA ForeachIsWalk ==
    ASSUME NEW h, SoundTable(h), NEW q, q = InOrder(Live(h)), NEW ks,
           DOMAIN ks = DOMAIN q, \A k \in DOMAIN q : ks[k] = h.at[q[k]].key
    PROVE  GoesThrough(ks, MapOf(h))
<1> DEFINE N == Cardinality(Live(h))
           L == Live(h)
<1>1. IsFiniteSet(L) /\ L \in SUBSET Nat
  <2>1. h.n \in Nat /\ IsFiniteSet(L) /\ L \subseteq 0..(h.n - 1)
    BY UsedFacts
  <2>2. 0..(h.n - 1) \subseteq Nat
    BY <2>1, SMT
  <2> QED
    BY <2>1, <2>2
<1>2. q \in [1..N -> L] /\ \A i, j \in DOMAIN q : i < j => q[i] < q[j]
  <2>1. \E p \in [1..N -> L] : \A i, j \in DOMAIN p : i < j => p[i] < p[j]
    <3> HIDE DEF L
    <3> QED
      BY <1>1, NumbersInOrder DEF L
  <2> QED
    BY <2>1 DEF InOrder
<1>3. N \in Nat /\ DOMAIN q = 1..N
  BY <1>1, <1>2, FS_CardinalityType
<1>4. \A k, l \in DOMAIN q : q[k] = q[l] => k = l
  <2> SUFFICES ASSUME NEW k \in DOMAIN q, NEW l \in DOMAIN q, q[k] = q[l], k # l
               PROVE  FALSE
    OBVIOUS
  <2>1. k \in 1..N /\ l \in 1..N /\ q[k] \in Nat /\ q[l] \in Nat
    BY <1>1, <1>2, <1>3
  <2>2. k < l \/ l < k
    <3> HIDE DEF N
    <3> QED
      BY <1>3, <2>1, SMT
  <2>3. q[k] < q[l] \/ q[l] < q[k]
    BY <1>2, <2>2
  <2> QED
    BY <2>1, <2>3, SMT
<1>5. \A i \in L : \E k \in DOMAIN q : q[k] = i
  <2> DEFINE D == 1..N
  <2>1. IsFiniteSet(D) /\ Cardinality(D) = N
    <3>1. 1 \in Int /\ N \in Int
      BY <1>3, SMT
    <3>2. IsFiniteSet(D) /\ Cardinality(D) = IF 1 > N THEN 0 ELSE N - 1 + 1
      <4> HIDE DEF N
      <4> QED
        BY <3>1, FS_Interval
    <3> QED
      BY <3>2, <1>3, SMT
  <2>2. q \in Injection(D, L)
    BY <1>2, <1>3, <1>4 DEF Injection, IsInjective
  <2>3. Cardinality(D) = Cardinality(L)
    BY <2>1
  <2>4. q \in Surjection(D, L)
    <3> HIDE DEF D, L, N
    <3> QED
      BY <1>1, <2>1, <2>2, <2>3, FS_Injection
  <2> QED
    BY <2>4, <1>3 DEF Surjection
<1>6. /\ DOMAIN MapOf(h) = {h.at[i].key : i \in L}
      /\ \A i, j \in L : h.at[i].key = h.at[j].key => i = j
  BY MapAt DEF SoundTable, TableFinds
<1>7. {ks[i] : i \in DOMAIN ks} = DOMAIN MapOf(h)
  <2>1. DOMAIN ks = DOMAIN q /\ \A k \in DOMAIN q : ks[k] = h.at[q[k]].key
    OBVIOUS
  <2>2. \A k \in DOMAIN q : q[k] \in L
    BY <1>2
  <2>3. \A k \in DOMAIN ks : ks[k] \in DOMAIN MapOf(h)
    BY <2>1, <2>2, <1>6
  <2>4. ASSUME NEW x \in DOMAIN MapOf(h)
        PROVE  \E k \in DOMAIN ks : ks[k] = x
    <3>1. PICK i \in L : x = h.at[i].key
      BY <1>6
    <3>2. PICK k \in DOMAIN q : q[k] = i
      BY <1>5
    <3> QED
      BY <2>1, <3>1, <3>2
  <2>5. {ks[i] : i \in DOMAIN ks} \subseteq DOMAIN MapOf(h)
    BY <2>3
  <2>6. DOMAIN MapOf(h) \subseteq {ks[i] : i \in DOMAIN ks}
    BY <2>4
  <2> QED
    BY <2>5, <2>6
<1>8. Cardinality(DOMAIN MapOf(h)) = N
  <2> DEFINE K == DOMAIN MapOf(h)
             f == [i \in L |-> h.at[i].key]
  <2>1. f \in Bijection(L, K)
    BY <1>6 DEF Bijection, Injection, Surjection, IsInjective
  <2>2. IsFiniteSet(K) /\ Cardinality(K) = Cardinality(L)
    <3> HIDE DEF f, L, K
    <3> QED
      BY <1>1, <2>1, FS_Bijection DEF ExistsBijection
  <2> QED
    BY <2>2
<1>9. DOMAIN ks = 1..N
  BY <1>3
<1> QED
  BY <1>7, <1>8, <1>9 DEF GoesThrough

-----------------------------------------------------------------------------
(* The hash table: room for what is put.                                   *)

\* A table that is too small for what there is, is for one more.
LEMMA TooSmallForMore ==
    ASSUME NEW n \in Nat, NEW a \in Nat, TooSmall(n, a)
    PROVE  TooSmall(n, a + 1)
<1> SUFFICES ASSUME NEW m \in 4..(n - 1), PowerOfTwo(m)
             PROVE  UpperBound(m) < a + 1
  BY DEF TooSmall
<1>1. UpperBound(m) < a
  BY DEF TooSmall
<1>2. m \in Nat
  BY SMT
<1>3. UpperBound(m) \in Nat
  BY <1>2, UpperFacts
<1> QED
  BY <1>1, <1>3, SMT

\* The size that kh_put asks for has room; and it is the least that has, where
\* the table was the least and nothing is marked deleted.
LEMMA RoomIsMade ==
    ASSUME NEW h, SoundTable(h), Full(h),
           NEW asked, asked = IF h.n > 2 * h.size THEN h.n - 1 ELSE h.n + 1
    PROVE  /\ asked \in Nat
           /\ Sized(Buckets(asked))
           /\ h.size < UpperBound(Buckets(asked))
           /\ (h.deleted = {} /\ TooSmall(h.n, h.size)) =>
                 TooSmall(Buckets(asked), h.size + 1)
<1> DEFINE n == h.n
           size == h.size
           b == Buckets(asked)
<1>1. /\ n \in Nat /\ size \in Nat /\ h.occupied \in Nat /\ size <= h.occupied
      /\ n # 0 => Sized(n)
      /\ n = 0 => Live(h) = {}
  BY UsedFacts
<1>2. /\ size = Cardinality(Live(h)) /\ h.upper = UpperBound(n)
      /\ h.occupied = size + Cardinality(h.deleted) /\ h.occupied >= UpperBound(n)
      /\ h.occupied <= UpperBound(n)
  BY DEF SoundTable, TableCounts, Full
<1>3. UpperBound(n) \in Nat
  BY <1>1, UpperFacts
<1>4. n # 0 => n >= 4
  BY <1>1 DEF Sized
<1>5. asked = IF n > 2 * size THEN n - 1 ELSE n + 1
  OBVIOUS
<1>6. asked \in Nat
  <2> HIDE DEF n, size
  <2> QED
    BY <1>1, <1>5, SMT
<1>7. Sized(b)
  BY <1>6, BucketsFacts
<1>10. CASE n = 0
  <2>1. size = 0
    BY <1>10, <1>1, <1>2, FS_EmptySet
  <2>2. asked = 1
    <3> HIDE DEF n, size
    <3> QED
      BY <1>10, <2>1, <1>5, SMT
  <2>3. b \in Nat /\ b >= 4 /\ b <= 4
    <3>1. Sized(4) /\ 4 >= asked
      BY <2>2, FourIsSized, SMT
    <3>2. b <= 4
      BY <3>1, <1>6, BucketsFacts
    <3> QED
      BY <3>2, <1>7 DEF Sized
  <2>4. b = 4
    <3> HIDE DEF b
    <3> QED
      BY <2>3, SMT
  <2>5. UpperBound(4) = 3 /\ 4..(4 - 1) = {}
    BY UpperFacts, SMT
  <2>6. TooSmall(b, size + 1)
    <3> HIDE DEF b, size
    <3> QED
      BY <2>4, <2>5 DEF TooSmall
  <2>7. size < UpperBound(b)
    <3> HIDE DEF b, size
    <3> QED
      BY <2>1, <2>4, <2>5, SMT
  <2> QED
    BY <1>6, <1>7, <2>6, <2>7
<1>11. CASE n # 0 /\ n > 2 * size
  <2>1. b = n
    <3>1. asked = n - 1 /\ Sized(n)
      BY <1>1, <1>5, <1>11
    <3> QED
      BY <3>1, BucketsAround
  <2>2. size < UpperBound(n)
    <3>1. n \in Nat /\ n >= 4 /\ size \in Nat
      BY <1>1, <1>4, <1>11
    <3> QED
      BY <3>1, <1>11, UpperFacts
  <2>3. h.deleted # {}
    <3> SUFFICES ASSUME h.deleted = {}
                 PROVE  FALSE
      OBVIOUS
    <3>1. Cardinality(h.deleted) = 0
      BY FS_EmptySet
    <3> HIDE DEF n, size
    <3> QED
      BY <3>1, <1>1, <1>2, <1>3, <2>2, SMT
  <2> HIDE DEF b
  <2> QED
    BY <2>1, <2>2, <2>3, <1>6, <1>7 DEF b
<1>12. CASE n # 0 /\ ~ (n > 2 * size)
  <2>1. b = 2 * n
    <3>1. asked = n + 1 /\ Sized(n)
      BY <1>1, <1>5, <1>12
    <3> QED
      BY <3>1, BucketsAround
  <2>2. UpperBound(n) < UpperBound(2 * n)
    BY <1>1, <1>4, <1>12, UpperFacts
  <2>3. UpperBound(2 * n) \in Nat
    <3>1. 2 * n \in Nat
      BY <1>1, SMT
    <3> QED
      BY <3>1, UpperFacts
  <2>4. size < UpperBound(2 * n)
    <3> HIDE DEF n, size
    <3> QED
      BY <1>1, <1>2, <1>3, <2>2, <2>3, SMT
  <2>5. ASSUME h.deleted = {}
        PROVE  TooSmall(2 * n, size + 1)
    <3> SUFFICES ASSUME NEW m \in 4..(2 * n - 1), PowerOfTwo(m)
                 PROVE  UpperBound(m) < size + 1
      BY DEF TooSmall
    <3>1. m \in Nat /\ m >= 1 /\ m < 2 * n /\ n >= 1 /\ PowerOfTwo(n)
      <4>1. PowerOfTwo(n)
        BY <1>1, <1>12 DEF Sized
      <4> HIDE DEF n
      <4> QED
        BY <4>1, <1>1, <1>4, <1>12, SMT
    <3>2. m <= n
      <4>1. n < m => 2 * n <= m
        BY <3>1, <1>1, PowersApart
      <4> HIDE DEF n
      <4> QED
        BY <4>1, <3>1, <1>1, SMT
    <3>3. UpperBound(m) <= UpperBound(n) /\ UpperBound(m) \in Nat
      BY <3>1, <3>2, <1>1, UpperFacts
    <3>4. Cardinality(h.deleted) = 0
      BY <2>5, FS_EmptySet
    <3> HIDE DEF n, size
    <3> QED
      BY <3>3, <3>4, <1>1, <1>2, <1>3, SMT
  <2> HIDE DEF b
  <2> QED
    BY <2>1, <2>4, <2>5, <1>6, <1>7 DEF b
<1> QED
  BY <1>10, <1>11, <1>12

\* What kh_resize begins is a move of everything, or none.
LEMMA ResizingBegins ==
    ASSUME SoundTable(hash), move = NoMove, NEW asked \in Nat, Resizing(asked)
    PROVE  /\ move'.n \in Nat
           /\ IF move'.n > 0 THEN SoundMove(move', hash) ELSE move' = NoMove
           /\ hash.size < UpperBound(Buckets(asked)) => move'.n = Buckets(asked) /\ move'.n > 0
<1> DEFINE n == Buckets(asked)
<1>1. Sized(n) /\ n \in Nat /\ n > 0
  <2>1. Sized(n)
    BY BucketsFacts
  <2> HIDE DEF n
  <2> QED
    BY <2>1, SMT DEF Sized
<1>2. /\ hash.size \in Nat /\ UpperBound(n) \in Nat
      /\ move' = IF hash.size >= UpperBound(n) THEN NoMove
                 ELSE [n |-> n, used |-> {}, old |-> Live(hash), at |-> hash.at,
                       hand |-> {}]
  BY <1>1, UsedFacts, UpperFacts DEF Resizing
<1> HIDE DEF n
<1>3. CASE hash.size >= UpperBound(n)
  <2>1. move' = NoMove /\ move'.n = 0
    BY <1>2, <1>3 DEF NoMove
  <2>2. ~ (hash.size < UpperBound(n))
    BY <1>2, <1>3, SMT
  <2> QED
    BY <2>1, <2>2 DEF n
<1>4. CASE ~ (hash.size >= UpperBound(n))
  <2>1. hash.size < UpperBound(n)
    BY <1>2, <1>4, SMT
  <2>2. move' = [n |-> n, used |-> {}, old |-> Live(hash), at |-> hash.at, hand |-> {}]
    BY <1>2, <1>4
  <2>3. SoundMove(move', hash)
    BY <1>1, <2>1, <2>2, MoveBegins
  <2>4. move'.n = n
    BY <2>2
  <2> QED
    BY <1>1, <2>3, <2>4 DEF n
<1> QED
  BY <1>3, <1>4

-----------------------------------------------------------------------------
(* The hash table: every step keeps the invariant.                         *)

\* Nothing moves in a table at rest.
LEMMA AtRest ==
    ASSUME HashInv, ~Moving
    PROVE  SoundTable(hash) /\ move = NoMove /\ move.n = 0
BY DEF HashInv, NoMove

\* A step of the table alone, at rest before and after it.
LEMMA RestKeepsInv ==
    ASSUME HashInv, ~Moving, SoundTable(hash'), UNCHANGED move, awaiting' = {},
           grown' \in BOOLEAN,
           grown' => hash'.deleted = {} /\ TooSmall(hash'.n, hash'.size)
    PROVE  HashInv'
<1>1. move' = NoMove /\ move'.n = 0 /\ move'.n \in Nat /\ ~ Moving'
  BY AtRest DEF Moving
<1>2. AwaitsRoom'
  BY DEF AwaitsRoom
<1>3. GrowsWithEntries'
  BY <1>1 DEF GrowsWithEntries, TooSmall
<1> QED
  BY <1>1, <1>2, <1>3 DEF HashInv, SoundTable, TableTypes, TableCounts, TableFinds,
     Live, NoMove, Reaches

\* The pair that comes in, with room.
LEMMA EntersKeepsInv ==
    ASSUME HashInv, ~Moving, NEW pair \in Pair, hash.occupied < hash.upper,
           awaiting = {} \/ awaiting = {pair},
           PairEnters(pair), awaiting' = {}, UNCHANGED move
    PROVE  HashInv'
<1> DEFINE i == PutBucket(hash, pair.key)
           g == Entered(hash, i, pair)
<1>1. SoundTable(hash) /\ hash' = g /\ grown' = (grown /\ i \notin Live(hash))
  BY AtRest DEF PairEnters, Entered
<1>2. SoundTable(g)
  BY <1>1, EnteredIsSound
<1>3. /\ g.n = hash.n /\ g.deleted = hash.deleted \ {i}
      /\ g.size = hash.size + (IF i \in Live(hash) THEN 0 ELSE 1)
  BY <1>1, EnteredFields
<1> HIDE DEF i, g
<1>4. hash.n \in Nat /\ hash.size \in Nat
  BY <1>1, UsedFacts
<1>5. grown \in BOOLEAN
  BY DEF HashInv, GrowsWithEntries
<1>6. ASSUME grown'
      PROVE  g.deleted = {} /\ TooSmall(g.n, g.size)
  <2>1. grown /\ i \notin Live(hash)
    BY <1>1, <1>6
  <2>2. hash.deleted = {}
    BY <2>1 DEF HashInv, GrowsWithEntries
  <2>3. TooSmall(hash.n, hash.size + 1)
    <3>1. CASE awaiting = {}
      <4>1. TooSmall(hash.n, hash.size)
        BY <3>1, <2>1 DEF HashInv, GrowsWithEntries
      <4> QED
        BY <4>1, <1>4, TooSmallForMore
    <3>2. CASE awaiting = {pair}
      <4>1. awaiting # {}
        BY <3>2
      <4> QED
        BY <4>1, <2>1 DEF HashInv, GrowsWithEntries
    <3> QED
      BY <3>1, <3>2
  <2>4. g.size = hash.size + 1
    BY <2>1, <1>3
  <2> QED
    BY <2>2, <2>3, <2>4, <1>3
<1> QED
  BY <1>1, <1>2, <1>5, <1>6, RestKeepsInv

\* kh_put, with room or not.
LEMMA PutKeepsInv ==
    ASSUME HashInv, NEW pair \in Pair, kh_put(pair)
    PROVE  HashInv'
<1>1. SoundTable(hash) /\ ~Moving /\ awaiting = {} /\ move = NoMove
  BY AtRest DEF kh_put, Idle
<1>2. CASE ~Full(hash)
  <2>1. PairEnters(pair) /\ awaiting' = {} /\ UNCHANGED move
    BY <1>1, <1>2 DEF kh_put
  <2>2. hash.occupied < hash.upper
    <3>1. hash.occupied \in Nat /\ hash.upper \in Nat
      BY <1>1, UsedFacts DEF SoundTable, TableCounts
    <3> QED
      BY <3>1, <1>2, SMT DEF Full
  <2> QED
    BY <1>1, <2>1, <2>2, EntersKeepsInv
<1>3. CASE Full(hash)
  <2> DEFINE asked == IF hash.n > 2 * hash.size THEN hash.n - 1 ELSE hash.n + 1
  <2>1. Resizing(asked) /\ awaiting' = {pair} /\ UNCHANGED <<hash, grown, result, keys>>
    BY <1>3 DEF kh_put
  <2>2. /\ asked \in Nat
        /\ hash.size < UpperBound(Buckets(asked))
        /\ (hash.deleted = {} /\ TooSmall(hash.n, hash.size)) =>
              TooSmall(Buckets(asked), hash.size + 1)
    BY <1>1, <1>3, RoomIsMade
  <2> HIDE DEF asked
  <2>3. /\ move'.n = Buckets(asked) /\ move'.n > 0 /\ move'.n \in Nat
        /\ SoundMove(move', hash)
    BY <1>1, <2>1, <2>2, ResizingBegins
  <2>4. AwaitsRoom'
    BY <2>1, <2>3 DEF AwaitsRoom, Moving
  <2>5. GrowsWithEntries'
    <3>1. grown' \in BOOLEAN
      BY <2>1 DEF HashInv, GrowsWithEntries
    <3>2. ASSUME grown'
          PROVE  /\ hash'.deleted = {}
                 /\ Moving'
                 /\ awaiting' # {} /\ TooSmall(move'.n, hash'.size + 1)
                 /\ TooSmall(hash'.n, hash'.size)
      <4>1. grown /\ hash' = hash
        BY <2>1, <3>2
      <4>2. hash.deleted = {} /\ TooSmall(hash.n, hash.size)
        BY <4>1, <1>1 DEF HashInv, GrowsWithEntries
      <4> QED
        BY <4>1, <4>2, <2>1, <2>2, <2>3 DEF Moving
    <3> QED
      BY <3>1, <3>2 DEF GrowsWithEntries, TooSmall
  <2>6. SoundTable(hash)' /\ SoundMove(move, hash)'
    BY <1>1, <2>1, <2>3 DEF SoundTable, TableTypes, TableCounts, TableFinds, Live,
       Reaches, SoundMove, MoveTypes, MoveCounts, MoveKeeps
  <2> QED
    BY <2>3, <2>4, <2>5, <2>6 DEF HashInv, Moving
<1> QED
  BY <1>2, <1>3

\* kh_put goes on after the resize.
LEMMA PutGoesOnKeepsInv ==
    ASSUME HashInv, PutGoesOn
    PROVE  HashInv'
<1>1. PICK pair \in awaiting :
         ~Moving /\ PairEnters(pair) /\ awaiting' = {} /\ UNCHANGED move
  BY DEF PutGoesOn
<1>2. pair \in Pair /\ awaiting = {pair} /\ hash.occupied < hash.upper
  BY <1>1 DEF HashInv, AwaitsRoom
<1> QED
  BY <1>1, <1>2, EntersKeepsInv

\* What leaves the table as it is.
LEMMA LookKeepsInv ==
    ASSUME HashInv, UNCHANGED <<hash, move, awaiting, grown>>
    PROVE  HashInv'
BY DEF HashInv, SoundTable, TableTypes, TableCounts, TableFinds, Live, Reaches,
   SoundMove, MoveTypes, MoveCounts, MoveKeeps, AwaitsRoom, GrowsWithEntries, TooSmall,
   Moving

\* kh_del of what is there, or not.
LEMMA DelKeepsInv ==
    ASSUME HashInv, NEW key \in Key, kh_del(key)
    PROVE  HashInv'
<1> DEFINE i == GetBucket(hash, key)
<1>1. /\ SoundTable(hash) /\ ~Moving /\ awaiting = {} /\ key \in Nat
      /\ awaiting' = {} /\ UNCHANGED move /\ grown' = FALSE
      /\ hash' = IF i = hash.n THEN hash ELSE Without(hash, i)
  BY AtRest, KHashAssumption DEF kh_del, Idle, Without
<1>2. i = hash.n \/ i \in Live(hash)
  BY <1>1, GetFindsKey
<1> HIDE DEF i
<1>3. SoundTable(hash')
  BY <1>1, <1>2, WithoutIsSound
<1> QED
  BY <1>1, <1>3, RestKeepsInv

\* kh_clear.
LEMMA ClearKeepsInv ==
    ASSUME HashInv, kh_clear
    PROVE  HashInv'
<1>1. /\ SoundTable(hash) /\ ~Moving
      /\ awaiting' = {} /\ UNCHANGED move /\ grown' = FALSE
      /\ hash' = Cleared(hash)
  BY AtRest DEF kh_clear, Idle, Cleared
<1>2. SoundTable(hash')
  BY <1>1, ClearedIsSound
<1> QED
  BY <1>1, <1>2, RestKeepsInv

\* kh_resize, as its callers may ask for it.
LEMMA ResizeKeepsInv ==
    ASSUME HashInv, NEW asked \in Sizes, kh_resize(asked)
    PROVE  HashInv'
<1>1. /\ SoundTable(hash) /\ move = NoMove /\ asked \in Nat
      /\ Resizing(asked) /\ grown' = FALSE /\ UNCHANGED <<hash, awaiting>>
      /\ awaiting' = {}
  BY AtRest, KHashAssumption DEF kh_resize, Idle
<1>2. /\ move'.n \in Nat
      /\ IF move'.n > 0 THEN SoundMove(move', hash) ELSE move' = NoMove
  BY <1>1, ResizingBegins
<1>3. AwaitsRoom' /\ GrowsWithEntries'
  BY <1>1 DEF AwaitsRoom, GrowsWithEntries
<1>4. SoundTable(hash)'
  BY <1>1 DEF SoundTable, TableTypes, TableCounts, TableFinds, Live, Reaches
<1>5. IF Moving' THEN SoundMove(move, hash)' ELSE move' = NoMove'
  BY <1>1, <1>2 DEF SoundMove, MoveTypes, MoveCounts, MoveKeeps, Live, Moving, NoMove
<1> QED
  BY <1>2, <1>3, <1>4, <1>5 DEF HashInv

\* A move that goes on, of the same size.
LEMMA MoveKeepsInv ==
    ASSUME HashInv, Moving, UNCHANGED <<hash, awaiting, grown>>,
           move'.n = move.n, SoundMove(move', hash)
    PROVE  HashInv'
<1>1. Moving' /\ move'.n \in Nat
  BY DEF Moving, HashInv
<1>2. SoundTable(hash)' /\ SoundMove(move, hash)'
  BY DEF HashInv, SoundTable, TableTypes, TableCounts, TableFinds, Live, Reaches,
     SoundMove, MoveTypes, MoveCounts, MoveKeeps
<1>3. AwaitsRoom'
  BY <1>1 DEF HashInv, AwaitsRoom
<1>4. GrowsWithEntries'
  BY <1>1 DEF HashInv, GrowsWithEntries, TooSmall
<1> QED
  BY <1>1, <1>2, <1>3, <1>4 DEF HashInv

\* A pair is taken out of the old table.
LEMMA TakeOutKeepsInv ==
    ASSUME HashInv, TakeOut
    PROVE  HashInv'
<1> DEFINE j == Min(move.old)
<1>1. /\ Moving /\ move.hand = {} /\ move.old # {}
      /\ move' = [move EXCEPT !.old = @ \ {j}, !.hand = {move.at[j]}]
      /\ UNCHANGED <<hash, awaiting, grown>>
  BY DEF TakeOut
<1>2. SoundTable(hash) /\ SoundMove(move, hash)
  BY <1>1 DEF HashInv
<1>3. j \in move.old
  <2>1. move.old \subseteq Nat
    BY <1>2, MoveSets
  <2> QED
    BY <2>1, <1>1, MinIsLeast
<1> HIDE DEF j
<1>4. SoundMove(move', hash)
  BY <1>1, <1>2, <1>3, TakenOutIsSound
<1>5. move'.n = move.n
  BY <1>1, <1>2 DEF SoundMove, MoveTypes
<1> QED
  BY <1>1, <1>4, <1>5, MoveKeepsInv

\* A pair is put into the new one.
LEMMA PutInKeepsInv ==
    ASSUME HashInv, PutIn
    PROVE  HashInv'
<1>1. PICK pair \in move.hand :
         LET i == NewBucket(pair.key) IN
         /\ Moving
         /\ move' = [move EXCEPT !.used = @ \cup {i}, !.old = @ \ {i},
                                 !.at = Stored(@, i, pair),
                                 !.hand = IF i \in move.old THEN {move.at[i]} ELSE {}]
         /\ UNCHANGED <<hash, awaiting, grown>>
  BY DEF PutIn
<1> DEFINE i == NewBucket(pair.key)
<1>2. SoundTable(hash) /\ SoundMove(move, hash)
  BY <1>1 DEF HashInv
<1>3. i \in 0..(move.n - 1) /\ i \notin move.used /\ Reaches(move.n, pair.key, i, move.used)
  BY <1>2, NewBucketFacts
<1>4. /\ Moving /\ UNCHANGED <<hash, awaiting, grown>>
      /\ move' = [move EXCEPT !.used = @ \cup {i}, !.old = @ \ {i},
                              !.at = Stored(@, i, pair),
                              !.hand = IF i \in move.old THEN {move.at[i]} ELSE {}]
  BY <1>1
<1> HIDE DEF i
<1>5. SoundMove(move', hash)
  BY <1>2, <1>3, <1>4, PutInIsSound
<1>6. move'.n = move.n
  BY <1>4, <1>2 DEF SoundMove, MoveTypes
<1> QED
  BY <1>4, <1>5, <1>6, MoveKeepsInv

\* The resize is over.
LEMMA ResizedKeepsInv ==
    ASSUME HashInv, Resized
    PROVE  HashInv' /\ SoundTable(hash) /\ SoundTable(hash')
           /\ PairsOf(hash') = PairsOf(hash)
<1>1. /\ Moving /\ move.hand = {} /\ move.old = {}
      /\ hash' = Moved(move, hash)
      /\ move' = NoMove
      /\ UNCHANGED <<awaiting, grown>>
  BY DEF Resized, Moved
<1>2. SoundTable(hash) /\ SoundMove(move, hash)
  BY <1>1 DEF HashInv
<1>3. /\ SoundTable(hash') /\ hash'.occupied < hash'.upper
      /\ PairsOf(hash') = PairsOf(hash)
  <2> DEFINE g == Moved(move, hash)
  <2>1. move.hand = {} /\ move.old = {} /\ g = Moved(move, hash) /\ hash' = g
    BY <1>1
  <2> HIDE DEF g
  <2>2. /\ SoundTable(g) /\ g.occupied < g.upper
        /\ PairsOf(g) = PairsOf(hash)
    BY <1>2, <2>1, EndOfMove
  <2> QED
    BY <2>1, <2>2
<1>4. move'.n = 0 /\ move'.n \in Nat /\ ~ Moving' /\ move' = NoMove'
  BY <1>1 DEF NoMove, Moving
<1>5. AwaitsRoom'
  BY <1>1, <1>3 DEF HashInv, AwaitsRoom
<1>6. GrowsWithEntries'
  <2>1. hash'.deleted = {} /\ hash'.n = move.n /\ hash'.size = hash.size
    BY <1>1 DEF Moved
  <2>2. grown => awaiting # {} /\ TooSmall(move.n, hash.size + 1)
    BY <1>1 DEF HashInv, GrowsWithEntries
  <2> QED
    BY <1>1, <1>4, <2>1, <2>2 DEF HashInv, GrowsWithEntries, TooSmall
<1>7. SoundTable(hash)'
  BY <1>3 DEF SoundTable, TableTypes, TableCounts, TableFinds, Live, Reaches
<1> QED
  BY <1>2, <1>3, <1>4, <1>5, <1>6, <1>7 DEF HashInv

\* A new table is sound.
LEMMA HashInvInit == HashInit => HashInv
<1> SUFFICES ASSUME HashInit
             PROVE  HashInv
  OBVIOUS
<1>1. /\ DOMAIN hash = {"n", "at", "deleted", "size", "occupied", "upper"}
      /\ hash.n = 0 /\ hash.at = <<>> /\ hash.deleted = {} /\ hash.size = 0
      /\ hash.occupied = 0 /\ hash.upper = 0
  BY DEF HashInit, NewTable
<1>2. Live(hash) = {} /\ hash.at \in [Live(hash) -> Pair]
  BY <1>1 DEF Live
<1>3. TableTypes(hash)
  BY <1>1, <1>2 DEF TableTypes
<1>4. TableCounts(hash)
  <2>1. Cardinality({}) = 0 /\ UpperBound(0) = 0
    BY FS_EmptySet, UpperFacts
  <2>2. 0 = 0 + 0 /\ 0 <= 0
    BY SMT
  <2> QED
    BY <1>1, <1>2, <2>1, <2>2 DEF TableCounts
<1>5. TableFinds(hash)
  BY <1>2 DEF TableFinds
<1>6. move = NoMove /\ move.n = 0 /\ move.n \in Nat /\ ~ Moving
  BY DEF HashInit, NoMove, Moving
<1>7. AwaitsRoom
  BY DEF HashInit, AwaitsRoom
<1>8. GrowsWithEntries
  <2>1. 4..(0 - 1) = {}
    BY SMT
  <2> QED
    BY <1>1, <1>6, <2>1 DEF HashInit, GrowsWithEntries, TooSmall
<1> QED
  BY <1>3, <1>4, <1>5, <1>6, <1>7, <1>8 DEF HashInv, SoundTable

\* Every step leaves the invariant true.
LEMMA HashInvStep == HashInv /\ [HashNext]_hashVars => HashInv'
<1> SUFFICES ASSUME HashInv, [HashNext]_hashVars
             PROVE  HashInv'
  OBVIOUS
<1>1. CASE \E pair \in Pair : kh_put(pair)
  BY <1>1, PutKeepsInv
<1>2. CASE PutGoesOn
  BY <1>2, PutGoesOnKeepsInv
<1>3. CASE PutFails
  BY <1>3, LookKeepsInv DEF PutFails
<1>4. CASE \E key \in Key : kh_get(key)
  BY <1>4, LookKeepsInv DEF kh_get
<1>5. CASE \E key \in Key : kh_del(key)
  BY <1>5, DelKeepsInv
<1>6. CASE \E asked \in Sizes : kh_resize(asked)
  BY <1>6, ResizeKeepsInv
<1>7. CASE TakeOut
  BY <1>7, TakeOutKeepsInv
<1>8. CASE PutIn
  BY <1>8, PutInKeepsInv
<1>9. CASE Resized
  BY <1>9, ResizedKeepsInv
<1>10. CASE kh_clear
  BY <1>10, ClearKeepsInv
<1>11. CASE kh_foreach
  BY <1>11, LookKeepsInv DEF kh_foreach
<1>12. CASE UNCHANGED hashVars
  BY <1>12, LookKeepsInv DEF hashVars
<1> QED
  BY <1>1, <1>2, <1>3, <1>4, <1>5, <1>6, <1>7, <1>8, <1>9, <1>10, <1>11, <1>12
     DEF HashNext

-----------------------------------------------------------------------------
(* The hash table: what the invariant gives.                               *)

LEMMA HashInvSound == HashInv => SoundHash
<1> SUFFICES ASSUME HashInv
             PROVE  SoundHash
  OBVIOUS
<1>1. SoundTable(hash)
  BY DEF HashInv
<1>2. /\ hash.n \in Nat /\ Live(hash) \cup hash.deleted \subseteq 0..(hash.n - 1)
      /\ hash.size \in Nat
      /\ hash.n # 0 => Sized(hash.n) /\ hash.upper < hash.n
      /\ hash.n = 0 => Live(hash) = {}
  BY <1>1, UsedFacts
<1>3. /\ hash.size = Cardinality(Live(hash))
      /\ hash.occupied = hash.size + Cardinality(hash.deleted)
      /\ hash.upper = UpperBound(hash.n) /\ hash.occupied <= hash.upper
  BY <1>1 DEF SoundTable, TableCounts
<1>4. ASSUME NEW pair \in move.hand
      PROVE  \E s \in Steps(move.n) : Probe(move.n, pair.key, s) \notin move.used
  <2>1. Moving
    BY <1>4 DEF HashInv, NoMove
  <2> QED
    BY <1>1, <2>1, FreeForHand DEF HashInv
<1>5. hash.n > 0 => hash.upper < hash.n
  BY <1>2, SMT
<1>6. ProbesEnd
  BY <1>2, <1>3, <1>4, <1>5 DEF ProbesEnd
<1>7. ASSUME grown, hash.size > 0, Idle
      PROVE  /\ PowerOfTwo(hash.n) /\ UpperBound(hash.n) >= hash.size
             /\ \A n \in 4..(hash.n - 1) : PowerOfTwo(n) => UpperBound(n) < hash.size
  <2>1. hash.n # 0
    <3>1. hash.n = 0 => hash.size = 0
      BY <1>2, <1>3, FS_EmptySet
    <3> QED
      BY <3>1, <1>7, SMT
  <2>2. TooSmall(hash.n, hash.size)
    BY <1>7 DEF HashInv, GrowsWithEntries, Idle
  <2>3. UpperBound(hash.n) >= hash.size
    <3>1. Cardinality(hash.deleted) \in Nat /\ UpperBound(hash.n) \in Nat
      BY <1>1, UsedFacts, FS_CardinalityType
    <3> QED
      BY <3>1, <1>2, <1>3, SMT
  <2> QED
    BY <2>1, <2>2, <2>3, <1>2 DEF Sized, TooSmall
<1> QED
  BY <1>6, <1>7 DEF SoundHash, SizeFollowsEntries

(***************************************************************************)
(* Every probe ends, in a table and in one that is being rehashed: there   *)
(* is always an empty bucket, and the triangular steps come to it.  As     *)
(* long as only new keys are put, the table is the least that holds them.  *)
(* For all keys, pairs and sizes asked for.                                *)
(***************************************************************************)
THEOREM HashIsSound == HashSpec => []SoundHash
BY HashInvInit, HashInvStep, HashInvSound, PTL DEF HashSpec

-----------------------------------------------------------------------------
(* The hash table: it implements a map.                                    *)

LEMMA HashMapIs == HashMap = MapOf(hash) /\ HashMap' = MapOf(hash')
BY DEF HashMap, MapOf, Live

\* What is counted there is what is counted here.
LEMMA CountedAlike ==
    ASSUME NEW S
    PROVE  HM!Cardinality(S) = Cardinality(S)
BY DEF HM!Cardinality, Cardinality

\* A step that the map does not tell from none.
LEMMA QuietStep ==
    ASSUME UNCHANGED <<hash, result, keys>>
    PROVE  UNCHANGED HM!mapVars
BY HashMapIs DEF HM!mapVars

\* The pair that comes in is put.
LEMMA EntersStep ==
    ASSUME HashInv, ~Moving, NEW pair \in Pair, hash.occupied < hash.upper,
           PairEnters(pair)
    PROVE  HM!Next
<1> DEFINE i == PutBucket(hash, pair.key)
           g == Entered(hash, i, pair)
           old == MapOf(hash)
<1>1. SoundTable(hash) /\ hash' = g /\ result' = ValueAt(hash, i) /\ keys' = <<>>
  BY AtRest DEF PairEnters, Entered, Finds
<1>2. /\ ValueAt(hash, i) = AtKey(old, pair.key)
      /\ MapOf(g) = With(old, pair.key, pair.value)
  BY <1>1, PutIsOverwrite
<1> HIDE DEF i, g
<1>3. HashMap = old /\ HashMap' = MapOf(g)
  BY <1>1, HashMapIs
<1> HIDE DEF old
<1>4. HM!Overwrite(pair.key, pair.value)
  BY <1>1, <1>2, <1>3 DEF HM!Overwrite, HM!At, HM!Held, AtKey, With
<1>5. pair.key \in Key /\ pair.value \in {p.value : p \in Pair}
  BY KHashAssumption
<1> QED
  BY <1>4, <1>5 DEF HM!Next

\* kh_put puts, or makes room first.
LEMMA PutStep ==
    ASSUME HashInv, NEW pair \in Pair, kh_put(pair)
    PROVE  HM!Next \/ UNCHANGED HM!mapVars
<1>1. CASE Full(hash)
  BY <1>1, QuietStep DEF kh_put
<1>2. CASE ~Full(hash)
  <2>1. PairEnters(pair) /\ ~Moving /\ SoundTable(hash)
    BY <1>2, AtRest DEF kh_put, Idle
  <2>2. hash.occupied < hash.upper
    <3>1. hash.occupied \in Nat /\ hash.upper \in Nat
      BY <2>1, UsedFacts DEF SoundTable, TableCounts
    <3> QED
      BY <3>1, <1>2, SMT DEF Full
  <2> QED
    BY <2>1, <2>2, EntersStep
<1> QED
  BY <1>1, <1>2

\* So it does afterwards.
LEMMA PutGoesOnStep ==
    ASSUME HashInv, PutGoesOn
    PROVE  HM!Next
<1>1. PICK pair \in awaiting : ~Moving /\ PairEnters(pair)
  BY DEF PutGoesOn
<1>2. pair \in Pair /\ hash.occupied < hash.upper
  BY <1>1 DEF HashInv, AwaitsRoom
<1> QED
  BY <1>1, <1>2, EntersStep

\* A resize that is over has changed nothing that can be seen.
LEMMA ResizedStep ==
    ASSUME HashInv, Resized
    PROVE  UNCHANGED HM!mapVars
<1>1. /\ SoundTable(hash) /\ SoundTable(hash') /\ PairsOf(hash') = PairsOf(hash)
  BY ResizedKeepsInv
<1>2. MapOf(hash') = MapOf(hash)
  BY <1>1, SamePairs
<1> QED
  BY <1>2, HashMapIs DEF Resized, HM!mapVars

\* kh_get finds.
LEMMA GetStep ==
    ASSUME HashInv, NEW key \in Key, kh_get(key)
    PROVE  HM!Next
<1> DEFINE old == MapOf(hash)
<1>1. /\ SoundTable(hash) /\ result' = ValueAt(hash, GetBucket(hash, key))
      /\ keys' = <<>> /\ hash' = hash /\ key \in Nat
  BY AtRest, KHashAssumption DEF kh_get, Idle, Finds
<1>2. result' = AtKey(old, key)
  BY <1>1, GetIsAt
<1>3. HashMap = old /\ HashMap' = old
  BY <1>1, HashMapIs
<1> HIDE DEF old
<1>4. HM!Find(key)
  BY <1>1, <1>2, <1>3 DEF HM!Find, HM!At, HM!Held, AtKey
<1> QED
  BY <1>4 DEF HM!Next

\* kh_del removes.
LEMMA DelStep ==
    ASSUME HashInv, NEW key \in Key, kh_del(key)
    PROVE  HM!Next
<1> DEFINE i == GetBucket(hash, key)
           old == MapOf(hash)
<1>1. /\ SoundTable(hash) /\ key \in Nat
      /\ result' = ValueAt(hash, i) /\ keys' = <<>>
      /\ hash' = IF i = hash.n THEN hash ELSE Without(hash, i)
  BY AtRest, KHashAssumption DEF kh_del, Idle, Finds, Without
<1>2. result' = AtKey(old, key)
  BY <1>1, GetIsAt
<1>3. /\ i \in Live(hash) => hash.at[i].key = key
      /\ i \notin Live(hash) => i = hash.n /\ \A j \in Live(hash) : hash.at[j].key # key
      /\ hash.n \notin Live(hash)
  BY <1>1, GetFindsKey
<1> HIDE DEF i
<1>4. DOMAIN old = {hash.at[j].key : j \in Live(hash)} /\ old = [b \in DOMAIN old |-> old[b]]
  BY <1>1, MapAt DEF MapOf
<1>5. MapOf(hash') = NotAt(old, key)
  <2>1. CASE i \in Live(hash)
    <3> DEFINE g == Without(hash, i)
    <3>1. hash' = g /\ key = hash.at[i].key
      BY <2>1, <1>1, <1>3
    <3>2. MapOf(g) = NotAt(old, key)
      BY <2>1, <3>1, <1>1, DelIsRemove
    <3> QED
      BY <3>1, <3>2
  <2>2. CASE i \notin Live(hash)
    <3>1. hash' = hash
      BY <2>2, <1>1, <1>3
    <3>2. key \notin DOMAIN old
      <4> HIDE DEF old
      <4> QED
        BY <2>2, <1>3, <1>4
    <3>3. DOMAIN old \ {key} = DOMAIN old
      BY <3>2
    <3>4. NotAt(old, key) = old
      <4> HIDE DEF old
      <4> QED
        BY <3>3, <1>4 DEF NotAt
    <3> QED
      BY <3>1, <3>4
  <2> QED
    BY <2>1, <2>2
<1>6. HashMap = old /\ HashMap' = MapOf(hash')
  BY HashMapIs
<1> HIDE DEF old
<1>7. HM!Remove(key)
  BY <1>1, <1>2, <1>5, <1>6 DEF HM!Remove, HM!At, HM!Held, AtKey, NotAt
<1> QED
  BY <1>7 DEF HM!Next

\* kh_clear clears.
LEMMA ClearStep ==
    ASSUME HashInv, kh_clear
    PROVE  HM!Next
<1>1. hash' = Cleared(hash) /\ result' = Nothing /\ keys' = <<>> /\ SoundTable(hash)
  BY AtRest DEF kh_clear, Idle, Cleared, Finds
<1>2. Live(hash') = {}
  BY <1>1, ClearedIsSound
<1>3. HashMap' = <<>>
  BY <1>2, MapOfNone, HashMapIs
<1> QED
  BY <1>1, <1>3 DEF HM!Next, HM!Clear

\* kh_foreach walks.
LEMMA ForeachStep ==
    ASSUME HashInv, kh_foreach
    PROVE  HM!Next
<1> DEFINE q == InOrder(Live(hash))
           old == MapOf(hash)
<1>1. /\ SoundTable(hash) /\ hash' = hash /\ result' = Nothing
      /\ keys' = [k \in DOMAIN q |-> hash.at[q[k]].key]
  BY AtRest DEF kh_foreach, Idle, InOrder
<1>2. GoesThrough(keys', old)
  <2>1. q = InOrder(Live(hash))
    OBVIOUS
  <2> HIDE DEF q
  <2>2. DOMAIN keys' = DOMAIN q /\ \A k \in DOMAIN q : keys'[k] = hash.at[q[k]].key
    BY <1>1
  <2> QED
    BY <1>1, <2>1, <2>2, ForeachIsWalk
<1>3. HashMap = old /\ HashMap' = old
  BY <1>1, HashMapIs
<1> HIDE DEF old
<1>4. HM!Walk
  <2>1. HM!Held = DOMAIN old
    BY <1>3 DEF HM!Held
  <2>2. /\ DOMAIN keys' = 1..Cardinality(DOMAIN old)
        /\ {keys'[i] : i \in DOMAIN keys'} = DOMAIN old
    BY <1>2 DEF GoesThrough
  <2>3. DOMAIN keys' = 1..HM!Cardinality(HM!Held)
    BY <2>1, <2>2, CountedAlike
  <2>4. {keys'[i] : i \in DOMAIN keys'} = HM!Held
    BY <2>1, <2>2
  <2> QED
    BY <2>3, <2>4, <1>1, <1>3 DEF HM!Walk
<1> QED
  BY <1>4 DEF HM!Next

\* Every step is one of the map, or none.
LEMMA HashMapStep == HashInv /\ [HashNext]_hashVars => [HM!Next]_HM!mapVars
<1> SUFFICES ASSUME HashInv, [HashNext]_hashVars
             PROVE  HM!Next \/ UNCHANGED HM!mapVars
  OBVIOUS
<1>1. CASE \E pair \in Pair : kh_put(pair)
  BY <1>1, PutStep
<1>2. CASE PutGoesOn
  BY <1>2, PutGoesOnStep
<1>3. CASE PutFails
  BY <1>3, HashMapIs DEF PutFails, Finds, HM!Next, HM!Idle
<1>4. CASE \E key \in Key : kh_get(key)
  BY <1>4, GetStep
<1>5. CASE \E key \in Key : kh_del(key)
  BY <1>5, DelStep
<1>6. CASE \E asked \in Sizes : kh_resize(asked)
  BY <1>6, HashMapIs DEF kh_resize, Finds, HM!Next, HM!Idle
<1>7. CASE TakeOut
  BY <1>7, QuietStep DEF TakeOut
<1>8. CASE PutIn
  BY <1>8, QuietStep DEF PutIn
<1>9. CASE Resized
  BY <1>9, ResizedStep
<1>10. CASE kh_clear
  BY <1>10, ClearStep
<1>11. CASE kh_foreach
  BY <1>11, ForeachStep
<1>12. CASE UNCHANGED hashVars
  BY <1>12, QuietStep DEF hashVars
<1> QED
  BY <1>1, <1>2, <1>3, <1>4, <1>5, <1>6, <1>7, <1>8, <1>9, <1>10, <1>11, <1>12
     DEF HashNext

\* A new table is the map of nothing.
LEMMA HashMapInit == HashInit => HM!Init
<1> SUFFICES ASSUME HashInit
             PROVE  HM!Init
  OBVIOUS
<1>1. Live(hash) = {}
  BY DEF HashInit, NewTable, Live
<1> QED
  BY <1>1, MapOfNone, HashMapIs DEF HashInit, HM!Init

(***************************************************************************)
(* The table is a map: what is put is found, and nothing else, whatever    *)
(* collides, is marked deleted, passed over, taken again, or kicked out    *)
(* and put elsewhere by a resize.  For all keys, pairs and sizes.          *)
(***************************************************************************)
THEOREM HashIsAMap == HashSpec => HashImplementsMap
BY HashMapInit, HashMapStep, HashInvInit, HashInvStep, PTL
   DEF HashSpec, HashImplementsMap, HM!Spec

=============================================================================
