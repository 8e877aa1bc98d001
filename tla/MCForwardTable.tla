--------------------------- MODULE MCForwardTable ---------------------------
EXTENDS ForwardTable

\* A list of two, a list of one and no list.
FewEdges == {[s \in {1, 2, 3} |-> CASE s = 1 -> <<8, 9>>
                                    [] s = 2 -> <<8>>
                                    [] OTHER -> <<>>]}

\* Calls for each of them, and for an edge that is not there.
FewRequests ==
    LET Ask(where, s, d) == [at |-> where, source |-> s, target |-> d]
    IN  {Ask("add", 1, 8), Ask("add", 2, 9), Ask("add", 3, 8),
         Ask("remove edge", 1, 9), Ask("remove edge", 2, 8), Ask("remove edge", 2, 9),
         Ask("remove", 1, 8), Ask("remove", 3, 8)}
            \cup {Ask("iterate", s, 8) : s \in Origin}

\* Without iterators, which keep lists locked in a way of their own.
EdgeRequests == {r \in FewRequests : r.at # "iterate"}

=============================================================================
