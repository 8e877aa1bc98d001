--------------------------- MODULE MCGraphSystem ---------------------------
EXTENDS GraphSystem

\* Two inputs that are each linked to two outputs, in another order.
Fan == [kind |-> <<"input", "input", "output", "output">>,
        edges |-> << <<3, 4>>, <<4, 3>>, <<>>, <<>> >>,
        lines |-> <<3, 2, 0, 0>>]

\* An input that is linked to one output twice.
Doubled == [kind |-> <<"input", "output", "output">>,
            edges |-> << <<2, 3, 2>>, <<>>, <<>> >>,
            lines |-> <<3, 0, 0>>]

\* An input through filters to an output.
Pipeline(k) == [kind |-> <<"input", "filter", "output">>,
                edges |-> << <<2>>, <<3>>, <<>> >>,
                lines |-> <<k, 0, 0>>]
LongPipeline(k) == [kind |-> <<"input", "filter", "filter", "output">>,
                    edges |-> << <<2>>, <<3>>, <<4>>, <<>> >>,
                    lines |-> <<k, 0, 0, 0>>]

\* A node that is linked to itself.
Mirror(k) == [kind |-> <<"bridge">>, edges |-> << <<1>> >>, lines |-> <<k>>]

\* Five lines fit into sockets and pipes of two, six may stop the system.
AnySystem ==
    {Fan, Doubled, LongPipeline(3)} \cup UNION {{Pipeline(k), Mirror(k)} : k \in {5, 6}}

=============================================================================
