----------------------------- MODULE MCGraphNode -----------------------------
(***************************************************************************)
(* A node under each of its demux policies, as an input bridge, with a     *)
(* router from the start, later or never.                                  *)
(***************************************************************************)
EXTENDS GraphNode

At(a)       == Option("address", a)
Demux(mode) == Option("demux", mode)

Node(line, input, router) == Parsed(line) @@ [input |-> input, router |-> router]

\* Output nodes, input bridges from a pipe and from a file, with an address of their
\* own or one that the router issues, and nodes that start their child at once.
AnyConfig ==
    {Node(<<At(1), Demux(mode)>>, "none", TRUE) : mode \in {"noop", "spawn", "merge"}}
        \cup {Node(<<Flag("output"), Demux("spawn")>>, "none", TRUE),
              Node(<<At(1), Flag("input"), Option("delim", 3)>>, "pipe", TRUE),
              Node(<<Flag("input"), Demux("merge"), Flag("input")>>, "pipe", TRUE),
              Node(<<At(1), Flag("input")>>, "file", TRUE),
              Node(<<At(1), Flag("input")>>, "pipe", FALSE),
              Node(<<Flag("input")>>, "pipe", FALSE),
              Node(<<Flag("immediate"), At(1)>>, "none", TRUE),
              Node(<<Flag("immediate"), Demux("merge")>>, "none", TRUE)}

\* Without -a; a process for each new stream; without -a and with a child; without
\* a router.
Bridge  == {Node(<<Flag("input")>>, "pipe", TRUE)}
Spawner == {Node(<<At(1), Demux("spawn")>>, "none", TRUE)}
Failing == {Node(<<Flag("immediate"), Demux("merge")>>, "none", TRUE),
            Node(<<At(1), Flag("input")>>, "pipe", FALSE)}

\* A short line and a long one on stdin; children answer with a line each.
LineScript ==
    [fd \in Local |-> IF fd = Stdin THEN << <<1, 10, 2>>, <<10, 3, 3, 3, 3>> >>
                      ELSE << <<4, 10>> >>]

\* One inner address is that of a source, one is not.
InnerAddresses == <<3, 2>>

=============================================================================
