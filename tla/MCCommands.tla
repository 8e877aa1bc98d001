----------------------------- MODULE MCCommands -----------------------------
EXTENDS Commands

CONSTANTS c1, c2, c3

\* GraphRouter -s 5 -t 6 -c; GraphRouter -s 1 -t 2 -c; GraphRouter -t 1 --policy anycast
TwoLinks ==
    << <<Option("source", 5), Option("target", 6), Flag("connect")>>,
       <<Option("source", 1), Option("target", 2), Flag("connect")>>,
       <<Option("target", 1), Option("policy", "anycast")>> >>

InOrder == <<c1, c2, c3>>

LinePackets == [c \in Conn |-> Run(TwoLinks[CHOOSE i \in 1..3 : InOrder[i] = c]).packets]

LineInput == UNION {Range(LinePackets[c]) : c \in Conn}

=============================================================================
