---------------------------- MODULE MCRouterLoop ----------------------------
EXTENDS RouterLoop

CONSTANTS c1, c2, c3

Claim(a)      == [kind |-> "new_address", address |-> a]
Edge(s, d)    == [kind |-> "connect", source |-> s, target |-> d]
Data(s)       == [kind |-> "data", source |-> s]

Inputs(script) == UNION {Range(script[c]) : c \in DOMAIN script}

\* A receiver, a source that links itself to it, and a silent client that comes
\* late, to two slots: links race claims, and arrivals race departures.
DeliveryScript ==
    c1 :> <<Claim(2)>> @@
    c2 :> <<Claim(1), Edge(1, 2), Data(1)>> @@
    c3 :> <<>>

DeliveryInput == Inputs(DeliveryScript)

\* One client that writes faster than it is served.
BurstScript ==
    c1 :> <<Claim(1), Claim(1), Claim(1), Claim(1), Claim(1), Claim(1)>>

BurstInput == Inputs(BurstScript)

=============================================================================
