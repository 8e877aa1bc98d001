---------------------------- MODULE MCIndexTable ----------------------------
EXTENDS IndexTable

\* Six addresses in a row over the end of the range, and three that are each below
\* the next all around it.
Row == {14, 15, 0, 1, 4, 5}
Circle == {0, 5, 10}
RowAndCircle == {Row, Circle}
CircleOnly == {Circle}

OneOrTwo ==
    [address : Row \cup Circle, data : {1}] \cup [address : {15}, data : {2}]

=============================================================================
