--------------------------- MODULE MCReplication ----------------------------
(* Instances of Replication: batches over three sequences.             *)
EXTENDS Replication, TLC

CONSTANTS b1, b2, b3, b4, x, y, z, c1, c2, h1, h2

\* b1 and b2 follow each other; b3 is the leader's recovery batch from 1 on, built
\* without a predecessor after it lost its outbound cursor; b4 carries another
\* event for sequence 2.
ForkStart == b1 :> 1 @@ b2 :> 2 @@ b3 :> 1 @@ b4 :> 2
ForkEnd == b1 :> 1 @@ b2 :> 2 @@ b3 :> 3 @@ b4 :> 3
ForkPrev == b1 :> NoHash @@ b2 :> b1 @@ b3 :> NoHash @@ b4 :> b1
ForkEvents == [b \in {b1, b2, b3} |-> <<x, y, z>>] @@ b4 :> <<x, x, z>>

\* Three batches in a row.
RowStart == b1 :> 1 @@ b2 :> 2 @@ b3 :> 3
RowEnd == b1 :> 1 @@ b2 :> 2 @@ b3 :> 3
RowEvents == [b \in {b1, b2, b3} |-> <<x, y, z>>]
RowPrev == b1 :> NoHash @@ b2 :> b1 @@ b3 :> b2
=============================================================================
