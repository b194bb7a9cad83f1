-------------------------------- MODULE MCPool --------------------------------
(***************************************************************************)
(* Instances of Pool for TLC: brackets of two ratings, rooms of two.       *)
(***************************************************************************)
EXTENDS Pool, TLC

CONSTANTS t1, t2, t3, t4, t5, p1, p2, p3, p4

OnTickets(f) == [t \in Tickets |-> f[t]]

\* t1 and t5 are two streams of one player, with different ratings; t2 and t3 tie.
ClusteredPlayer == OnTickets((t1 :> p1) @@ (t2 :> p2) @@ (t3 :> p3) @@ (t4 :> p4) @@ (t5 :> p1))
ClusteredMMR == OnTickets((t1 :> 0) @@ (t2 :> 1) @@ (t3 :> 1) @@ (t4 :> 3) @@ (t5 :> 2))
===============================================================================
