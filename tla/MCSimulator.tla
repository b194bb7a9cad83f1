------------------------------ MODULE MCSimulator ------------------------------
(***************************************************************************)
(* An instance of Simulator for TLC.                                       *)
(***************************************************************************)
EXTENDS Simulator, TLC

\* player-%04d: every bot has an id of its own.
OwnIDs == [b \in Streams |-> b]
===============================================================================
