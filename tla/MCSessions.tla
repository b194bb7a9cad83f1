------------------------------ MODULE MCSessions ------------------------------
(***************************************************************************)
(* Instances of Sessions for TLC: a room of two and an outsider.           *)
(***************************************************************************)
EXTENDS Sessions, TLC

CONSTANTS m1, p1, p2, p3

RoomOfTwo == m1 :> {p1, p2}

\* c and r are interchangeable, and so are the two members of the room.
Symmetry == Permutations(Calls) \cup Permutations(Reads) \cup Permutations({p1, p2})
===============================================================================
