------------------------------ MODULE RoomVerdict ------------------------------
(***************************************************************************)
(* What a ready check promises the players of a room, abstractly: an       *)
(* atomic commit with an early abort.  Every member answers at most once;  *)
(* a room is confirmed only when all of them said yes; it is cancelled     *)
(* when somebody has not said yes in time, with the coordinator having     *)
(* counted some of the yeses; all members are told the same verdict before *)
(* any counted one is given back to the queue.                             *)
(***************************************************************************)
EXTENDS FiniteSets

CONSTANTS
  Streams,   \* tickets
  Rooms

VARIABLES
  members,   \* of each room; {} before its ready check
  answer,    \* of each ticket to each room: none, yes or no
  verdict,   \* of each room: none, confirmed or cancelled
  counted,   \* the tickets whose yes a cancelled room counted
  told,      \* members who have been told the verdict
  returned   \* counted members that have been handed back to the queue

vars == <<members, answer, verdict, counted, told, returned>>

TypeOK ==
  /\ members \in [Rooms -> SUBSET Streams]
  /\ answer \in [Rooms -> [Streams -> {"none", "yes", "no"}]]
  /\ verdict \in [Rooms -> {"none", "confirmed", "cancelled"}]
  /\ counted \in [Rooms -> SUBSET Streams]
  /\ told \in [Rooms -> SUBSET Streams]
  /\ returned \in [Rooms -> SUBSET Streams]

Init ==
  /\ members \in [Rooms -> SUBSET Streams]
  /\ answer = [m \in Rooms |-> [s \in Streams |-> "none"]]
  /\ verdict = [m \in Rooms |-> "none"]
  /\ counted = [m \in Rooms |-> {}]
  /\ told = [m \in Rooms |-> {}]
  /\ returned = [m \in Rooms |-> {}]

\* A ticket is free for a room when every room it has been in has handed it back.
Free(s) == \A m \in Rooms : s \in members[m] => s \in returned[m]

\* A room is formed out of free tickets.
Form(m, S) ==
  /\ members[m] = {} /\ S # {}
  /\ \A s \in S : Free(s)
  /\ members' = [members EXCEPT ![m] = S]
  /\ UNCHANGED <<answer, verdict, counted, told, returned>>

\* A member answers, maybe after the verdict.
Answer(m, s, a) ==
  /\ s \in members[m]
  /\ answer[m][s] = "none"
  /\ answer' = [answer EXCEPT ![m][s] = a]
  /\ UNCHANGED <<members, verdict, counted, told, returned>>

Confirm(m) ==
  /\ verdict[m] = "none" /\ members[m] # {}
  /\ \A s \in members[m] : answer[m][s] = "yes"
  /\ verdict' = [verdict EXCEPT ![m] = "confirmed"]
  /\ UNCHANGED <<members, answer, counted, told, returned>>

\* The room is cancelled with the yeses of C counted, which are never all of it.
Cancel(m, C) ==
  /\ verdict[m] = "none"
  /\ C \subseteq members[m] /\ C # members[m]
  /\ \A s \in C : answer[m][s] = "yes"
  /\ verdict' = [verdict EXCEPT ![m] = "cancelled"]
  /\ counted' = [counted EXCEPT ![m] = C]
  /\ UNCHANGED <<members, answer, told, returned>>

Tell(m, s) ==
  /\ verdict[m] # "none"
  /\ s \in members[m] \ told[m]
  /\ told' = [told EXCEPT ![m] = @ \cup {s}]
  /\ UNCHANGED <<members, answer, verdict, counted, returned>>

GiveBack(m, s) ==
  /\ told[m] = members[m]
  /\ s \in counted[m] \ returned[m]
  /\ returned' = [returned EXCEPT ![m] = @ \cup {s}]
  /\ UNCHANGED <<members, answer, verdict, counted, told>>

Next ==
  \E m \in Rooms :
    \/ \E S \in SUBSET Streams : Form(m, S) \/ Cancel(m, S)
    \/ Confirm(m)
    \/ \E s \in Streams : Tell(m, s) \/ GiveBack(m, s) \/ \E a \in {"yes", "no"} : Answer(m, s, a)

Spec == Init /\ [][Next]_vars
===============================================================================
