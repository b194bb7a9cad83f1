------------------------------ MODULE MatchQueue ------------------------------
(***************************************************************************)
(* What the matchmaking pool promises to the rest of the server, with no   *)
(* brackets, channels or goroutines: a ticket (the QueuedPlayer that one   *)
(* gateway stream owns) is queued under its player id, is held by whoever  *)
(* extracted it, or is out of play.  It joins once; after that only its    *)
(* holder can put it back.                                                 *)
(***************************************************************************)
EXTENDS Naturals, FiniteSets

CONSTANTS
  PlayerIDs,        \* player ids
  Tickets,          \* QueuedPlayer structs, one per accepted stream
  PlayerOf,         \* the PlayerID field of a ticket, never changed
  PlayersPerMatch,  \* number of tickets one extraction takes
  None              \* no ticket

VARIABLES
  players,          \* player id -> the ticket queued under it, or None
  closed,           \* tickets whose MatchCh has been closed
  held,             \* tickets extracted and not yet given back or let go
  joined            \* tickets whose one attempt to join is over

vars == <<players, closed, held, joined>>

Queued == {t \in Tickets : players[PlayerOf[t]] = t}

Init ==
  /\ players = [id \in PlayerIDs |-> None]
  /\ closed = {}
  /\ held = {}
  /\ joined = {}

\* A new stream joins, or is refused because its player id is queued.
Join(t) ==
  /\ t \notin joined
  /\ joined' = joined \cup {t}
  /\ players' = [players EXCEPT ![PlayerOf[t]] = IF @ = None THEN t ELSE @]
  /\ UNCHANGED <<closed, held>>

\* A queued player is removed and its channel is closed.
Dequeue(id) ==
  /\ players[id] # None
  /\ players' = [players EXCEPT ![id] = None]
  /\ closed' = closed \cup {players[id]}
  /\ UNCHANGED <<held, joined>>

\* A full room of queued tickets changes hands in one step.
Extract(S) ==
  /\ S \subseteq Queued
  /\ Cardinality(S) = PlayersPerMatch
  /\ players' = [id \in PlayerIDs |-> IF players[id] \in S THEN None ELSE players[id]]
  /\ held' = held \cup S
  /\ UNCHANGED <<closed, joined>>

\* A held ticket goes back under its player id, which must be free.
GiveBack(t) ==
  /\ t \in held
  /\ players[PlayerOf[t]] = None
  /\ players' = [players EXCEPT ![PlayerOf[t]] = t]
  /\ held' = held \ {t}
  /\ UNCHANGED <<closed, joined>>

\* Held tickets that will never be given back.
LetGo(S) ==
  /\ S \subseteq held
  /\ held' = held \ S
  /\ UNCHANGED <<players, closed, joined>>

Next ==
  \/ \E t \in Tickets : Join(t) \/ GiveBack(t)
  \/ \E id \in PlayerIDs : Dequeue(id)
  \/ \E S \in SUBSET Tickets : Extract(S) \/ LetGo(S)

Spec == Init /\ [][Next]_vars

===============================================================================
