---------------------------- MODULE MCMatchmaking ----------------------------
(***************************************************************************)
(* Instances of Matchmaking for TLC.                                       *)
(***************************************************************************)
EXTENDS Matchmaking, TLC

CONSTANTS s1, s2, s3, p1, p2

\* Three streams under two player ids: s2 and s3 are the same player.
SharedIDs == (s1 :> p1) @@ (s2 :> p2) @@ (s3 :> p2)

\* One stream per player: the stream doubles as its player's id.
OwnIDs == [s \in Streams |-> s]

\* Bound: at most one client cancels or disconnects, and clients only click Accept
\* while a ready check is on the screen.  They may still ignore it, or fail a push.
OneClientStops == Cardinality({s \in Streams : client[s] # "open"}) <= 1

PromptedClicks == \A s \in Streams : acceptReq[s] # Unprompted

OneStopsPrompted == OneClientStops /\ PromptedClicks

SecondPlayerAndRooms == Permutations({s2, s3}) \cup Permutations(Rooms)
==============================================================================
