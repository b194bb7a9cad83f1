------------------------ MODULE Matchmaking_refinement ------------------------
(***************************************************************************)
(* What the matchmaking core implements, for any sets of players, streams  *)
(* and rooms.  MatchQueue: a step of a goroutine is a step of the queue or *)
(* leaves its view alone.  RoomVerdict: whatever rooms a ticket goes       *)
(* through, each is an atomic commit of its own, and a room is formed only *)
(* of tickets that every earlier room has handed back.                     *)
(***************************************************************************)
EXTENDS Matchmaking_proofs, FiniteSetTheorems

-------------------------------------------------------------------------------
(* MatchQueue                                                                *)

\* Its view of the core: the index, the closed channels, Held, and the streams below.

Joined == {s \in Streams : handler[s] # "idle"}

-------------------------------------------------------------------------------
(* What the rooms hold                                                       *)

\* Held depends on the phases and the loops of the rooms only.
LEMMA HeldFrame ==
  ASSUME \A m \in Rooms : \A s \in Streams : Claims(m, s)' <=> Claims(m, s)
  PROVE  Held' = Held
  BY DEF Held

\* A room that stops claiming the tickets in D, which no other room claims.
LEMMA HeldShrinks ==
  ASSUME IInv, NEW m \in Rooms, NEW D, \A s \in D : Claims(m, s), D \subseteq Streams,
         \A s \in Streams : Claims(m, s)' <=> Claims(m, s) /\ s \notin D,
         \A m2 \in Rooms \ {m} : \A s \in Streams : Claims(m2, s)' <=> Claims(m2, s)
  PROVE  D \subseteq Held /\ Held' = Held \ D
<1>1. D \subseteq Held
  BY DEF Held
<1>2. ASSUME NEW s \in Streams, NEW m2 \in Rooms, Claims(m2, s), s \in D PROVE m2 = m
  BY <1>2 DEF IInv, OwnerInv, Keeps
<1>3. ASSUME NEW s \in Streams PROVE s \in Held' <=> s \in Held /\ s \notin D
  <2>1. CASE s \in D
    BY <2>1, <1>2 DEF Held
  <2>2. CASE s \notin D
    BY <2>2 DEF Held
  <2>. QED  BY <2>1, <2>2
<1>. QED  BY <1>1, <1>3 DEF Held

-------------------------------------------------------------------------------
(* Simulation                                                                *)

QueueStutter == UNCHANGED <<players, closed>> /\ Held' = Held /\ Joined' = Joined

\* The clients' steps, and the handlers' steps that leave the pool alone.
LEMMA QuietHandlers ==
  ASSUME IInv, NEW s \in Streams,
         \/ ClientStep(s) \/ ClientDone(s) \/ SendFails(s) \/ RemovedFromQueue(s)
         \/ TakeEvent(s) \/ AcceptRoom(s) \/ DeclineRoom(s) \/ LearnVerdict(s)
  PROVE  QueueStutter
<1>1. UNCHANGED <<players, closed>> /\ UNCHANGED roomVars
  BY DEF ClientStep, ClientAccepts, ClientStops, ClientDone, SendFails, RemovedFromQueue, Leave,
         TakeEvent, AcceptRoom, DeclineRoom, LearnVerdict, poolVars
<1>2. Held' = Held
  BY <1>1, HeldFrame DEF Claims, roomVars
<1>3. \A t \in Streams : handler'[t] # "idle" <=> handler[t] # "idle"
  <2>1. CASE ClientStep(s)
    BY <2>1 DEF ClientStep, ClientAccepts, ClientStops
  <2>2. CASE \/ ClientDone(s) \/ SendFails(s) \/ RemovedFromQueue(s)
             \/ TakeEvent(s) \/ AcceptRoom(s) \/ DeclineRoom(s) \/ LearnVerdict(s)
    <3>1. handler[s] \in {"waiting", "readycheck", "verdict"}
      BY <2>2 DEF ClientDone, SendFails, RemovedFromQueue, Leave, TakeEvent, AcceptRoom,
                  DeclineRoom, LearnVerdict
    <3>2. \E h \in {"waiting", "readycheck", "verdict", "leaving"} :
            handler' = [handler EXCEPT ![s] = h]
      BY <2>2 DEF ClientDone, SendFails, RemovedFromQueue, Leave, TakeEvent, AcceptRoom,
                  DeclineRoom, LearnVerdict
    <3>. QED  BY <3>1, <3>2 DEF IInv, TypeOK
  <2>. QED  BY <2>1, <2>2
<1>. QED  BY <1>1, <1>2, <1>3 DEF QueueStutter, Joined

\* Join is the queue's Join, whether or not the player id is free.
LEMMA JoinSimulates ==
  ASSUME IInv, NEW s \in Streams, Join(s)
  PROVE  Queue!Join(s)
<1>1. Held' = Held
  BY HeldFrame DEF Join, Claims, roomVars
<1>2. handler[s] = "idle" /\ s \notin Joined /\ Joined' = Joined \cup {s}
  BY DEF Join, Joined, IInv, TypeOK
<1>3. players' = [players EXCEPT ![PlayerOf[s]] = IF @ = None THEN s ELSE @]
  BY MatchmakingAssumption DEF Join, Insert, IInv, TypeOK
<1>. QED  BY <1>1, <1>2, <1>3 DEF Queue!Join, Join, Joined

\* Cancelled and Cleanup are the queue's Dequeue, or nothing when the id is free.
LEMMA DequeueSimulates ==
  ASSUME IInv, NEW s \in Streams, Cancelled(s) \/ Cleanup(s)
  PROVE  Queue!Dequeue(PlayerOf[s]) \/ QueueStutter
<1>1. Held' = Held
  BY HeldFrame DEF Cancelled, Cleanup, Claims, roomVars
<1>2. Joined' = Joined
  BY DEF Cancelled, Cleanup, Joined, IInv, TypeOK
<1>3. Dequeue(PlayerOf[s])
  BY DEF Cancelled, Cleanup
<1>. QED  BY <1>1, <1>2, <1>3 DEF Queue!Dequeue, Dequeue, QueueStutter, Joined, poolVars

\* Extraction is the queue's Extract: the room had no members before.
LEMMA ExtractSimulates ==
  ASSUME IInv, NEW m \in Rooms, NEW S \in SUBSET Streams, ExtractMatch(m, S)
  PROVE  Queue!Extract(S)
<1>1. \A s \in Streams : Claims(m, s)' <=> s \in S
  BY DEF ExtractMatch, Claims, IInv, TypeOK
<1>2. \A s \in Streams : ~Claims(m, s)
  BY DEF ExtractMatch, Claims
<1>3. \A m2 \in Rooms \ {m} : \A s \in Streams : Claims(m2, s)' <=> Claims(m2, s)
  BY DEF ExtractMatch, Claims, IInv, TypeOK
<1>4. Held' = Held \cup S
  BY <1>1, <1>2, <1>3 DEF Held
<1>5. Joined' = Joined
  BY DEF ExtractMatch, gatewayVars, Joined
<1>6. Queue!Cardinality(S) = Cardinality(S)
  BY DEF Queue!Cardinality, Cardinality
<1>. QED  BY <1>4, <1>5, <1>6 DEF Queue!Extract, Queue!Queued, Queued, ExtractMatch, Take, Joined

\* The steps of tick and of the coordinator that do not change what the room claims.
LEMMA QuietRooms ==
  ASSUME IInv, NEW m \in Rooms,
         \/ StartCoordinator(m) \/ Confirm(m) \/ RoomTimeout(m) \/ CloseRoom(m)
         \/ \E s \in Streams : Notify(m, s) \/ CountAccept(m, s) \/ FastFail(m, s) \/ SendResult(m, s)
  PROVE  QueueStutter
<1>1. UNCHANGED <<players, closed, handler, members>>
  BY DEF StartCoordinator, Confirm, RoomTimeout, CloseRoom, Notify, CountAccept, FastFail,
         SendResult, Decide, poolVars, gatewayVars
<1>2. \A m2 \in Rooms \ {m} : phase'[m2] = phase[m2] /\ todo'[m2] = todo[m2]
  BY DEF StartCoordinator, Confirm, RoomTimeout, CloseRoom, Notify, CountAccept, FastFail,
         SendResult, Decide, IInv, TypeOK
<1>3. \/ /\ phase[m] \in {"notifying", "gathering", "confirming", "cancelling"}
         /\ phase'[m] \in {"notifying", "gathering", "confirming", "cancelling"}
      \/ /\ phase[m] = "requeuing" /\ todo[m] = {}
         /\ phase'[m] = "cancelled"
  BY DEF StartCoordinator, Confirm, RoomTimeout, CloseRoom, Notify, CountAccept, FastFail,
         SendResult, Decide, IInv, TypeOK
<1>4. \A m2 \in Rooms : \A s \in Streams : Claims(m2, s)' <=> Claims(m2, s)
  BY <1>1, <1>2, <1>3 DEF Claims
<1>. QED  BY <1>1, <1>4, HeldFrame DEF QueueStutter, Joined

\* A confirmed room lets its members go; a cancelled one those it has not counted.
LEMMA ResultsSentSimulates ==
  ASSUME IInv, NEW m \in Rooms, ResultsSent(m)
  PROVE  \E D \in SUBSET Streams : Queue!LetGo(D)
<1> DEFINE D == IF phase[m] = "confirming" THEN members[m] ELSE members[m] \ accepted[m]
<1>1. D \subseteq Streams
  BY DEF IInv, TypeOK
<1>2. \A m2 \in Rooms \ {m} : \A s \in Streams : Claims(m2, s)' <=> Claims(m2, s)
  BY DEF ResultsSent, Claims, IInv, TypeOK
<1>3. \A s \in D : Claims(m, s)
  BY DEF ResultsSent, Claims
<1>4. \A s \in Streams : Claims(m, s)' <=> Claims(m, s) /\ s \notin D
  BY DEF ResultsSent, Claims, IInv, TypeOK, RoomInv
<1>5. D \subseteq Held /\ Held' = Held \ D
  <2> HIDE DEF D
  <2>. QED  BY ONLY IInv, m \in Rooms, <1>1, <1>2, <1>3, <1>4, HeldShrinks
<1>6. UNCHANGED <<players, closed, handler>>
  BY DEF ResultsSent, poolVars, gatewayVars
<1>. QED  BY <1>1, <1>5, <1>6 DEF Queue!LetGo

\* A re-enqueue gives the ticket back, or lets it go when the player id is taken.
LEMMA RequeueSimulates ==
  ASSUME IInv, NEW m \in Rooms, NEW s \in Streams, Requeue(m, s)
  PROVE  Queue!GiveBack(s) \/ Queue!LetGo({s})
<1>1. Claims(m, s)
  BY DEF Requeue, Claims
<1>2. \A t \in Streams : Claims(m, t)' <=> Claims(m, t) /\ t \notin {s}
  BY DEF Requeue, Claims, IInv, TypeOK
<1>3. \A m2 \in Rooms \ {m} : \A t \in Streams : Claims(m2, t)' <=> Claims(m2, t)
  BY DEF Requeue, Claims, IInv, TypeOK
<1>4. s \in Held /\ Held' = Held \ {s}
  <2>. DEFINE D == {s}
  <2>1. D \subseteq Streams /\ \A t \in D : Claims(m, t)
    BY <1>1
  <2>2. \A t \in Streams : Claims(m, t)' <=> Claims(m, t) /\ t \notin D
    BY <1>2
  <2>. HIDE DEF D
  <2>3. D \subseteq Held /\ Held' = Held \ D
    BY <2>1, <2>2, <1>3, HeldShrinks
  <2>. QED  BY <2>3 DEF D
<1>5. UNCHANGED <<closed, handler>> /\ ReEnqueue(s)
  BY DEF Requeue, gatewayVars
<1>. QED  BY <1>4, <1>5 DEF Queue!GiveBack, Queue!LetGo, ReEnqueue, Insert

-------------------------------------------------------------------------------
(* The theorem                                                               *)

\* Every step of the program is a step of the queue or leaves the queue's view alone.
LEMMA StepSimulation ==
  ASSUME IInv, [Next]_vars
  PROVE  [Queue!Next]_(Queue!vars)
<1>1. ASSUME QueueStutter PROVE UNCHANGED Queue!vars
  BY <1>1 DEF QueueStutter, Joined, Queue!vars
<1>2. CASE UNCHANGED vars
  <2>1. Held' = Held
    BY <1>2, HeldFrame DEF vars, roomVars, Claims
  <2>. QED  BY <1>1, <1>2, <2>1 DEF QueueStutter, Joined, vars, poolVars, gatewayVars
<1>3. ASSUME NEW s \in Streams, ClientStep(s) \/ HandlerStep(s)
      PROVE  [Queue!Next]_(Queue!vars)
  <2>1. CASE Join(s)
    BY <2>1, JoinSimulates DEF Queue!Next
  <2>2. CASE Cancelled(s) \/ Cleanup(s)
    BY <2>2, <1>1, DequeueSimulates, MatchmakingAssumption DEF Queue!Next
  <2>3. CASE \/ ClientStep(s) \/ ClientDone(s) \/ SendFails(s) \/ RemovedFromQueue(s)
             \/ TakeEvent(s) \/ AcceptRoom(s) \/ DeclineRoom(s) \/ LearnVerdict(s)
    BY <2>3, <1>1, QuietHandlers
  <2>. QED  BY <1>3, <2>1, <2>2, <2>3 DEF HandlerStep
<1>4. ASSUME NEW m \in Rooms, TickStep(m) \/ CoordinatorStep(m)
      PROVE  [Queue!Next]_(Queue!vars)
  <2>1. ASSUME NEW S \in SUBSET Streams, ExtractMatch(m, S) PROVE Queue!Next
    BY <2>1, ExtractSimulates DEF Queue!Next
  <2>2. CASE ResultsSent(m)
    BY <2>2, ResultsSentSimulates DEF Queue!Next
  <2>3. ASSUME NEW s \in Streams, Requeue(m, s) PROVE Queue!Next
    BY <2>3, RequeueSimulates DEF Queue!Next
  <2>4. CASE \/ StartCoordinator(m) \/ Confirm(m) \/ RoomTimeout(m) \/ CloseRoom(m)
             \/ \E s \in Streams : Notify(m, s) \/ CountAccept(m, s) \/ FastFail(m, s) \/ SendResult(m, s)
    BY <2>4, <1>1, QuietRooms
  <2>. QED  BY <1>4, <2>1, <2>2, <2>3, <2>4 DEF TickStep, CoordinatorStep
<1>. QED  BY <1>2, <1>3, <1>4 DEF Next

\* The goroutines around the pool keep its promise: a ticket joins once, changes hands by
\* full rooms, and only the coordinator that holds it can put it back.
THEOREM ImplementsQueue == Spec => QueueSpec
<1>1. Init => Queue!Init
  BY DEF Init, Queue!Init, Held, Claims
<1>2. IInv /\ [Next]_vars => [Queue!Next]_(Queue!vars)
  BY StepSimulation
<1>. QED  BY <1>1, <1>2, Invariance, PTL DEF Spec, QueueSpec, Queue!Spec

-------------------------------------------------------------------------------
(* RoomVerdict: frames of VInv                                               *)

\* FreeInv survives a step in which tickets leave the queue or a room, members stay and
\* what was handed back stays so.
LEMMA FreeShrinks ==
  ASSUME FreeInv, Queued' \subseteq Queued, UNCHANGED members,
         \A m \in Rooms : \A s \in Streams : Keeps(m, s)' => Keeps(m, s),
         \A m \in Rooms : \A s \in Streams : Returned(m, s) => Returned(m, s)'
  PROVE  FreeInv'
<1>1. Queued \subseteq Streams
  BY DEF Queued
<1>. QED  BY <1>1 DEF FreeInv

\* The conjuncts read the index and the rooms only.
LEMMA VFrame ==
  ASSUME VInv, Queued' \subseteq Queued, UNCHANGED <<phase, members, todo, accepted, result>>
  PROVE  VInv'
<1>1. \A m \in Rooms : \A s \in Streams : Keeps(m, s)' <=> Keeps(m, s)
  BY DEF Keeps, Claims
<1>2. \A m \in Rooms : \A s \in Streams : Returned(m, s)' <=> Returned(m, s)
  BY DEF Returned
<1>3. FreeInv'
  BY <1>1, <1>2, FreeShrinks DEF VInv
<1>4. TellInv'
  BY DEF VInv, TellInv
<1>. QED  BY <1>3, <1>4 DEF VInv

-------------------------------------------------------------------------------
(* One lemma per action that the rooms or the index can see                  *)

\* Nothing has been extracted yet.
LEMMA VInvInit == Init => VInv
  BY MatchmakingAssumption DEF Init, VInv, FreeInv, TellInv, Queued, Keeps, Claims

\* Everything the clients and the handlers do but Join: tickets only leave the queue.
LEMMA HandlersKeepVInv ==
  ASSUME IInv, VInv, NEW s \in Streams, ClientStep(s) \/ HandlerStep(s), ~Join(s)
  PROVE  VInv'
<1>1. UNCHANGED roomVars
  BY DEF ClientStep, ClientAccepts, ClientStops, HandlerStep, ClientDone, SendFails,
         RemovedFromQueue, Leave, Cancelled, TakeEvent, AcceptRoom, DeclineRoom, LearnVerdict, Cleanup
<1>2. Queued' \subseteq Queued
  <2>1. CASE Cancelled(s) \/ Cleanup(s)
    <3>1. Dequeue(PlayerOf[s]) /\ UNCHANGED <<matchCh, phase, members, todo>>
      BY <2>1 DEF Cancelled, Cleanup, roomVars
    <3>2. PlayerOf[s] \in PlayerIDs
      BY MatchmakingAssumption
    <3>. QED  BY <3>1, <3>2, DequeueOwners DEF IInv
  <2>2. CASE ~(Cancelled(s) \/ Cleanup(s))
    <3>1. UNCHANGED players
      BY <2>2 DEF ClientStep, ClientAccepts, ClientStops, HandlerStep, ClientDone, SendFails,
                  RemovedFromQueue, Leave, TakeEvent, AcceptRoom, DeclineRoom, LearnVerdict, poolVars
    <3>. QED  BY <3>1 DEF Queued
  <2>. QED  BY <2>1, <2>2
<1>. QED  BY <1>1, <1>2, VFrame DEF roomVars

\* A ticket that enters the queue has been in no room, or was handed back by all.
LEMMA InsertQueued ==
  ASSUME TypeOK, NEW s \in Streams, Insert(s)
  PROVE  Queued' \subseteq Queued \cup {s}
  BY MatchmakingAssumption DEF Insert, Queued, TypeOK

\* A stream that joins is a member of no room.
LEMMA JoinKeepsVInv ==
  ASSUME IInv, VInv, NEW s \in Streams, Join(s)
  PROVE  VInv'
<1>1. CASE UNCHANGED players
  BY <1>1, VFrame DEF Join, roomVars, Queued
<1>2. CASE Insert(s)
  <2>1. \A m \in Rooms : s \notin members[m]
    BY DEF Join, IInv, HandlerInv
  <2>2. Queued' \subseteq Queued \cup {s}
    BY <1>2, InsertQueued DEF IInv
  <2>3. UNCHANGED <<phase, members, todo, accepted, result>>
    BY DEF Join, roomVars
  <2>4. \A m \in Rooms : \A t \in Streams : (Keeps(m, t)' <=> Keeps(m, t)) /\ (Returned(m, t)' <=> Returned(m, t))
    BY <2>3 DEF Keeps, Claims, Returned
  <2>5. FreeInv'
    <3>1. ASSUME NEW t \in Queued', NEW m \in Rooms, t \in members'[m] PROVE Returned(m, t)'
      <4>1. t \in Queued /\ t \in Streams
        BY <3>1, <2>1, <2>2, <2>3 DEF Queued
      <4>. QED  BY <3>1, <4>1, <2>3, <2>4 DEF VInv, FreeInv
    <3>. QED  BY <3>1, <2>3, <2>4 DEF VInv, FreeInv
  <2>6. TellInv'
    BY <2>3 DEF VInv, TellInv
  <2>. QED  BY <2>5, <2>6 DEF VInv
<1>. QED  BY <1>1, <1>2 DEF Join

\* The extracted tickets were queued, so every room they have been in has handed them
\* back; and there is at least one of them.
LEMMA ExtractKeepsVInv ==
  ASSUME IInv, VInv, NEW m \in Rooms, NEW S \in SUBSET Streams, ExtractMatch(m, S)
  PROVE  VInv'
<1>1. phase[m] = "free" /\ S \subseteq Queued /\ members[m] = {}
  BY DEF ExtractMatch, Take, IInv, RoomInv
<1>2. phase'[m] = "notifying" /\ members'[m] = S /\ todo'[m] = S
  BY DEF ExtractMatch, IInv, TypeOK
<1>3. \A n \in Rooms \ {m} : phase'[n] = phase[n] /\ members'[n] = members[n] /\ todo'[n] = todo[n]
  BY DEF ExtractMatch, IInv, TypeOK
<1>4. UNCHANGED <<accepted, result>>
  BY DEF ExtractMatch
<1>5. \A s \in Streams : s \in Queued' => s \in Queued /\ s \notin S
  <2>1. players' = [id \in PlayerIDs |-> IF players[id] \in S THEN None ELSE players[id]]
    BY DEF ExtractMatch, Take
  <2>. QED  BY <1>1, <2>1, MatchmakingAssumption DEF Queued
<1>6. \A n \in Rooms \ {m} : \A s \in Streams :
        (Keeps(n, s)' <=> Keeps(n, s)) /\ (Returned(n, s)' <=> Returned(n, s))
  BY <1>3, <1>4 DEF Keeps, Claims, Returned
<1>7. \A s \in Streams : Keeps(m, s)' => s \in S
  BY <1>2 DEF Keeps, Claims
<1>8. FreeInv'
  <2>1. ASSUME NEW s \in Queued', NEW n \in Rooms, s \in members'[n] PROVE Returned(n, s)'
    <3>1. s \in Streams
      BY <2>1 DEF Queued
    <3>2. s \in Queued /\ n # m
      BY <2>1, <3>1, <1>2, <1>5
    <3>. QED  BY <2>1, <3>1, <3>2, <1>3, <1>6 DEF VInv, FreeInv
  <2>2. ASSUME NEW n \in Rooms, NEW s \in Streams, Keeps(n, s)', NEW n2 \in Rooms \ {n}, s \in members'[n2]
        PROVE  Returned(n2, s)'
    <3>1. CASE n = m
      BY <3>1, <2>2, <1>1, <1>3, <1>6, <1>7 DEF VInv, FreeInv
    <3>2. CASE n # m
      <4>1. Keeps(n, s)
        BY <3>2, <2>2, <1>6
      <4>2. n2 # m
        BY <4>1, <2>2, <1>1, <1>2 DEF IInv, PoolInv
      <4>. QED  BY <4>1, <4>2, <2>2, <1>3, <1>6 DEF VInv, FreeInv
    <3>. QED  BY <3>1, <3>2
  <2>. QED  BY <2>1, <2>2 DEF FreeInv
<1>9. S # {}
  BY FS_EmptySet, MatchmakingAssumption DEF ExtractMatch, Take
<1>10. TellInv'
  BY <1>1, <1>2, <1>3, <1>4, <1>9 DEF VInv, TellInv
<1>. QED  BY <1>8, <1>10 DEF VInv

\* Notification and counting come before the verdict.
LEMMA EarlyKeepsVInv ==
  ASSUME IInv, VInv, NEW m \in Rooms,
         \/ StartCoordinator(m)
         \/ \E s \in Streams : Notify(m, s) \/ CountAccept(m, s)
  PROVE  VInv'
<1>1. UNCHANGED <<players, members, result>>
  BY DEF StartCoordinator, Notify, CountAccept, poolVars
<1>2. \A n \in Rooms \ {m} : phase'[n] = phase[n] /\ todo'[n] = todo[n] /\ accepted'[n] = accepted[n]
  BY DEF StartCoordinator, Notify, CountAccept, IInv, TypeOK
<1>3. /\ phase[m] \in {"notifying", "gathering"} /\ phase'[m] \in {"notifying", "gathering"}
      /\ phase'[m] = "gathering" => todo'[m] = {}
  BY DEF StartCoordinator, Notify, CountAccept, IInv, TypeOK, VInv, TellInv
<1>4. \A n \in Rooms : \A s \in Streams : (Keeps(n, s)' <=> Keeps(n, s)) /\ (Returned(n, s)' <=> Returned(n, s))
  BY <1>1, <1>2, <1>3 DEF Keeps, Claims, Returned
<1>5. FreeInv'
  BY <1>1, <1>4, FreeShrinks DEF VInv, Queued
<1>6. TellInv'
  BY <1>1, <1>2, <1>3 DEF VInv, TellInv
<1>. QED  BY <1>5, <1>6 DEF VInv

\* The verdict: cancelled only when somebody has not been counted.
LEMMA DecideKeepsVInv ==
  ASSUME IInv, VInv, NEW m \in Rooms, Confirm(m) \/ RoomTimeout(m) \/ \E s \in Streams : FastFail(m, s)
  PROVE  VInv'
<1>1. UNCHANGED <<players, members, accepted, result>>
  BY DEF Confirm, RoomTimeout, FastFail, Decide, poolVars
<1>2. \A n \in Rooms \ {m} : phase'[n] = phase[n] /\ todo'[n] = todo[n]
  BY DEF Confirm, RoomTimeout, FastFail, Decide, IInv, TypeOK
<1>3. phase[m] = "gathering" /\ todo'[m] = members[m]
  BY DEF Confirm, RoomTimeout, FastFail, Decide, IInv, TypeOK
<1>4. \/ phase'[m] = "confirming" /\ accepted[m] = members[m]
      \/ phase'[m] = "cancelling" /\ accepted[m] # members[m]
  BY DEF Confirm, RoomTimeout, FastFail, Decide, IInv, TypeOK, RoomInv
<1>5. \A n \in Rooms : \A s \in Streams : (Keeps(n, s)' <=> Keeps(n, s)) /\ (Returned(n, s)' <=> Returned(n, s))
  BY <1>1, <1>2, <1>3, <1>4 DEF Keeps, Claims, Returned
<1>6. FreeInv'
  BY <1>1, <1>5, FreeShrinks DEF VInv, Queued
<1>7. TellInv'
  BY <1>1, <1>2, <1>3, <1>4 DEF VInv, TellInv
<1>. QED  BY <1>6, <1>7 DEF VInv

\* The results go out one by one.
LEMMA SendResultKeepsVInv ==
  ASSUME IInv, VInv, NEW m \in Rooms, NEW s \in Streams, SendResult(m, s)
  PROVE  VInv'
<1>1. UNCHANGED <<players, phase, members, accepted>>
  BY DEF SendResult, poolVars
<1>2. todo'[m] = todo[m] \ {s} /\ \A n \in Rooms \ {m} : todo'[n] = todo[n]
  BY DEF SendResult, IInv, TypeOK
<1>3. result'[m][s] # "none"
      /\ \A n \in Rooms : \A t \in Streams : n # m \/ t # s => result'[n][t] = result[n][t]
  BY DEF SendResult, IInv, TypeOK
<1>4. phase[m] \in {"confirming", "cancelling"} /\ s \in members[m] /\ s \in todo[m]
  BY DEF SendResult, IInv, RoomInv
<1>5. \A n \in Rooms : \A t \in Streams : (Keeps(n, t)' <=> Keeps(n, t)) /\ (Returned(n, t)' <=> Returned(n, t))
  BY <1>1, <1>2, <1>4 DEF Keeps, Claims, Returned
<1>6. FreeInv'
  BY <1>1, <1>5, FreeShrinks DEF VInv, Queued
<1>7. TellInv'
  BY <1>1, <1>2, <1>3, <1>4 DEF VInv, TellInv
<1>. QED  BY <1>6, <1>7 DEF VInv

\* Everybody has been told when the coordinator goes on, or returns.
LEMMA GoOnKeepsVInv ==
  ASSUME IInv, VInv, NEW m \in Rooms, ResultsSent(m) \/ CloseRoom(m)
  PROVE  VInv'
<1>1. UNCHANGED <<players, members, accepted, result>>
  BY DEF ResultsSent, CloseRoom, poolVars
<1>2. \A n \in Rooms \ {m} : phase'[n] = phase[n] /\ todo'[n] = todo[n]
  BY DEF ResultsSent, CloseRoom, IInv, TypeOK
<1>3. /\ todo[m] = {}
      /\ \/ phase[m] = "confirming" /\ phase'[m] = "confirmed" /\ todo'[m] = {}
         \/ phase[m] = "cancelling" /\ phase'[m] = "requeuing" /\ todo'[m] = accepted[m]
         \/ phase[m] = "requeuing" /\ phase'[m] = "cancelled" /\ todo'[m] = {}
  BY DEF ResultsSent, CloseRoom, IInv, TypeOK
<1>4. \A n \in Rooms : \A s \in Streams : (Keeps(n, s)' => Keeps(n, s)) /\ (Returned(n, s)' <=> Returned(n, s))
  BY <1>1, <1>2, <1>3 DEF Keeps, Claims, Returned, IInv, RoomInv
<1>5. FreeInv'
  BY <1>1, <1>4, FreeShrinks DEF VInv, Queued
<1>6. TellInv'
  BY <1>1, <1>2, <1>3 DEF VInv, TellInv
<1>. QED  BY <1>5, <1>6 DEF VInv

\* The last room that kept the ticket hands it back: all the others have.
LEMMA RequeueKeepsVInv ==
  ASSUME IInv, VInv, NEW m \in Rooms, NEW s \in Streams, Requeue(m, s)
  PROVE  VInv'
<1>1. UNCHANGED <<phase, members, accepted, result>>
  BY DEF Requeue
<1>2. todo'[m] = todo[m] \ {s} /\ \A n \in Rooms \ {m} : todo'[n] = todo[n]
  BY DEF Requeue, IInv, TypeOK
<1>3. phase[m] = "requeuing" /\ s \in todo[m] /\ s \in accepted[m] /\ Keeps(m, s)
  BY DEF Requeue, IInv, RoomInv, Keeps, Claims
<1>4. Queued' \subseteq Queued \cup {s}
  <2>1. CASE Insert(s)
    BY <2>1, InsertQueued DEF IInv
  <2>. QED  BY <2>1 DEF Requeue, ReEnqueue, Queued
<1>5. \A n \in Rooms : \A t \in Streams : (Keeps(n, t)' => Keeps(n, t)) /\ (Returned(n, t) => Returned(n, t)')
  BY <1>1, <1>2, <1>3 DEF Keeps, Claims, Returned
<1>6. Returned(m, s)'
  BY <1>1, <1>2, <1>3 DEF Returned
<1>7. FreeInv'
  <2>1. ASSUME NEW t \in Queued', NEW n \in Rooms, t \in members'[n] PROVE Returned(n, t)'
    <3>1. t \in Streams
      BY <2>1 DEF Queued
    <3>2. CASE t = s /\ n = m
      BY <3>2, <1>6
    <3>3. CASE t = s /\ n # m
      BY <3>3, <2>1, <1>1, <1>3, <1>5 DEF VInv, FreeInv
    <3>4. CASE t # s
      BY <3>1, <3>4, <2>1, <1>1, <1>4, <1>5 DEF VInv, FreeInv
    <3>. QED  BY <3>2, <3>3, <3>4
  <2>. QED  BY <2>1, <1>1, <1>5 DEF VInv, FreeInv
<1>8. TellInv'
  BY <1>1, <1>2, <1>3 DEF VInv, TellInv
<1>. QED  BY <1>7, <1>8 DEF VInv

\* Every step preserves the extension of the invariant.
LEMMA VInvStep == IInv /\ VInv /\ [Next]_vars => VInv'
<1> SUFFICES ASSUME IInv, VInv, [Next]_vars PROVE VInv'
  OBVIOUS
<1>1. CASE UNCHANGED vars
  BY <1>1, VFrame DEF vars, poolVars, roomVars, Queued
<1>2. ASSUME NEW s \in Streams, ClientStep(s) \/ HandlerStep(s) PROVE VInv'
  BY <1>2, HandlersKeepVInv, JoinKeepsVInv
<1>3. ASSUME NEW m \in Rooms, TickStep(m) \/ CoordinatorStep(m) PROVE VInv'
  BY <1>3, ExtractKeepsVInv, EarlyKeepsVInv, DecideKeepsVInv, SendResultKeepsVInv, GoOnKeepsVInv,
     RequeueKeepsVInv DEF TickStep, CoordinatorStep
<1>. QED  BY <1>1, <1>2, <1>3 DEF Next

\* A ticket that is queued or kept by a room was handed back by every other room it has
\* been in, and a coordinator goes on only when all of its members have their result.
THEOREM RoomsAreDone == Spec => []VInv
<1>1. Init => VInv
  BY VInvInit
<1>2. IInv /\ VInv /\ [Next]_vars => VInv'
  BY VInvStep
<1>. QED  BY <1>1, <1>2, Invariance, PTL DEF Spec

-------------------------------------------------------------------------------
(* Simulation                                                                *)

\* The view of RoomVerdict, variable by variable.
Decided == [m \in Rooms |-> VerdictOf(m)]

Counted == [m \in Rooms |-> IF VerdictOf(m) = "cancelled" THEN accepted[m] ELSE {}]

Told == [m \in Rooms |-> {s \in Streams : result[m][s] # "none"}]

Back == [m \in Rooms |-> {s \in Streams : Returned(m, s)}]

\* The coordinators' state reaches the view through these four only.
LEMMA SameRooms ==
  ASSUME UNCHANGED <<phase, accepted, todo, result>>
  PROVE  UNCHANGED <<Decided, Counted, Told, Back>>
<1>1. \A m \in Rooms : VerdictOf(m)' = VerdictOf(m)
  BY DEF VerdictOf
<1>2. \A m \in Rooms : \A s \in Streams : Returned(m, s)' <=> Returned(m, s)
  BY DEF Returned
<1>3. Decided' = Decided
  BY <1>1 DEF Decided
<1>4. Counted' = Counted
  BY <1>1 DEF Counted
<1>5. Told' = Told
  BY DEF Told
<1>6. Back' = Back
  BY <1>2 DEF Back
<1>. QED  BY <1>3, <1>4, <1>5, <1>6

\* Before the verdict the view does not change with the room.
LEMMA EarlyRooms ==
  ASSUME NEW m \in Rooms, UNCHANGED result,
         \A n \in Rooms \ {m} : phase'[n] = phase[n] /\ todo'[n] = todo[n] /\ accepted'[n] = accepted[n],
         phase[m] \in {"free", "notifying", "gathering"}, phase'[m] \in {"free", "notifying", "gathering"}
  PROVE  UNCHANGED <<Decided, Counted, Told, Back>>
<1>1. \A n \in Rooms : VerdictOf(n)' = VerdictOf(n)
  BY DEF VerdictOf
<1>2. VerdictOf(m) = "none"
  BY DEF VerdictOf
<1>3. \A n \in Rooms : \A s \in Streams : Returned(n, s)' <=> Returned(n, s)
  BY DEF Returned
<1>4. Decided' = Decided
  BY <1>1 DEF Decided
<1>5. Counted' = Counted
  BY <1>1, <1>2 DEF Counted
<1>6. Told' = Told
  BY DEF Told
<1>7. Back' = Back
  BY <1>3 DEF Back
<1>. QED  BY <1>4, <1>5, <1>6, <1>7

VerdictStutter == UNCHANGED <<members, answer, Decided, Counted, Told, Back>>

\* Clients and handlers change nothing but answers.
LEMMA HandlersSimulate ==
  ASSUME IInv, NEW s \in Streams, ClientStep(s) \/ HandlerStep(s)
  PROVE  VerdictStutter \/ \E m \in Rooms, a \in {"yes", "no"} : Verdict!Answer(m, s, a)
<1>1. UNCHANGED roomVars
  BY DEF ClientStep, ClientAccepts, ClientStops, HandlerStep, Join, ClientDone, SendFails,
         RemovedFromQueue, Leave, Cancelled, TakeEvent, AcceptRoom, DeclineRoom, LearnVerdict, Cleanup
<1>2. UNCHANGED <<members, Decided, Counted, Told, Back>>
  BY <1>1, SameRooms DEF roomVars
<1>3. CASE UNCHANGED answer
  BY <1>2, <1>3 DEF VerdictStutter
<1>4. ASSUME NEW a \in {"yes", "no"}, Respond(s, a), handler[s] = "readycheck"
      PROVE  Verdict!Answer(evt[s], s, a) /\ evt[s] \in Rooms
  <2>1. evt[s] \in Rooms /\ answer[evt[s]][s] = "none" /\ s \in members[evt[s]]
    BY <1>4 DEF IInv, HandlerInv, EventInv
  <2>. QED  BY <1>2, <1>4, <2>1 DEF Respond, Verdict!Answer, Decided, Counted, Told, Back
<1>5. CASE AcceptRoom(s) \/ DeclineRoom(s)
  BY <1>4, <1>5 DEF AcceptRoom, DeclineRoom
<1>6. CASE ~(AcceptRoom(s) \/ DeclineRoom(s))
  BY <1>3, <1>6 DEF ClientStep, ClientAccepts, ClientStops, HandlerStep, Join, ClientDone, SendFails,
                    RemovedFromQueue, Leave, Cancelled, TakeEvent, LearnVerdict, Cleanup
<1>. QED  BY <1>5, <1>6

\* Extraction forms a room: FreeInv says that its tickets are free.
LEMMA ExtractForms ==
  ASSUME IInv, VInv, NEW m \in Rooms, NEW S \in SUBSET Streams, ExtractMatch(m, S)
  PROVE  Verdict!Form(m, S)
<1>1. members[m] = {} /\ S \subseteq Queued
  BY DEF ExtractMatch, Take, IInv, RoomInv
<1>2. S # {}
  BY FS_EmptySet, MatchmakingAssumption DEF ExtractMatch, Take
<1>3. \A s \in S : \A n \in Rooms : s \in members[n] => s \in Back[n]
  BY <1>1 DEF VInv, FreeInv, Back
<1>4. UNCHANGED <<Decided, Counted, Told, Back>>
  <2>1. phase[m] = "free" /\ phase'[m] = "notifying"
    BY DEF ExtractMatch, IInv, TypeOK
  <2>2. \A n \in Rooms \ {m} : phase'[n] = phase[n] /\ todo'[n] = todo[n] /\ accepted'[n] = accepted[n]
    BY DEF ExtractMatch, IInv, TypeOK
  <2>. QED  BY <2>1, <2>2, EarlyRooms DEF ExtractMatch
<1>. QED
  BY <1>1, <1>2, <1>3, <1>4
  DEF ExtractMatch, Verdict!Form, Verdict!Free, Decided, Counted, Told, Back

\* The verdict: confirmed when all have said yes, cancelled with fewer counted.
LEMMA DecideSimulates ==
  ASSUME IInv, VInv, NEW m \in Rooms, Confirm(m) \/ RoomTimeout(m) \/ \E s \in Streams : FastFail(m, s),
         NEW C, C = accepted[m]
  PROVE  Verdict!Confirm(m) \/ Verdict!Cancel(m, C)
<1>1. UNCHANGED <<members, answer, accepted, result>>
  BY DEF Confirm, RoomTimeout, FastFail, Decide
<1>2. \A n \in Rooms \ {m} : phase'[n] = phase[n] /\ todo'[n] = todo[n]
  BY DEF Confirm, RoomTimeout, FastFail, Decide, IInv, TypeOK
<1>3. /\ phase[m] = "gathering" /\ members[m] # {} /\ accepted[m] \subseteq members[m]
      /\ \A s \in accepted[m] : answer[m][s] = "yes"
  BY DEF Confirm, RoomTimeout, FastFail, Decide, IInv, RoomInv, VInv, TellInv
<1>4. \/ phase'[m] = "confirming" /\ accepted[m] = members[m]
      \/ phase'[m] = "cancelling" /\ accepted[m] # members[m]
  BY DEF Confirm, RoomTimeout, FastFail, Decide, IInv, TypeOK, RoomInv
<1>5. /\ VerdictOf(m) = "none"
      /\ VerdictOf(m)' = IF phase'[m] = "confirming" THEN "confirmed" ELSE "cancelled"
      /\ \A n \in Rooms \ {m} : VerdictOf(n)' = VerdictOf(n)
  BY <1>2, <1>3, <1>4 DEF VerdictOf
<1>6. UNCHANGED <<Told, Back>>
  <2>1. \A n \in Rooms : \A s \in Streams : Returned(n, s)' <=> Returned(n, s)
    BY <1>1, <1>2, <1>3, <1>4 DEF Returned
  <2>. QED  BY <1>1, <2>1 DEF Told, Back
<1>7. Decided' = [Decided EXCEPT ![m] = VerdictOf(m)'] /\ Decided[m] = "none"
  BY <1>5 DEF Decided
<1>8. Counted' = [Counted EXCEPT ![m] = IF phase'[m] = "cancelling" THEN accepted[m] ELSE Counted[m]]
  BY <1>1, <1>4, <1>5 DEF Counted
<1>9. CASE phase'[m] = "confirming"
  <2>1. Counted' = Counted
    BY <1>8, <1>9 DEF Counted
  <2>2. Decided' = [Decided EXCEPT ![m] = "confirmed"]
    BY <1>5, <1>7, <1>9
  <2>3. \A s \in members[m] : answer[m][s] = "yes"
    BY <1>3, <1>4, <1>9
  <2>. QED  BY <1>1, <1>3, <1>6, <1>7, <2>1, <2>2, <2>3 DEF Verdict!Confirm, Decided, Counted, Told, Back
<1>10. CASE phase'[m] = "cancelling"
  <2>1. Counted' = [Counted EXCEPT ![m] = accepted[m]]
    BY <1>8, <1>10
  <2>2. Decided' = [Decided EXCEPT ![m] = "cancelled"]
    BY <1>5, <1>7, <1>10
  <2>. QED  BY <1>1, <1>3, <1>4, <1>6, <1>7, <1>10, <2>1, <2>2 DEF Verdict!Cancel, Decided, Counted, Told, Back
<1>. QED  BY <1>4, <1>9, <1>10

\* A member that is in the loop has not been told.
LEMMA SendResultTells ==
  ASSUME IInv, VInv, NEW m \in Rooms, NEW s \in Streams, SendResult(m, s)
  PROVE  Verdict!Tell(m, s)
<1>1. UNCHANGED <<members, answer, phase, accepted>>
  BY DEF SendResult
<1>2. \A n \in Rooms \ {m} : todo'[n] = todo[n]
  BY DEF SendResult, IInv, TypeOK
<1>3. result'[m][s] # "none"
      /\ \A n \in Rooms : \A t \in Streams : n # m \/ t # s => result'[n][t] = result[n][t]
  BY DEF SendResult, IInv, TypeOK
<1>4. phase[m] \in {"confirming", "cancelling"} /\ s \in members[m] /\ result[m][s] = "none"
  BY DEF SendResult, IInv, RoomInv, VInv, TellInv
<1>5. UNCHANGED <<Decided, Counted, Back>>
  <2>1. \A n \in Rooms : VerdictOf(n)' = VerdictOf(n)
    BY <1>1 DEF VerdictOf
  <2>2. \A n \in Rooms : \A t \in Streams : Returned(n, t)' <=> Returned(n, t)
    BY <1>1, <1>2, <1>4 DEF Returned
  <2>. QED  BY <1>1, <2>1, <2>2 DEF Decided, Counted, Back
<1>6. Told' = [Told EXCEPT ![m] = @ \cup {s}]
  <2>1. \A t \in Streams : result'[m][t] # "none" <=> result[m][t] # "none" \/ t = s
    BY <1>3
  <2>2. \A n \in Rooms \ {m} : \A t \in Streams : result'[n][t] # "none" <=> result[n][t] # "none"
    BY <1>3
  <2>. QED  BY <2>1, <2>2 DEF Told
<1>7. Decided[m] # "none" /\ s \in members[m] \ Told[m]
  BY <1>4 DEF Decided, VerdictOf, Told
<1>. QED  BY <1>1, <1>5, <1>6, <1>7 DEF Verdict!Tell, Decided, Counted, Told, Back

\* The coordinator goes on: nothing has been handed back yet, or all of it.
LEMMA GoOnStutters ==
  ASSUME IInv, VInv, NEW m \in Rooms, ResultsSent(m) \/ CloseRoom(m)
  PROVE  VerdictStutter
<1>1. UNCHANGED <<members, answer, accepted, result>>
  BY DEF ResultsSent, CloseRoom
<1>2. \A n \in Rooms \ {m} : phase'[n] = phase[n] /\ todo'[n] = todo[n]
  BY DEF ResultsSent, CloseRoom, IInv, TypeOK
<1>3. \/ phase[m] = "confirming" /\ phase'[m] = "confirmed"
      \/ phase[m] = "cancelling" /\ phase'[m] = "requeuing" /\ todo'[m] = accepted[m]
      \/ phase[m] = "requeuing" /\ phase'[m] = "cancelled" /\ todo'[m] = todo[m]
  BY DEF ResultsSent, CloseRoom, IInv, TypeOK
<1>4. \A n \in Rooms : VerdictOf(n)' = VerdictOf(n)
  BY <1>2, <1>3 DEF VerdictOf
<1>5. \A n \in Rooms : \A s \in Streams : Returned(n, s)' <=> Returned(n, s)
  BY <1>1, <1>2, <1>3 DEF Returned
<1>. QED  BY <1>1, <1>4, <1>5 DEF VerdictStutter, Decided, Counted, Told, Back

\* A re-enqueue hands the ticket back, whether the pool takes it or not.
LEMMA RequeueGivesBack ==
  ASSUME IInv, VInv, NEW m \in Rooms, NEW s \in Streams, Requeue(m, s)
  PROVE  Verdict!GiveBack(m, s)
<1>1. UNCHANGED <<members, answer, phase, accepted, result>>
  BY DEF Requeue
<1>2. todo'[m] = todo[m] \ {s} /\ \A n \in Rooms \ {m} : todo'[n] = todo[n]
  BY DEF Requeue, IInv, TypeOK
<1>3. phase[m] = "requeuing" /\ s \in todo[m] /\ s \in accepted[m]
  BY DEF Requeue, IInv, RoomInv
<1>4. UNCHANGED <<Decided, Counted, Told>>
  BY <1>1 DEF Decided, Counted, Told, VerdictOf
<1>5. Back' = [Back EXCEPT ![m] = @ \cup {s}]
  <2>1. \A t \in Streams : Returned(m, t)' <=> Returned(m, t) \/ t = s
    BY <1>1, <1>2, <1>3 DEF Returned
  <2>2. \A n \in Rooms \ {m} : \A t \in Streams : Returned(n, t)' <=> Returned(n, t)
    BY <1>1, <1>2 DEF Returned
  <2>. QED  BY <2>1, <2>2 DEF Back
<1>6. Told[m] = members[m]
  <2>1. members[m] \subseteq Streams
    BY DEF IInv, TypeOK
  <2>2. \A t \in Streams : result[m][t] # "none" <=> t \in members[m]
    BY <1>3 DEF VInv, TellInv
  <2>. QED  BY <2>1, <2>2 DEF Told
<1>7. s \in Counted[m] \ Back[m]
  BY <1>3 DEF Counted, VerdictOf, Back, Returned
<1>. QED  BY <1>1, <1>4, <1>5, <1>6, <1>7 DEF Verdict!GiveBack, Decided, Counted, Told, Back

\* Every step of the program is a step of the rooms' commits or leaves their view alone.
LEMMA VerdictSimulation ==
  ASSUME IInv, VInv, [Next]_vars
  PROVE  [Verdict!Next]_(Verdict!vars)
<1>1. ASSUME VerdictStutter PROVE UNCHANGED Verdict!vars
  BY <1>1 DEF VerdictStutter, Verdict!vars, Decided, Counted, Told, Back
<1>2. CASE UNCHANGED vars
  BY <1>1, <1>2, SameRooms DEF VerdictStutter, vars, roomVars
<1>3. ASSUME NEW s \in Streams, ClientStep(s) \/ HandlerStep(s)
      PROVE  [Verdict!Next]_(Verdict!vars)
  <2>1. CASE VerdictStutter
    BY <1>1, <2>1
  <2>2. CASE \E m \in Rooms, a \in {"yes", "no"} : Verdict!Answer(m, s, a)
    BY <2>2 DEF Verdict!Next
  <2>. QED  BY <1>3, <2>1, <2>2, HandlersSimulate
<1>4. ASSUME NEW m \in Rooms, TickStep(m) \/ CoordinatorStep(m)
      PROVE  [Verdict!Next]_(Verdict!vars)
  <2>1. ASSUME NEW S \in SUBSET Streams, ExtractMatch(m, S) PROVE Verdict!Next
    BY <2>1, ExtractForms DEF Verdict!Next
  <2>2. CASE \/ StartCoordinator(m) \/ \E s \in Streams : Notify(m, s) \/ CountAccept(m, s)
    <3>1. UNCHANGED <<members, answer, result>>
      BY <2>2 DEF StartCoordinator, Notify, CountAccept
    <3>2. \A n \in Rooms \ {m} : phase'[n] = phase[n] /\ todo'[n] = todo[n] /\ accepted'[n] = accepted[n]
      BY <2>2 DEF StartCoordinator, Notify, CountAccept, IInv, TypeOK
    <3>3. phase[m] \in {"notifying", "gathering"} /\ phase'[m] \in {"notifying", "gathering"}
      BY <2>2 DEF StartCoordinator, Notify, CountAccept, IInv, TypeOK
    <3>. QED  BY <1>1, <3>1, <3>2, <3>3, EarlyRooms DEF VerdictStutter
  <2>3. CASE Confirm(m) \/ RoomTimeout(m) \/ \E s \in Streams : FastFail(m, s)
    <3>1. PICK C \in SUBSET Streams : C = accepted[m]
      BY DEF IInv, TypeOK
    <3>2. Verdict!Confirm(m) \/ Verdict!Cancel(m, C)
      BY <2>3, <3>1, DecideSimulates
    <3>. QED  BY <3>2 DEF Verdict!Next
  <2>4. ASSUME NEW s \in Streams, SendResult(m, s) PROVE Verdict!Next
    BY <2>4, SendResultTells DEF Verdict!Next
  <2>5. CASE ResultsSent(m) \/ CloseRoom(m)
    BY <1>1, <2>5, GoOnStutters
  <2>6. ASSUME NEW s \in Streams, Requeue(m, s) PROVE Verdict!Next
    BY <2>6, RequeueGivesBack DEF Verdict!Next
  <2>. QED  BY <1>4, <2>1, <2>2, <2>3, <2>4, <2>5, <2>6 DEF TickStep, CoordinatorStep
<1>. QED  BY <1>2, <1>3, <1>4 DEF Next

\* Every room is an atomic commit for its members: confirmed only with all their yeses,
\* cancelled with fewer, one verdict for all of them, and no ticket is drafted into a
\* room while an earlier one is not through with it.
THEOREM ImplementsVerdict == Spec => VerdictSpec
<1>1. Init => Verdict!Init
  BY MatchmakingAssumption DEF Init, Verdict!Init, VerdictOf, Returned
<1>2. IInv /\ VInv /\ [Next]_vars => [Verdict!Next]_(Verdict!vars)
  BY VerdictSimulation
<1>. QED  BY <1>1, <1>2, Invariance, RoomsAreDone, PTL DEF Spec, VerdictSpec, Verdict!Spec

===============================================================================
