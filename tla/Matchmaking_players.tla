-------------------------- MODULE Matchmaking_players --------------------------
(***************************************************************************)
(* What the core promises a player, for any sets of players, streams and   *)
(* rooms: how a ticket leaves the queue, who may leave one behind, and     *)
(* that a counted player with one stream stays in play.                    *)
(***************************************************************************)
EXTENDS Matchmaking_refinement

-------------------------------------------------------------------------------
(* How a ticket leaves the queue                                             *)

\* The pool operations by id: Dequeue touches one id, Insert one that was free.
LEMMA DequeueOthers ==
  ASSUME TypeOK, NEW id \in PlayerIDs, Dequeue(id)
  PROVE  \A s \in Streams : PlayerOf[s] # id => (s \in Queued' <=> s \in Queued)
  BY MatchmakingAssumption DEF Dequeue, Queued, TypeOK, poolVars

\* Insert adds one ticket, under an id that was free.
LEMMA InsertOthers ==
  ASSUME TypeOK, NEW s \in Streams, Insert(s)
  PROVE  /\ s \in Queued'
         /\ \A t \in Streams : PlayerOf[t] # PlayerOf[s] => (t \in Queued' <=> t \in Queued)
  BY MatchmakingAssumption DEF Insert, Queued, TypeOK

\* A handler's step removes a ticket only by the Dequeue of a stream on its way out.
LEMMA HandlersEvict ==
  ASSUME IInv, NEW t \in Streams, ClientStep(t) \/ HandlerStep(t), NEW s \in Queued, s \notin Queued'
  PROVE  PlayerOf[t] = PlayerOf[s] /\ OnTheWayOut(t)
<1>1. s \in Streams /\ players[PlayerOf[s]] = s /\ None \notin Streams
  BY MatchmakingAssumption DEF Queued
<1>2. CASE Cancelled(t) \/ Cleanup(t)
  <2>1. PlayerOf[t] \in PlayerIDs /\ Dequeue(PlayerOf[t]) /\ OnTheWayOut(t)
    BY <1>2, MatchmakingAssumption DEF Cancelled, Cleanup, OnTheWayOut
  <2>. QED  BY <1>1, <2>1, DequeueOthers DEF IInv
<1>3. CASE Join(t)
  <2>1. Insert(t) /\ players[PlayerOf[t]] = None
    BY <1>1, <1>3 DEF Join, Queued
  <2>2. PlayerOf[s] # PlayerOf[t]
    BY <1>1, <2>1
  <2>. QED  BY <1>1, <2>1, <2>2, InsertOthers DEF IInv
<1>4. CASE ~(Cancelled(t) \/ Cleanup(t) \/ Join(t))
  <2>1. UNCHANGED players
    BY <1>4 DEF ClientStep, ClientAccepts, ClientStops, HandlerStep, ClientDone, SendFails,
                RemovedFromQueue, Leave, TakeEvent, AcceptRoom, DeclineRoom, LearnVerdict, poolVars
  <2>. QED  BY <2>1 DEF Queued
<1>. QED  BY <1>2, <1>3, <1>4

\* A room's step takes tickets out of the queue only into the room.
LEMMA RoomsEvict ==
  ASSUME IInv, NEW m \in Rooms, TickStep(m) \/ CoordinatorStep(m), NEW s \in Queued, s \notin Queued'
  PROVE  s \in Held'
<1>1. s \in Streams /\ players[PlayerOf[s]] = s /\ None \notin Streams
  BY MatchmakingAssumption DEF Queued
<1>2. ASSUME NEW S \in SUBSET Streams, ExtractMatch(m, S) PROVE s \in Held'
  <2>1. s \in S
    <3>1. players' = [id \in PlayerIDs |-> IF players[id] \in S THEN None ELSE players[id]]
      BY <1>2 DEF ExtractMatch, Take
    <3>. QED  BY <1>1, <3>1, MatchmakingAssumption DEF Queued
  <2>2. phase'[m] = "notifying" /\ members'[m] = S
    BY <1>2 DEF ExtractMatch, IInv, TypeOK
  <2>. QED  BY <1>1, <2>1, <2>2 DEF Held, Claims
<1>3. ASSUME NEW t \in Streams, Requeue(m, t) PROVE FALSE
  <2>1. Insert(t) /\ players[PlayerOf[t]] = None
    BY <1>1, <1>3 DEF Requeue, ReEnqueue, Queued
  <2>2. PlayerOf[s] # PlayerOf[t]
    BY <1>1, <2>1
  <2>. QED  BY <1>1, <2>1, <2>2, InsertOthers DEF IInv
<1>4. ASSUME UNCHANGED players PROVE FALSE
  BY <1>4 DEF Queued
<1>. QED
  BY <1>2, <1>3, <1>4
  DEF TickStep, CoordinatorStep, Notify, StartCoordinator, CountAccept, FastFail, SendResult,
      Confirm, RoomTimeout, Decide, ResultsSent, CloseRoom, poolVars

\* No cleanup, re-enqueue or extraction evicts a ticket of another player.
THEOREM OnlyOwnPlayerEvicts == Spec => EvictedByOwnPlayer
<1> DEFINE A == \A s \in Queued : s \notin Queued' \cup Held' =>
                  \E t \in Streams : PlayerOf[t] = PlayerOf[s] /\ OnTheWayOut(t)
<1>1. IInv /\ [Next]_vars => [A]_vars
  <2> SUFFICES ASSUME IInv, Next, NEW s \in Queued, s \notin Queued', s \notin Held'
               PROVE  \E t \in Streams : PlayerOf[t] = PlayerOf[s] /\ OnTheWayOut(t)
    OBVIOUS
  <2>1. CASE \E t \in Streams : ClientStep(t) \/ HandlerStep(t)
    BY <2>1, HandlersEvict
  <2>2. CASE \E m \in Rooms : TickStep(m) \/ CoordinatorStep(m)
    BY <2>2, RoomsEvict
  <2>. QED  BY <2>1, <2>2 DEF Next
<1>. QED  BY <1>1, Invariance, PTL DEF Spec, EvictedByOwnPlayer

-------------------------------------------------------------------------------
(* Tickets without a handler                                                 *)

\* A handler that ends dequeues first, so only a re-enqueue can leave a ticket behind it.
LEMMA OrphanStep == IInv /\ OrphanAcceptedOnce /\ [Next]_vars => OrphanAcceptedOnce'
<1> SUFFICES ASSUME IInv, OrphanAcceptedOnce, [Next]_vars, NEW s \in Queued', handler'[s] = "done"
             PROVE  \E m \in Rooms : s \in accepted'[m]
  BY DEF OrphanAcceptedOnce
<1>1. s \in Streams
  BY DEF Queued
<1>2. \A m \in Rooms : accepted[m] \subseteq accepted'[m]
  <2>1. \A m \in Rooms : \A t \in Streams : CountAccept(m, t) => \A n \in Rooms : accepted[n] \subseteq accepted'[n]
    BY DEF CountAccept, IInv, TypeOK
  <2>2. ASSUME NEW t \in Streams, ClientStep(t) \/ HandlerStep(t) PROVE UNCHANGED accepted
    BY <2>2 DEF ClientStep, ClientAccepts, ClientStops, HandlerStep, Join, ClientDone, SendFails,
      RemovedFromQueue, Leave, Cancelled, TakeEvent, AcceptRoom, DeclineRoom, LearnVerdict, Cleanup, roomVars
  <2>3. ASSUME NEW m \in Rooms, TickStep(m) \/ CoordinatorStep(m)
        PROVE  UNCHANGED accepted \/ \E t \in Streams : CountAccept(m, t)
    BY <2>3 DEF TickStep, ExtractMatch, Notify, StartCoordinator, CoordinatorStep, FastFail,
      SendResult, Confirm, RoomTimeout, Decide, ResultsSent, Requeue, CloseRoom
  <2>4. CASE UNCHANGED vars
    BY <2>4 DEF vars, roomVars
  <2>. QED  BY <2>1, <2>2, <2>3, <2>4 DEF Next
<1>3. CASE s \in Queued /\ handler[s] = "done"
  BY <1>2, <1>3 DEF OrphanAcceptedOnce
<1>4. ASSUME NEW t \in Streams, ClientStep(t) \/ HandlerStep(t), ~(s \in Queued /\ handler[s] = "done")
      PROVE  FALSE
  <2>1. CASE Join(t)
    <3>1. \A u \in Streams \ {t} : handler'[u] = handler[u]
      BY <2>1 DEF Join, IInv, TypeOK
    <3>2. CASE Insert(t)
      <4>0. t \notin Queued /\ t \in Queued'
        BY <2>1, <3>2, InsertOthers DEF Join, IInv, HandlerInv
      <4>1. handler'[t] = "waiting"
        BY <2>1, <4>0 DEF Join, Queued, IInv, TypeOK
      <4>. QED  BY <1>1, <1>4, <3>1, <3>2, <4>1, InsertQueued DEF IInv
    <3>3. CASE UNCHANGED players
      <4>1. t \notin Queued
        BY <2>1 DEF Join, IInv, HandlerInv
      <4>. QED  BY <1>1, <1>4, <3>1, <3>3, <4>1 DEF Queued
    <3>. QED  BY <2>1, <3>2, <3>3 DEF Join
  <2>2. CASE Cleanup(t)
    <3>1. Queued' \subseteq Queued \ {t}
      <4>1. PlayerOf[t] \in PlayerIDs /\ Dequeue(PlayerOf[t])
        BY <2>2, MatchmakingAssumption DEF Cleanup
      <4>. QED  BY <4>1, MatchmakingAssumption DEF Dequeue, Queued, IInv, TypeOK, poolVars
    <3>2. \A u \in Streams \ {t} : handler'[u] = handler[u]
      BY <2>2 DEF Cleanup, IInv, TypeOK
    <3>. QED  BY <1>1, <1>4, <3>1, <3>2
  <2>3. CASE ~Join(t) /\ ~Cleanup(t)
    <3>1. \A u \in Streams : handler'[u] = "done" => handler[u] = "done"
      BY <1>4, <2>3 DEF ClientStep, ClientAccepts, ClientStops, HandlerStep, ClientDone, SendFails,
        RemovedFromQueue, Leave, Cancelled, TakeEvent, AcceptRoom, DeclineRoom, LearnVerdict, IInv, TypeOK
    <3>2. CASE Cancelled(t)
      <4>1. PlayerOf[t] \in PlayerIDs /\ Dequeue(PlayerOf[t])
        BY <3>2, MatchmakingAssumption DEF Cancelled
      <4>2. Queued' \subseteq Queued
        BY <4>1, MatchmakingAssumption DEF Dequeue, Queued, IInv, TypeOK, poolVars
      <4>. QED  BY <1>1, <1>4, <3>1, <4>2
    <3>3. CASE ~Cancelled(t)
      <4>1. UNCHANGED players
        BY <1>4, <2>3, <3>3 DEF ClientStep, ClientAccepts, ClientStops, HandlerStep, ClientDone,
          SendFails, RemovedFromQueue, Leave, TakeEvent, AcceptRoom, DeclineRoom, LearnVerdict, poolVars
      <4>. QED  BY <1>1, <1>4, <3>1, <4>1 DEF Queued
    <3>. QED  BY <3>2, <3>3
  <2>. QED  BY <2>1, <2>2, <2>3
<1>5. ASSUME NEW m \in Rooms, TickStep(m) \/ CoordinatorStep(m), ~(s \in Queued /\ handler[s] = "done")
      PROVE  \E n \in Rooms : s \in accepted'[n]
  <2>1. UNCHANGED handler
    BY <1>5 DEF TickStep, ExtractMatch, Notify, StartCoordinator, CoordinatorStep, CountAccept, FastFail,
      SendResult, Confirm, RoomTimeout, Decide, ResultsSent, Requeue, CloseRoom, gatewayVars
  <2>2. s \notin Queued
    BY <1>5, <2>1
  <2>3. ASSUME NEW S \in SUBSET Streams, ExtractMatch(m, S) PROVE FALSE
    <3>1. players' = [id \in PlayerIDs |-> IF players[id] \in S THEN None ELSE players[id]]
      BY <2>3 DEF ExtractMatch, Take
    <3>. QED  BY <1>1, <2>2, <3>1, MatchmakingAssumption DEF Queued
  <2>4. ASSUME NEW t \in Streams, Requeue(m, t) PROVE \E n \in Rooms : s \in accepted'[n]
    <3>1. t \in accepted[m] /\ UNCHANGED accepted
      BY <2>4 DEF Requeue, IInv, RoomInv
    <3>2. Queued' \subseteq Queued \cup {t}
      <4>1. CASE Insert(t)
        BY <4>1, InsertQueued DEF IInv
      <4>. QED  BY <2>4, <4>1 DEF Requeue, ReEnqueue, Queued
    <3>. QED  BY <2>2, <3>1, <3>2
  <2>5. ASSUME UNCHANGED players PROVE FALSE
    BY <2>2, <2>5 DEF Queued
  <2>. QED
    BY <1>5, <2>3, <2>4, <2>5
    DEF TickStep, CoordinatorStep, Notify, StartCoordinator, CountAccept, FastFail, SendResult,
        Confirm, RoomTimeout, Decide, ResultsSent, CloseRoom, poolVars
<1>6. CASE UNCHANGED vars
  BY <1>3, <1>6 DEF vars, poolVars, gatewayVars, Queued
<1>. QED  BY <1>3, <1>4, <1>5, <1>6 DEF Next

\* A ticket without a handler was counted by a coordinator and given back by it: streams
\* that decline, or leave the queue, clean up after themselves.
THEOREM OrphansWereCounted == Spec => []OrphanAcceptedOnce
<1>1. Init => OrphanAcceptedOnce
  BY DEF Init, OrphanAcceptedOnce, Queued
<1>. QED  BY <1>1, OrphanStep, Invariance, PTL DEF Spec

-------------------------------------------------------------------------------
(* Counted players keep queueing                                             *)

\* A room that keeps a ticket has sent it its event, which waits in the MatchCh or is the
\* last one the handler took, unless the notifying loop has not reached it.
Unsent(m, s) == phase[m] = "notifying" /\ s \in todo[m]

PathInv ==
  \A m \in Rooms : \A s \in Streams :
    Keeps(m, s) /\ ~Unsent(m, s) => matchCh[s] = m \/ evt[s] = m

\* A player with one stream whose last room has handed it back is in play, also before
\* its handler learns of the verdict.
LoneInv ==
  \A s \in Streams : \A m \in Rooms :
    OnlyStream(s) /\ handler[s] \in {"verdict", "waiting"} /\ evt[s] = m /\ Returned(m, s) => InPlay(s)

\* Events stay where they are while rooms only let go.
LEMMA PathShrinks ==
  ASSUME PathInv, UNCHANGED <<matchCh, evt>>,
         \A m \in Rooms : \A s \in Streams :
           Keeps(m, s)' /\ ~Unsent(m, s)' => Keeps(m, s) /\ ~Unsent(m, s)
  PROVE  PathInv'
  BY DEF PathInv

\* The event moves from tick to the MatchCh to the handler.
LEMMA PathStep == IInv /\ PathInv /\ [Next]_vars => PathInv'
<1> SUFFICES ASSUME IInv, PathInv, [Next]_vars PROVE PathInv'
  OBVIOUS
<1>1. ASSUME UNCHANGED <<matchCh, evt, roomVars>> PROVE PathInv'
  BY <1>1, PathShrinks DEF roomVars, Keeps, Claims, Unsent
<1>2. ASSUME NEW s \in Streams, TakeEvent(s) PROVE PathInv'
  <2> DEFINE n == matchCh[s]
  <2>1. evt'[s] = n /\ n # None /\ \A t \in Streams \ {s} : evt'[t] = evt[t] /\ matchCh'[t] = matchCh[t]
    BY <1>2 DEF TakeEvent, IInv, TypeOK
  <2>2. \A m \in Rooms : \A t \in Streams : (Keeps(m, t)' <=> Keeps(m, t)) /\ (Unsent(m, t)' <=> Unsent(m, t))
    BY <1>2 DEF TakeEvent, roomVars, Keeps, Claims, Unsent
  <2>3. \A m \in Rooms : Keeps(m, s) => m = n
    BY <2>1 DEF IInv, OwnerInv
  <2>. QED  BY <2>1, <2>2, <2>3 DEF PathInv
<1>3. ASSUME NEW s \in Streams, ClientStep(s) \/ HandlerStep(s), ~TakeEvent(s) PROVE PathInv'
  <2>1. UNCHANGED <<matchCh, evt, roomVars>>
    BY <1>3 DEF ClientStep, ClientAccepts, ClientStops, HandlerStep, Join, ClientDone, SendFails,
      RemovedFromQueue, Leave, Cancelled, AcceptRoom, DeclineRoom, LearnVerdict, Cleanup
  <2>. QED  BY <1>1, <2>1
<1>4. ASSUME NEW m \in Rooms, NEW S \in SUBSET Streams, ExtractMatch(m, S) PROVE PathInv'
  <2>1. /\ phase'[m] = "notifying" /\ members'[m] = S /\ todo'[m] = S
        /\ \A n \in Rooms \ {m} : phase'[n] = phase[n] /\ members'[n] = members[n] /\ todo'[n] = todo[n]
    BY <1>4 DEF ExtractMatch, IInv, TypeOK
  <2>2. \A s \in Streams : Keeps(m, s)' => Unsent(m, s)'
    BY <2>1 DEF Keeps, Claims, Unsent
  <2>3. \A n \in Rooms \ {m} : \A s \in Streams : (Keeps(n, s)' <=> Keeps(n, s)) /\ (Unsent(n, s)' <=> Unsent(n, s))
    BY <2>1 DEF Keeps, Claims, Unsent
  <2>. QED  BY <1>4, <2>2, <2>3, PathShrinks DEF ExtractMatch, gatewayVars
<1>5. ASSUME NEW m \in Rooms, NEW s \in Streams, Notify(m, s) PROVE PathInv'
  <2>1. Keeps(m, s) /\ matchCh[s] = None
    BY <1>5 DEF Notify, IInv, RoomInv, EventInv, Keeps, Claims
  <2>2. matchCh'[s] = m /\ evt' = evt /\ \A t \in Streams \ {s} : matchCh'[t] = matchCh[t]
    BY <1>5, <2>1 DEF Notify, gatewayVars, IInv, TypeOK
  <2>3. todo'[m] = todo[m] \ {s} /\ \A n \in Rooms \ {m} : todo'[n] = todo[n]
    BY <1>5 DEF Notify, IInv, TypeOK
  <2>4. \A n \in Rooms : \A t \in Streams : Keeps(n, t)' <=> Keeps(n, t)
    BY <1>5, <2>1, <2>3 DEF Notify, Keeps, Claims
  <2>5. \A n \in Rooms : \A t \in Streams : t # s \/ n # m => (Unsent(n, t)' <=> Unsent(n, t))
    BY <1>5, <2>3 DEF Notify, Unsent
  <2>6. \A n \in Rooms : Keeps(n, s) => n = m
    BY <2>1 DEF IInv, OwnerInv
  <2>. QED  BY <2>2, <2>4, <2>5, <2>6 DEF PathInv
<1>6. ASSUME NEW m \in Rooms, TickStep(m) \/ CoordinatorStep(m),
             ~\E S \in SUBSET Streams : ExtractMatch(m, S), ~\E s \in Streams : Notify(m, s)
      PROVE  PathInv'
  <2>1. UNCHANGED <<matchCh, evt, members>>
    BY <1>6 DEF TickStep, StartCoordinator, CoordinatorStep, CountAccept, FastFail, SendResult, Confirm,
      RoomTimeout, Decide, ResultsSent, Requeue, CloseRoom, gatewayVars
  <2>2. \A n \in Rooms \ {m} : phase'[n] = phase[n] /\ todo'[n] = todo[n]
    BY <1>6 DEF TickStep, StartCoordinator, CoordinatorStep, CountAccept, FastFail, SendResult, Confirm,
      RoomTimeout, Decide, ResultsSent, Requeue, CloseRoom, IInv, TypeOK
  <2>3. \A s \in Streams : Keeps(m, s)' => Keeps(m, s)
    BY <1>6, <2>1 DEF TickStep, StartCoordinator, CoordinatorStep, CountAccept, FastFail, SendResult,
      Confirm, RoomTimeout, Decide, ResultsSent, Requeue, CloseRoom, IInv, TypeOK, RoomInv, Keeps, Claims
  <2>4. \A s \in Streams : ~Unsent(m, s)
    BY <1>6 DEF TickStep, StartCoordinator, CoordinatorStep, CountAccept, FastFail, SendResult,
      Confirm, RoomTimeout, Decide, ResultsSent, Requeue, CloseRoom, Unsent
  <2>5. \A n \in Rooms \ {m} : \A s \in Streams : (Keeps(n, s)' <=> Keeps(n, s)) /\ (Unsent(n, s)' <=> Unsent(n, s))
    BY <2>1, <2>2 DEF Keeps, Claims, Unsent
  <2>. QED  BY <2>1, <2>3, <2>4, <2>5, PathShrinks
<1>7. CASE UNCHANGED vars
  BY <1>1, <1>7 DEF vars, gatewayVars
<1>. QED  BY <1>2, <1>3, <1>4, <1>5, <1>6, <1>7 DEF Next, TickStep

-------------------------------------------------------------------------------

\* A step that leaves s its place, and its handler and last room what they were.
LEMMA LoneFrame ==
  ASSUME LoneInv, NEW s \in Streams,
         UNCHANGED <<handler[s], evt[s]>>, \A m \in Rooms : Returned(m, s)' => Returned(m, s),
         InPlay(s) => InPlay(s)'
  PROVE  \A m \in Rooms :
           OnlyStream(s) /\ handler'[s] \in {"verdict", "waiting"} /\ evt'[s] = m /\ Returned(m, s)' => InPlay(s)'
  BY DEF LoneInv

\* The handlers of other players leave the ticket alone; its own only takes up a new room,
\* hears of the old one, or leaves.
LEMMA LoneHandlers ==
  ASSUME IInv, LoneInv, NEW t \in Streams, ClientStep(t) \/ HandlerStep(t)
  PROVE  LoneInv'
<1> SUFFICES ASSUME NEW s \in Streams, NEW m \in Rooms,
                    OnlyStream(s), handler'[s] \in {"verdict", "waiting"}, evt'[s] = m, Returned(m, s)'
             PROVE  InPlay(s)'
  BY DEF LoneInv, OnlyStream
<1>1. UNCHANGED roomVars /\ \A n \in Rooms : Returned(n, s)' <=> Returned(n, s)
  BY DEF ClientStep, ClientAccepts, ClientStops, HandlerStep, Join, ClientDone, SendFails,
    RemovedFromQueue, Leave, Cancelled, TakeEvent, AcceptRoom, DeclineRoom, LearnVerdict, Cleanup,
    roomVars, Returned
<1>2. Held' = Held
  BY <1>1 DEF Held, Claims, roomVars
<1>3. s \in accepted[m] /\ answer[m][s] = "yes" /\ s \in members[m]
  BY <1>1 DEF Returned, IInv, RoomInv
<1>4. CASE t # s
  <2>1. handler'[s] = handler[s] /\ evt'[s] = evt[s] /\ matchCh'[s] = matchCh[s]
    BY <1>4 DEF ClientStep, ClientAccepts, ClientStops, HandlerStep, Join, ClientDone, SendFails,
      RemovedFromQueue, Leave, Cancelled, TakeEvent, AcceptRoom, DeclineRoom, LearnVerdict, Cleanup,
      IInv, TypeOK
  <2>2. PlayerOf[t] # PlayerOf[s]
    BY <1>4 DEF OnlyStream
  <2>3. s \in Queued => s \in Queued'
    BY <2>2, HandlersEvict
  <2>. QED  BY <1>1, <1>2, <2>1, <2>3 DEF LoneInv, InPlay
<1>5. CASE t = s
  <2>1. CASE ClientStep(s) \/ LearnVerdict(s)
    <3>1. UNCHANGED <<players, matchCh, evt>> /\ handler[s] \in {"verdict", "waiting"}
      BY <2>1 DEF ClientStep, ClientAccepts, ClientStops, LearnVerdict, poolVars
    <3>. QED  BY <1>1, <1>2, <3>1 DEF LoneInv, InPlay, Queued
  <2>2. CASE AcceptRoom(s)
    BY <1>3, <2>2 DEF AcceptRoom, IInv, HandlerInv
  <2>3. CASE Join(s)
    BY <1>3, <2>3 DEF Join, IInv, HandlerInv
  <2>4. CASE \/ ClientDone(s) \/ SendFails(s) \/ RemovedFromQueue(s) \/ Cancelled(s) \/ TakeEvent(s)
             \/ DeclineRoom(s) \/ Cleanup(s)
    BY <2>4 DEF ClientDone, SendFails, RemovedFromQueue, Leave, Cancelled, TakeEvent, DeclineRoom, Cleanup,
      IInv, TypeOK
  <2>. QED  BY <1>5, <2>1, <2>2, <2>3, <2>4 DEF HandlerStep
<1>. QED  BY <1>4, <1>5

\* A room that lets a ticket go without giving it back is the last one its handler took, or
\* its event still waits.
LEMMA LoneLetGo ==
  ASSUME IInv, PathInv, LoneInv, NEW n \in Rooms, ResultsSent(n)
  PROVE  LoneInv'
<1> SUFFICES ASSUME NEW s \in Streams, NEW m \in Rooms,
                    OnlyStream(s), handler'[s] \in {"verdict", "waiting"}, evt'[s] = m, Returned(m, s)'
             PROVE  InPlay(s)'
  BY DEF LoneInv, OnlyStream
<1>1. UNCHANGED <<players, matchCh, handler, evt, members, accepted>>
  BY DEF ResultsSent, poolVars, gatewayVars
<1>2. /\ \/ phase[n] = "confirming" /\ phase'[n] = "confirmed"
         \/ phase[n] = "cancelling" /\ phase'[n] = "requeuing" /\ todo'[n] = accepted[n]
      /\ \A k \in Rooms \ {n} : phase'[k] = phase[k] /\ todo'[k] = todo[k]
  BY DEF ResultsSent, IInv, TypeOK
<1>3. Returned(m, s) /\ m # n
  BY <1>1, <1>2 DEF Returned
<1>4. InPlay(s)
  BY <1>1, <1>3 DEF LoneInv
<1>5. CASE s \in Queued \/ matchCh[s] # None
  BY <1>1, <1>5 DEF InPlay, Queued
<1>6. ASSUME NEW k \in Rooms, Claims(k, s), k # n PROVE InPlay(s)'
  BY <1>1, <1>2, <1>6 DEF InPlay, Held, Claims
<1>7. CASE Claims(n, s)
  <2>1. ~Unsent(n, s) /\ Keeps(n, s)
    BY <1>2, <1>7 DEF Unsent, Keeps
  <2>2. matchCh[s] = n
    BY <1>1, <1>3, <2>1 DEF PathInv
  <2>. QED  BY <1>1, <2>2, MatchmakingAssumption DEF InPlay
<1>. QED  BY <1>4, <1>5, <1>6, <1>7 DEF InPlay, Held

\* A re-enqueue is refused only when another stream of the player is queued.
LEMMA LoneRequeue ==
  ASSUME IInv, LoneInv, NEW n \in Rooms, NEW t \in Streams, Requeue(n, t)
  PROVE  LoneInv'
<1> SUFFICES ASSUME NEW s \in Streams, NEW m \in Rooms,
                    OnlyStream(s), handler'[s] \in {"verdict", "waiting"}, evt'[s] = m, Returned(m, s)'
             PROVE  InPlay(s)'
  BY DEF LoneInv, OnlyStream
<1>1. UNCHANGED <<matchCh, handler, evt, members, accepted, phase>>
  BY DEF Requeue, gatewayVars
<1>2. todo'[n] = todo[n] \ {t} /\ \A k \in Rooms \ {n} : todo'[k] = todo[k]
  BY DEF Requeue, IInv, TypeOK
<1>3. CASE t = s
  <2>1. s \in Queued'
    <3>1. CASE players[PlayerOf[s]] = None
      <4>1. Insert(s)
        BY <1>3, <3>1 DEF Requeue, ReEnqueue
      <4>. QED  BY <4>1, InsertOthers DEF IInv
    <3>2. CASE players[PlayerOf[s]] # None
      <4>1. PlayerOf[s] \in PlayerIDs
        BY MatchmakingAssumption
      <4>2. players[PlayerOf[s]] \in Streams /\ PlayerOf[players[PlayerOf[s]]] = PlayerOf[s]
        BY <3>2, <4>1 DEF IInv, TypeOK, PoolInv
      <4>3. players[PlayerOf[s]] = s
        BY <4>2 DEF OnlyStream
      <4>4. UNCHANGED players
        BY <1>3, <3>2 DEF Requeue, ReEnqueue
      <4>. QED  BY <4>3, <4>4 DEF Queued
    <3>. QED  BY <3>1, <3>2
  <2>. QED  BY <2>1 DEF InPlay
<1>4. CASE t # s
  <2>1. Returned(m, s) /\ \A k \in Rooms : Claims(k, s)' <=> Claims(k, s)
    BY <1>1, <1>2, <1>4 DEF Returned, Claims
  <2>2. s \in Queued => s \in Queued'
    <3>1. CASE Insert(t)
      BY <1>4, <3>1, InsertOthers DEF IInv, OnlyStream
    <3>. QED  BY <3>1 DEF Requeue, ReEnqueue, Queued
  <2>. QED  BY <1>1, <2>1, <2>2 DEF LoneInv, InPlay, Held
<1>. QED  BY <1>3, <1>4

\* The steps of rooms that claim what they claimed before, or more.
LEMMA LoneRooms ==
  ASSUME IInv, LoneInv, NEW n \in Rooms,
         \/ \E S \in SUBSET Streams : ExtractMatch(n, S)
         \/ \E t \in Streams : Notify(n, t) \/ CountAccept(n, t) \/ FastFail(n, t) \/ SendResult(n, t)
         \/ StartCoordinator(n) \/ Confirm(n) \/ RoomTimeout(n) \/ CloseRoom(n)
  PROVE  LoneInv'
<1> SUFFICES ASSUME NEW s \in Streams, NEW m \in Rooms,
                    OnlyStream(s), handler'[s] \in {"verdict", "waiting"}, evt'[s] = m, Returned(m, s)'
             PROVE  InPlay(s)'
  BY DEF LoneInv, OnlyStream
<1>1. UNCHANGED <<handler, evt>>
  BY DEF ExtractMatch, Notify, CountAccept, FastFail, SendResult, StartCoordinator, Confirm, RoomTimeout,
    CloseRoom, Decide, gatewayVars
<1>2. \A k \in Rooms \ {n} :
        phase'[k] = phase[k] /\ todo'[k] = todo[k] /\ accepted'[k] = accepted[k] /\ members'[k] = members[k]
  BY DEF ExtractMatch, Notify, CountAccept, FastFail, SendResult, StartCoordinator, Confirm, RoomTimeout,
    CloseRoom, Decide, IInv, TypeOK
<1>3. Returned(n, s)' => Returned(n, s)
  BY DEF ExtractMatch, Notify, CountAccept, FastFail, SendResult, StartCoordinator, Confirm, RoomTimeout,
    CloseRoom, Decide, IInv, TypeOK, Returned
<1>4. Returned(m, s)
  BY <1>2, <1>3 DEF Returned
<1>5. Claims(n, s) => Claims(n, s)'
  BY DEF ExtractMatch, Notify, CountAccept, FastFail, SendResult, StartCoordinator, Confirm, RoomTimeout,
    CloseRoom, Decide, IInv, TypeOK, Claims
<1>6. s \in Held => s \in Held'
  BY <1>2, <1>5 DEF Held, Claims
<1>7. s \in Queued => s \in Queued' \cup Held'
  BY RoomsEvict DEF TickStep, CoordinatorStep
<1>8. matchCh[s] # None => matchCh'[s] # None
  BY MatchmakingAssumption DEF ExtractMatch, Notify, CountAccept, FastFail, SendResult, StartCoordinator,
    Confirm, RoomTimeout, CloseRoom, Decide, IInv, TypeOK
<1>. QED  BY <1>1, <1>4, <1>6, <1>7, <1>8 DEF LoneInv, InPlay

\* A player with one stream whose accept was counted before its room was cancelled is
\* queued, wanted by a room, or has an event to take: it waits in vain never.
THEOREM CountedPlayersKeepQueueing == Spec => []LonePlayersKeepQueueing
<1>1. Init => PathInv /\ LoneInv
  BY MatchmakingAssumption DEF Init, PathInv, LoneInv, Keeps, Claims
<1>2. IInv /\ PathInv /\ LoneInv /\ [Next]_vars => PathInv' /\ LoneInv'
  <2> SUFFICES ASSUME IInv, PathInv, LoneInv, [Next]_vars PROVE LoneInv'
    BY PathStep
  <2>1. CASE \E t \in Streams : ClientStep(t) \/ HandlerStep(t)
    BY <2>1, LoneHandlers
  <2>2. CASE \E n \in Rooms : TickStep(n) \/ CoordinatorStep(n)
    BY <2>2, LoneRooms, LoneLetGo, LoneRequeue DEF TickStep, CoordinatorStep
  <2>3. CASE UNCHANGED vars
    BY <2>3 DEF vars, poolVars, gatewayVars, roomVars, LoneInv, InPlay, Held, Claims, Queued, Returned
  <2>. QED  BY <2>1, <2>2, <2>3 DEF Next
<1>3. TypeOK /\ VInv /\ LoneInv => LonePlayersKeepQueueing
  <2> SUFFICES ASSUME TypeOK, VInv, LoneInv, NEW s \in Streams,
                      OnlyStream(s), ToldRequeued(s), s \in accepted[evt[s]]
               PROVE  InPlay(s)
    BY DEF LonePlayersKeepQueueing
  <2>1. evt[s] \in Rooms /\ phase[evt[s]] = "cancelled" /\ handler[s] = "waiting"
    BY DEF ToldRequeued, TypeOK
  <2>2. Returned(evt[s], s)
    BY <2>1 DEF Returned, VInv, TellInv
  <2>. QED  BY <2>1, <2>2 DEF LoneInv
<1>. QED  BY <1>1, <1>2, <1>3, Invariance, RoomsAreDone, TypeCorrect, PTL DEF Spec

===============================================================================
