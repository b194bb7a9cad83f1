-------------------------- MODULE Matchmaking_proofs --------------------------
(***************************************************************************)
(* Proofs about Matchmaking, for any sets of players, streams and rooms    *)
(* and any room size.                                                      *)
(***************************************************************************)
EXTENDS Matchmaking, TLAPS

\* Every variable keeps its type: control states stay within the states of the two
\* handlers' code, and no channel or index holds anything but a stream or a room.
LEMMA TypeOKInit == Init => TypeOK
  BY DEF Init, TypeOK

\* One case per action: each assigns values from the ranges TypeOK names.
LEMMA TypeOKStep == TypeOK /\ [Next]_vars => TypeOK'
<1> SUFFICES ASSUME TypeOK, [Next]_vars PROVE TypeOK'
  OBVIOUS
<1> USE DEF TypeOK, poolVars, gatewayVars, roomVars
<1>1. CASE UNCHANGED vars
  BY <1>1 DEF vars
<1>2. ASSUME NEW s \in Streams, ClientStep(s) PROVE TypeOK'
  <2>1. CASE ClientAccepts(s)
    <3>1. (IF handler[s] = "readycheck" THEN evt[s] ELSE Unprompted) \in Rooms \cup {None, Unprompted}
      OBVIOUS
    <3>2. acceptReq' \in [Streams -> Rooms \cup {None, Unprompted}]
      BY <2>1, <3>1 DEF ClientAccepts
    <3>. QED  BY <2>1, <3>2 DEF ClientAccepts
  <2>2. ASSUME NEW how \in {"cancel", "gone"}, ClientStops(s, how) PROVE TypeOK'
    BY <2>2 DEF ClientStops
  <2>. QED  BY <1>2, <2>1, <2>2 DEF ClientStep
<1>3. ASSUME NEW s \in Streams, HandlerStep(s) PROVE TypeOK'
  <2>1. CASE Join(s)
    <3>1. players' \in [PlayerIDs -> Streams \cup {None}]
      <4>1. players' = players \/ players' = [players EXCEPT ![PlayerOf[s]] = s]
        BY <2>1 DEF Join, Insert
      <4>. QED  BY <4>1
    <3>2. handler' \in [Streams -> {"idle", "waiting", "readycheck", "verdict", "leaving", "done"}]
      <4>1. handler' = [handler EXCEPT ![s] = "waiting"] \/ handler' = [handler EXCEPT ![s] = "done"]
        BY <2>1 DEF Join
      <4>. QED  BY <4>1
    <3>3. UNCHANGED <<closed, matchCh, evt, acceptReq, client, roomVars, answer>>
      BY <2>1 DEF Join
    <3>. QED  BY <3>1, <3>2, <3>3
  <2>2. CASE ClientDone(s) \/ SendFails(s) \/ RemovedFromQueue(s)
    <3>1. Leave(s)
      BY <2>2 DEF ClientDone, SendFails, RemovedFromQueue
    <3>2. handler' \in [Streams -> {"idle", "waiting", "readycheck", "verdict", "leaving", "done"}]
      BY <3>1 DEF Leave
    <3>3. UNCHANGED <<players, closed, matchCh, evt, acceptReq, client, roomVars, answer>>
      BY <3>1 DEF Leave
    <3>. QED  BY <3>2, <3>3
  <2>3. CASE Cancelled(s) \/ Cleanup(s)
    <3>1. players' \in [PlayerIDs -> Streams \cup {None}] /\ closed' \subseteq Streams
      <4>1. PlayerOf[s] \in PlayerIDs /\ Dequeue(PlayerOf[s])
        BY <2>3, MatchmakingAssumption DEF Cancelled, Cleanup
      <4>2. players' = players \/ players' = [players EXCEPT ![PlayerOf[s]] = None]
        BY <4>1 DEF Dequeue
      <4>3. players' \in [PlayerIDs -> Streams \cup {None}]
        BY <4>2
      <4>4. closed' \subseteq Streams
        BY <4>1 DEF Dequeue
      <4>. QED  BY <4>3, <4>4
    <3>2. handler' \in [Streams -> {"idle", "waiting", "readycheck", "verdict", "leaving", "done"}]
      BY <2>3 DEF Cancelled, Cleanup
    <3>3. UNCHANGED <<matchCh, evt, acceptReq, client, roomVars, answer>>
      BY <2>3 DEF Cancelled, Cleanup
    <3>. QED  BY <3>1, <3>2, <3>3
  <2>4. CASE TakeEvent(s)
    BY <2>4 DEF TakeEvent
  <2>5. CASE AcceptRoom(s)
    BY <2>5 DEF AcceptRoom, Respond
  <2>6. CASE DeclineRoom(s)
    BY <2>6 DEF DeclineRoom, Respond
  <2>7. CASE LearnVerdict(s)
    BY <2>7 DEF LearnVerdict
  <2>. QED  BY <1>3, <2>1, <2>2, <2>3, <2>4, <2>5, <2>6, <2>7 DEF HandlerStep
<1>4. ASSUME NEW m \in Rooms, TickStep(m) PROVE TypeOK'
  <2>1. ASSUME NEW S \in SUBSET Streams, ExtractMatch(m, S) PROVE TypeOK'
    BY <2>1 DEF ExtractMatch, Take
  <2>2. ASSUME NEW s \in Streams, Notify(m, s) PROVE TypeOK'
    BY <2>2 DEF Notify
  <2>3. CASE StartCoordinator(m)
    BY <2>3 DEF StartCoordinator
  <2>. QED  BY <1>4, <2>1, <2>2, <2>3 DEF TickStep
<1>5. ASSUME NEW m \in Rooms, CoordinatorStep(m) PROVE TypeOK'
  <2>1. ASSUME NEW s \in Streams, CountAccept(m, s) PROVE TypeOK'
    BY <2>1 DEF CountAccept
  <2>2. ASSUME NEW s \in Streams, FastFail(m, s) PROVE TypeOK'
    BY <2>2 DEF FastFail, Decide
  <2>3. ASSUME NEW s \in Streams, SendResult(m, s) PROVE TypeOK'
    BY <2>3 DEF SendResult
  <2>4. ASSUME NEW s \in Streams, Requeue(m, s) PROVE TypeOK'
    BY <2>4, MatchmakingAssumption DEF Requeue, ReEnqueue, Insert
  <2>5. CASE Confirm(m)
    BY <2>5 DEF Confirm, Decide
  <2>6. CASE RoomTimeout(m)
    BY <2>6 DEF RoomTimeout, Decide
  <2>7. CASE ResultsSent(m)
    <3>1. CASE phase[m] = "confirming"
      BY <2>7, <3>1 DEF ResultsSent
    <3>2. CASE phase[m] = "cancelling"
      <4>1. todo' = [todo EXCEPT ![m] = accepted[m]] /\ phase' = [phase EXCEPT ![m] = "requeuing"]
        BY <2>7, <3>2 DEF ResultsSent
      <4>2. todo' \in [Rooms -> SUBSET Streams]
        BY <4>1
      <4>. QED  BY <2>7, <4>1, <4>2 DEF ResultsSent
    <3>. QED  BY <2>7, <3>1, <3>2 DEF ResultsSent
  <2>8. CASE CloseRoom(m)
    BY <2>8 DEF CloseRoom
  <2>. QED  BY <1>5, <2>1, <2>2, <2>3, <2>4, <2>5, <2>6, <2>7, <2>8 DEF CoordinatorStep
<1>. QED  BY <1>1, <1>2, <1>3, <1>4, <1>5 DEF Next

\* Handlers, rooms and channels only ever hold the states and values of TypeOK: no
\* MatchCh, screen or answer refers to anything but a room or a member of one.
THEOREM TypeCorrect == Spec => []TypeOK
  BY TypeOKInit, TypeOKStep, PTL DEF Spec

-------------------------------------------------------------------------------
(* The inductive invariant holds initially                                    *)

\* Nothing is queued, extracted or answered in the initial state.
LEMMA IInvInit == Init => IInv
<1> SUFFICES ASSUME Init PROVE IInv
  OBVIOUS
<1>1. TypeOK
  BY TypeOKInit
<1>2. PoolInv
  BY MatchmakingAssumption DEF Init, PoolInv, Queued
<1>3. OwnerInv
  BY DEF Init, OwnerInv, Keeps, Claims
<1>4. RoomInv /\ HandlerInv
  BY MatchmakingAssumption DEF Init, RoomInv, HandlerInv, Queued
<1>5. EventInv /\ VerdictInv
  BY MatchmakingAssumption DEF Init, EventInv, VerdictInv
<1>. QED  BY <1>1, <1>2, <1>3, <1>4, <1>5 DEF IInv

-------------------------------------------------------------------------------
(* Frames: a conjunct of IInv survives a step that leaves its variables alone *)

\* Rooms may drop tickets, not acquire them, while the pool and MatchCh stand still.
LEMMA OwnersShrink ==
  ASSUME PoolInv, OwnerInv, UNCHANGED <<players, closed, matchCh>>,
         \A m \in Rooms : \A s \in Streams : Keeps(m, s)' => Keeps(m, s)
  PROVE  PoolInv' /\ OwnerInv'
<1>1. PoolInv'
  BY DEF PoolInv, Queued
<1>2. OwnerInv'
  BY DEF OwnerInv
<1>. QED  BY <1>1, <1>2

\* The owners of tickets depend on the index, the MatchCh buffers, the phases and the
\* loops of the rooms, and on nothing else.
LEMMA OwnersFrame ==
  ASSUME PoolInv, OwnerInv, UNCHANGED <<players, closed, matchCh, phase, members, todo>>
  PROVE  PoolInv' /\ OwnerInv'
<1>1. \A m \in Rooms : \A s \in Streams : Keeps(m, s)' => Keeps(m, s)
  BY DEF Keeps, Claims
<1>. QED  BY <1>1, OwnersShrink

\* The loops of the rooms do not read the handlers' state.
LEMMA RoomFrame ==
  ASSUME RoomInv, UNCHANGED <<phase, members, todo, accepted, answer>>
  PROVE  RoomInv'
  BY DEF RoomInv

\* The path of an event involves the MatchCh, the screen and the answer.
LEMMA EventFrame ==
  ASSUME EventInv, UNCHANGED <<phase, members, todo, matchCh, evt, answer>>
  PROVE  EventInv'
  BY DEF EventInv

\* todo matters to EventInv only while a room is being notified.
LEMMA EventAfterNotify ==
  ASSUME EventInv, UNCHANGED <<members, matchCh, evt, answer>>,
         \A m \in Rooms : phase'[m] = "notifying" => phase[m] = "notifying" /\ todo'[m] = todo[m]
  PROVE  EventInv'
  BY DEF EventInv

\* What is known of a handler that has not joined, or is in a ready check.
LEMMA HandlerFrame ==
  ASSUME HandlerInv, UNCHANGED <<handler, evt, answer, players, closed, matchCh, members>>
  PROVE  HandlerInv'
  BY DEF HandlerInv, Queued

\* Verdicts depend on the phase, the count, the results and the sessions.
LEMMA VerdictFrame ==
  ASSUME VerdictInv, UNCHANGED <<phase, members, accepted, result, sessions>>
  PROVE  VerdictInv'
  BY DEF VerdictInv

-------------------------------------------------------------------------------
(* The pool operations                                                       *)

\* Whatever Dequeue closes was queued, so it is unclaimed and its stream has joined.
LEMMA DequeueOwners ==
  ASSUME TypeOK, PoolInv, OwnerInv, NEW id \in PlayerIDs, Dequeue(id),
         UNCHANGED <<matchCh, phase, members, todo>>
  PROVE  /\ PoolInv' /\ OwnerInv'
         /\ Queued' \subseteq Queued
         /\ \A s \in closed' \ closed : s \in Queued
<1>1. CASE players[id] = None
  <2>1. PoolInv' /\ OwnerInv'
    BY <1>1, OwnersFrame DEF Dequeue, poolVars
  <2>. QED  BY <1>1, <2>1 DEF Dequeue, poolVars, Queued
<1>2. CASE players[id] # None
  <2>1. players' = [players EXCEPT ![id] = None] /\ closed' = closed \cup {players[id]}
    BY <1>2 DEF Dequeue
  <2>2. players[id] \in Streams /\ PlayerOf[players[id]] = id
    BY <1>2 DEF TypeOK, PoolInv
  <2>3. players[id] \in Queued
    BY <2>2 DEF Queued
  <2>4. players[id] \notin Queued'
    BY <2>1, <2>2, MatchmakingAssumption DEF Queued, TypeOK
  <2>5. Queued' \subseteq Queued
    BY <2>1, MatchmakingAssumption DEF Queued, TypeOK
  <2>6. \A m \in Rooms : \A s \in Streams : Keeps(m, s)' <=> Keeps(m, s)
    BY DEF Keeps, Claims
  <2>7. PoolInv'
    <3>1. \A i \in PlayerIDs : players'[i] # None => PlayerOf[players'[i]] = i
      BY <2>1 DEF PoolInv, TypeOK
    <3>2. ASSUME NEW s \in Queued'
          PROVE  s \notin closed' /\ matchCh'[s] = None /\ \A m \in Rooms : ~Keeps(m, s)'
      <4>1. s \in Queued /\ s \in Streams /\ s # players[id]
        BY <2>4, <2>5, <3>2 DEF Queued
      <4>. QED  BY <2>1, <2>6, <4>1 DEF PoolInv
    <3>. QED  BY <3>1, <3>2 DEF PoolInv
  <2>8. OwnerInv'
    <3>1. \A m \in Rooms : ~Keeps(m, players[id])
      BY <2>3 DEF PoolInv
    <3>. QED  BY <2>1, <2>6, <3>1 DEF OwnerInv
  <2>. QED  BY <2>1, <2>3, <2>5, <2>7, <2>8
<1>. QED  BY <1>1, <1>2

\* Inserting a ticket that is open, unsent and that no room keeps afterwards.
LEMMA InsertOwners ==
  ASSUME TypeOK, PoolInv, OwnerInv, NEW s \in Streams, Insert(s), UNCHANGED <<closed, matchCh>>,
         s \notin closed, matchCh[s] = None, \A m \in Rooms : ~Keeps(m, s)',
         \A m \in Rooms : \A t \in Streams : Keeps(m, t)' => Keeps(m, t)
  PROVE  PoolInv' /\ OwnerInv' /\ Queued' \subseteq Queued \cup {s}
<1>1. PlayerOf[s] \in PlayerIDs /\ players \in [PlayerIDs -> Streams \cup {None}]
  BY MatchmakingAssumption DEF TypeOK
<1>2. players' = [players EXCEPT ![PlayerOf[s]] = s]
  BY DEF Insert
<1>3. Queued' \subseteq Queued \cup {s}
  BY <1>1, <1>2, MatchmakingAssumption DEF Queued
<1>4. \A id \in PlayerIDs : players'[id] # None => PlayerOf[players'[id]] = id
  BY <1>1, <1>2 DEF PoolInv
<1>5. ASSUME NEW t \in Queued'
      PROVE  t \notin closed' /\ matchCh'[t] = None /\ \A m \in Rooms : ~Keeps(m, t)'
  <2>1. t \in Streams
    BY <1>5 DEF Queued
  <2>2. CASE t = s
    BY <2>2
  <2>3. CASE t # s
    BY <1>3, <2>1, <2>3 DEF PoolInv
  <2>. QED  BY <2>2, <2>3
<1>6. PoolInv'
  BY <1>4, <1>5 DEF PoolInv
<1>7. OwnerInv'
  BY DEF OwnerInv
<1>. QED  BY <1>3, <1>6, <1>7

-------------------------------------------------------------------------------
(* One lemma per action; IInv without TypeOK, which TypeOKStep covers         *)

Rest == PoolInv /\ OwnerInv /\ RoomInv /\ EventInv /\ HandlerInv /\ VerdictInv

\* Clicks and hang-ups touch only the reader's channels.
LEMMA ClientInv ==
  ASSUME IInv, NEW s \in Streams, ClientStep(s)
  PROVE  Rest'
<1>1. UNCHANGED <<poolVars, matchCh, handler, evt, roomVars, answer>>
  BY DEF ClientStep, ClientAccepts, ClientStops
<1>. QED
  BY <1>1, OwnersFrame, RoomFrame, EventFrame, HandlerFrame, VerdictFrame
  DEF IInv, Rest, poolVars, roomVars

\* A stream that joins has left no trace, so its ticket is fresh.
LEMMA JoinInv ==
  ASSUME IInv, NEW s \in Streams, Join(s)
  PROVE  Rest'
<1>1. RoomInv' /\ EventInv' /\ VerdictInv'
  BY RoomFrame, EventFrame, VerdictFrame DEF Join, IInv, roomVars
<1>2. s \notin closed /\ matchCh[s] = None /\ \A m \in Rooms : s \notin members[m]
  BY DEF Join, IInv, HandlerInv
<1>3. handler[s] = "idle" /\ handler \in [Streams -> {"idle", "waiting", "readycheck", "verdict", "leaving", "done"}]
  BY DEF Join, IInv, TypeOK
<1>4. \A m \in Rooms : \A t \in Streams : Keeps(m, t)' <=> Keeps(m, t)
  BY DEF Join, Keeps, Claims, roomVars
<1>5. \A m \in Rooms : ~Keeps(m, s)
  BY <1>2 DEF Keeps, Claims, IInv, RoomInv
<1>6. PoolInv' /\ OwnerInv' /\ Queued' \subseteq Queued \cup {s}
  <2>1. CASE Insert(s)
    BY <2>1, <1>2, <1>4, <1>5, InsertOwners DEF IInv, Join
  <2>2. CASE UNCHANGED players
    BY <2>2, OwnersFrame DEF Join, IInv, roomVars, Queued
  <2>. QED  BY <2>1, <2>2 DEF Join
<1>7. HandlerInv'
  <2>1. handler'[s] \in {"waiting", "done"} /\ \A t \in Streams \ {s} : handler'[t] = handler[t]
    BY <1>3 DEF Join
  <2>. QED  BY <2>1, <1>6 DEF HandlerInv, IInv, Join, roomVars
<1>. QED  BY <1>1, <1>6, <1>7 DEF Rest

\* A handler moves on and nothing else changes.
LEMMA HandlerOnlyInv ==
  ASSUME IInv, NEW s \in Streams, NEW h \in {"waiting", "leaving", "done"}, handler[s] # "idle",
         handler' = [handler EXCEPT ![s] = h],
         UNCHANGED <<poolVars, matchCh, evt, roomVars, answer>>
  PROVE  Rest'
<1>1. PoolInv' /\ OwnerInv' /\ RoomInv' /\ EventInv' /\ VerdictInv'
  BY OwnersFrame, RoomFrame, EventFrame, VerdictFrame DEF IInv, poolVars, roomVars
<1>2. handler'[s] = h /\ \A t \in Streams \ {s} : handler'[t] = handler[t]
  BY DEF IInv, TypeOK
<1>3. HandlerInv'
  BY <1>2 DEF HandlerInv, IInv, poolVars, roomVars, Queued
<1>. QED  BY <1>1, <1>3 DEF Rest

\* The exits of the select loop move the handler and nothing else.
LEMMA LeaveInv ==
  ASSUME IInv, NEW s \in Streams, Leave(s)
  PROVE  Rest'
  BY HandlerOnlyInv DEF Leave

\* Reading ResultCh moves the handler and nothing else.
LEMMA LearnVerdictInv ==
  ASSUME IInv, NEW s \in Streams, LearnVerdict(s)
  PROVE  Rest'
<1>1. PICK h \in {"waiting", "leaving"} : handler' = [handler EXCEPT ![s] = h]
  BY DEF LearnVerdict
<1>. QED  BY <1>1, HandlerOnlyInv DEF LearnVerdict

\* Cancelled and Cleanup: Dequeue by player id, then the handler moves on.
LEMMA DequeuingInv ==
  ASSUME IInv, NEW s \in Streams, NEW h \in {"leaving", "done"}, handler[s] # "idle",
         Dequeue(PlayerOf[s]), handler' = [handler EXCEPT ![s] = h],
         UNCHANGED <<matchCh, evt, roomVars, answer>>
  PROVE  Rest'
<1>1. PlayerOf[s] \in PlayerIDs
  BY MatchmakingAssumption
<1>2. /\ PoolInv' /\ OwnerInv' /\ Queued' \subseteq Queued
      /\ \A t \in closed' \ closed : t \in Queued
  BY <1>1, DequeueOwners DEF IInv, roomVars
<1>3. RoomInv' /\ EventInv' /\ VerdictInv'
  BY RoomFrame, EventFrame, VerdictFrame DEF IInv, roomVars
<1>4. handler'[s] = h /\ \A t \in Streams \ {s} : handler'[t] = handler[t]
  BY DEF IInv, TypeOK
<1>5. HandlerInv'
  BY <1>2, <1>4 DEF HandlerInv, IInv, roomVars
<1>. QED  BY <1>2, <1>3, <1>5 DEF Rest

\* The event moves from the MatchCh to the screen, once.
LEMMA TakeEventInv ==
  ASSUME IInv, NEW s \in Streams, TakeEvent(s)
  PROVE  Rest'
<1> DEFINE m == matchCh[s]
<1>1. m \in Rooms /\ evt' = [evt EXCEPT ![s] = m] /\ matchCh' = [matchCh EXCEPT ![s] = None]
  BY DEF TakeEvent, IInv, TypeOK
<1>2. evt'[s] = m /\ matchCh'[s] = None
      /\ \A t \in Streams \ {s} : evt'[t] = evt[t] /\ matchCh'[t] = matchCh[t]
  BY <1>1 DEF IInv, TypeOK
<1>3. handler'[s] \in {"readycheck", "leaving"} /\ \A t \in Streams \ {s} : handler'[t] = handler[t]
  BY DEF TakeEvent, IInv, TypeOK
<1>4. RoomInv' /\ VerdictInv'
  BY RoomFrame, VerdictFrame DEF TakeEvent, IInv, roomVars
<1>5. \A n \in Rooms : \A t \in Streams : Keeps(n, t)' <=> Keeps(n, t)
  BY DEF TakeEvent, Keeps, Claims, roomVars
<1>6. PoolInv'
  BY <1>2, <1>5 DEF PoolInv, IInv, TakeEvent, poolVars, Queued
<1>7. OwnerInv'
  BY <1>2, <1>5 DEF OwnerInv, IInv, TakeEvent, poolVars
<1>8. EventInv'
  BY <1>1, <1>2, MatchmakingAssumption DEF EventInv, IInv, TakeEvent, roomVars
<1>9. HandlerInv'
  BY <1>1, <1>2, <1>3 DEF HandlerInv, EventInv, IInv, TakeEvent, roomVars, poolVars, Queued
<1>. QED  BY <1>4, <1>6, <1>7, <1>8, <1>9 DEF Rest

\* AcceptRoom and DeclineRoom: the answer is written, as none was there.
LEMMA RespondInv ==
  ASSUME IInv, NEW s \in Streams, NEW a \in {"yes", "no"}, NEW h \in {"verdict", "leaving"},
         handler[s] = "readycheck", Respond(s, a), handler' = [handler EXCEPT ![s] = h],
         UNCHANGED <<poolVars, matchCh, evt, roomVars>>
  PROVE  Rest'
<1> DEFINE m == evt[s]
<1>1. m \in Rooms /\ answer[m][s] = "none" /\ s \in members[m]
  BY DEF IInv, HandlerInv, EventInv
<1>2. answer'[m][s] = a
      /\ \A n \in Rooms : \A t \in Streams : n # m \/ t # s => answer'[n][t] = answer[n][t]
  BY <1>1 DEF Respond, IInv, TypeOK
<1>3. handler'[s] = h /\ \A t \in Streams \ {s} : handler'[t] = handler[t]
  BY DEF IInv, TypeOK
<1>4. PoolInv' /\ OwnerInv' /\ VerdictInv'
  BY OwnersFrame, VerdictFrame DEF IInv, poolVars, roomVars
<1>5. RoomInv'
  <2>1. \A n \in Rooms : s \in accepted[n] => n # m
    BY <1>1 DEF RoomInv, IInv
  <2>2. ASSUME NEW n \in Rooms, NEW t \in accepted[n] PROVE answer'[n][t] = "yes"
    <3>1. t \in Streams /\ answer[n][t] = "yes" /\ (n # m \/ t # s)
      BY <2>1 DEF RoomInv, IInv, TypeOK
    <3>. QED  BY <1>2, <3>1
  <2>. QED  BY <2>2 DEF RoomInv, IInv, roomVars
<1>6. EventInv'
  BY <1>1, <1>2 DEF EventInv, IInv, roomVars
<1>7. HandlerInv'
  BY <1>1, <1>2, <1>3 DEF HandlerInv, IInv, roomVars, poolVars, Queued
<1>. QED  BY <1>4, <1>5, <1>6, <1>7 DEF Rest

\* Every step of EnterMatchmaking preserves the invariant.
LEMMA HandlerStepInv ==
  ASSUME IInv, NEW s \in Streams, HandlerStep(s)
  PROVE  Rest'
<1>1. CASE Join(s)
  BY <1>1, JoinInv
<1>2. CASE ClientDone(s) \/ SendFails(s) \/ RemovedFromQueue(s)
  BY <1>2, LeaveInv DEF ClientDone, SendFails, RemovedFromQueue
<1>3. CASE Cancelled(s)
  BY <1>3, DequeuingInv DEF Cancelled
<1>4. CASE TakeEvent(s)
  BY <1>4, TakeEventInv
<1>5. CASE AcceptRoom(s)
  BY <1>5, RespondInv DEF AcceptRoom
<1>6. CASE DeclineRoom(s)
  BY <1>6, RespondInv DEF DeclineRoom
<1>7. CASE LearnVerdict(s)
  BY <1>7, LearnVerdictInv
<1>8. CASE Cleanup(s)
  BY <1>8, DequeuingInv DEF Cleanup
<1>. QED  BY <1>1, <1>2, <1>3, <1>4, <1>5, <1>6, <1>7, <1>8 DEF HandlerStep

\* The extracted tickets leave the index in the step in which the room claims them.
LEMMA ExtractMatchInv ==
  ASSUME IInv, NEW m \in Rooms, NEW S \in SUBSET Streams, ExtractMatch(m, S)
  PROVE  Rest'
<1>1. phase[m] = "free" /\ S \subseteq Queued /\ members[m] = {} /\ todo[m] = {} /\ accepted[m] = {}
  BY DEF ExtractMatch, Take, IInv, RoomInv
<1>2. phase'[m] = "notifying" /\ members'[m] = S /\ todo'[m] = S
  BY DEF ExtractMatch, IInv, TypeOK
<1>3. \A n \in Rooms \ {m} : phase'[n] = phase[n] /\ members'[n] = members[n] /\ todo'[n] = todo[n]
  BY DEF ExtractMatch, IInv, TypeOK
<1>4. UNCHANGED <<closed, matchCh, handler, evt, answer, accepted, result, sessions>>
  BY DEF ExtractMatch, gatewayVars
<1>5. \A s \in Streams : s \in Queued' <=> s \in Queued \ S
  <2>1. players' = [id \in PlayerIDs |-> IF players[id] \in S THEN None ELSE players[id]]
    BY DEF ExtractMatch, Take
  <2>2. PlayerOf \in [Streams -> PlayerIDs] /\ None \notin Streams
    BY MatchmakingAssumption
  <2>. QED  BY <1>1, <2>1, <2>2 DEF Queued
<1>6. \A s \in Streams : Keeps(m, s)' <=> s \in S
  BY <1>2 DEF Keeps, Claims
<1>7. \A n \in Rooms \ {m} : \A s \in Streams : Keeps(n, s)' <=> Keeps(n, s)
  BY <1>3 DEF Keeps, Claims
<1>8. PoolInv'
  <2>1. \A id \in PlayerIDs : players'[id] # None => PlayerOf[players'[id]] = id
    BY DEF ExtractMatch, Take, IInv, PoolInv
  <2>2. ASSUME NEW s \in Queued'
        PROVE  s \notin closed' /\ matchCh'[s] = None /\ \A n \in Rooms : ~Keeps(n, s)'
    <3>1. s \in Streams /\ s \in Queued /\ s \notin S
      BY <1>5, <2>2 DEF Queued
    <3>. QED  BY <1>4, <1>6, <1>7, <3>1 DEF IInv, PoolInv
  <2>. QED  BY <2>1, <2>2 DEF PoolInv
<1>9. OwnerInv'
  BY <1>1, <1>4, <1>6, <1>7 DEF IInv, PoolInv, OwnerInv
<1>10. RoomInv'
  BY <1>1, <1>2, <1>3, <1>4 DEF IInv, RoomInv
<1>11. EventInv'
  BY <1>1, <1>2, <1>3, <1>4, MatchmakingAssumption DEF IInv, PoolInv, EventInv, TypeOK
<1>12. HandlerInv'
  BY <1>1, <1>2, <1>3, <1>4, <1>5 DEF IInv, HandlerInv
<1>13. VerdictInv'
  BY <1>1, <1>2, <1>3, <1>4 DEF IInv, VerdictInv
<1>. QED  BY <1>8, <1>9, <1>10, <1>11, <1>12, <1>13 DEF Rest

\* The buffer is empty, so the send delivers.
LEMMA NotifyInv ==
  ASSUME IInv, NEW m \in Rooms, NEW s \in Streams, Notify(m, s)
  PROVE  Rest'
<1>1. /\ phase[m] = "notifying" /\ s \in todo[m] /\ s \in members[m] /\ Keeps(m, s)
      /\ matchCh[s] = None /\ evt[s] # m /\ answer[m][s] = "none"
  BY DEF Notify, IInv, EventInv, RoomInv, Keeps, Claims
<1>2. matchCh'[s] = m /\ \A t \in Streams \ {s} : matchCh'[t] = matchCh[t]
  BY <1>1 DEF Notify, IInv, TypeOK
<1>3. todo'[m] = todo[m] \ {s} /\ \A n \in Rooms \ {m} : todo'[n] = todo[n]
  BY DEF Notify, IInv, TypeOK
<1>4. UNCHANGED <<players, closed, handler, evt, phase, members, answer, accepted, result, sessions>>
  BY DEF Notify, poolVars, gatewayVars
<1>5. \A n \in Rooms : \A t \in Streams : Keeps(n, t)' <=> Keeps(n, t)
  BY <1>1, <1>3, <1>4 DEF Keeps, Claims
<1>6. s \notin Queued /\ handler[s] # "idle"
  BY <1>1 DEF IInv, PoolInv, HandlerInv
<1>7. PoolInv'
  BY <1>2, <1>4, <1>5, <1>6 DEF IInv, PoolInv, Queued
<1>8. OwnerInv'
  BY <1>1, <1>2, <1>4, <1>5 DEF IInv, OwnerInv
<1>9. RoomInv'
  BY <1>1, <1>3, <1>4 DEF IInv, RoomInv
<1>10. EventInv'
  <2>1. ASSUME NEW n \in Rooms, NEW t \in Streams, phase'[n] = "notifying", t \in todo'[n]
        PROVE  matchCh'[t] = None /\ evt'[t] # n /\ answer'[n][t] = "none"
    <3>1. t \in todo[n] /\ Keeps(n, t)
      BY <2>1, <1>3, <1>4 DEF IInv, RoomInv, Keeps, Claims
    <3>2. t # s
      BY <3>1, <1>1, <1>3, <2>1 DEF IInv, OwnerInv
    <3>. QED  BY <3>1, <3>2, <1>2, <1>4, <2>1 DEF IInv, EventInv
  <2>. QED  BY <2>1, <1>1, <1>2, <1>4 DEF IInv, EventInv
<1>11. HandlerInv'
  BY <1>2, <1>4, <1>6 DEF IInv, HandlerInv, Queued
<1>12. VerdictInv'
  BY <1>4, VerdictFrame DEF IInv
<1>. QED  BY <1>7, <1>8, <1>9, <1>10, <1>11, <1>12 DEF Rest

\* Everybody has been notified: the room waits for answers.
LEMMA StartCoordinatorInv ==
  ASSUME IInv, NEW m \in Rooms, StartCoordinator(m)
  PROVE  Rest'
<1>1. phase[m] = "notifying" /\ phase'[m] = "gathering" /\ \A n \in Rooms \ {m} : phase'[n] = phase[n]
  BY DEF StartCoordinator, IInv, TypeOK
<1>2. \A n \in Rooms : \A s \in Streams : Keeps(n, s)' => Keeps(n, s)
  BY <1>1 DEF StartCoordinator, Keeps, Claims
<1>3. PoolInv' /\ OwnerInv' /\ HandlerInv'
  BY <1>2, OwnersShrink, HandlerFrame DEF StartCoordinator, IInv, poolVars, gatewayVars
<1>4. RoomInv' /\ VerdictInv'
  BY <1>1 DEF StartCoordinator, IInv, RoomInv, VerdictInv
<1>5. EventInv'
  BY <1>1, EventAfterNotify DEF StartCoordinator, IInv, gatewayVars
<1>. QED  BY <1>3, <1>4, <1>5 DEF Rest

\* Only answers of members are counted.
LEMMA CountAcceptInv ==
  ASSUME IInv, NEW m \in Rooms, NEW s \in Streams, CountAccept(m, s)
  PROVE  Rest'
<1>1. PoolInv' /\ OwnerInv' /\ EventInv' /\ HandlerInv'
  BY OwnersFrame, EventFrame, HandlerFrame DEF CountAccept, IInv, poolVars, gatewayVars
<1>2. accepted'[m] = accepted[m] \cup {s} /\ \A n \in Rooms \ {m} : accepted'[n] = accepted[n]
  BY DEF CountAccept, IInv, TypeOK
<1>3. RoomInv'
  BY <1>2 DEF CountAccept, IInv, RoomInv
<1>4. VerdictInv'
  BY <1>2 DEF CountAccept, IInv, VerdictInv
<1>. QED  BY <1>1, <1>3, <1>4 DEF Rest

\* The verdict: no session yet, so neither outcome contradicts one.
LEMMA DecideInv ==
  ASSUME IInv, NEW m \in Rooms, NEW v \in {"confirming", "cancelling"}, Decide(m, v),
         \/ v = "confirming" /\ accepted[m] = members[m] /\ sessions' = sessions \cup {m}
         \/ v = "cancelling" /\ UNCHANGED sessions
  PROVE  Rest'
<1>1. phase[m] = "gathering" /\ phase'[m] = v /\ todo'[m] = members[m]
  BY DEF Decide, IInv, TypeOK
<1>2. \A n \in Rooms \ {m} : phase'[n] = phase[n] /\ todo'[n] = todo[n]
  BY DEF Decide, IInv, TypeOK
<1>3. \A n \in Rooms : \A s \in Streams : Keeps(n, s)' => Keeps(n, s)
  BY <1>1, <1>2 DEF Decide, Keeps, Claims
<1>4. PoolInv' /\ OwnerInv' /\ HandlerInv'
  BY <1>3, OwnersShrink, HandlerFrame DEF Decide, IInv, poolVars, gatewayVars
<1>5. RoomInv'
  BY <1>1, <1>2 DEF Decide, IInv, RoomInv
<1>6. EventInv'
  BY <1>1, <1>2, EventAfterNotify DEF Decide, IInv, gatewayVars
<1>7. VerdictInv'
  BY <1>1, <1>2 DEF Decide, IInv, VerdictInv
<1>. QED  BY <1>4, <1>5, <1>6, <1>7 DEF Rest

\* The result that is sent is the verdict the phase stands for.
LEMMA SendResultInv ==
  ASSUME IInv, NEW m \in Rooms, NEW s \in Streams, SendResult(m, s)
  PROVE  Rest'
<1> DEFINE r == IF phase[m] = "confirming" THEN "true" ELSE "false"
<1>1. todo'[m] = todo[m] \ {s} /\ \A n \in Rooms \ {m} : todo'[n] = todo[n]
  BY DEF SendResult, IInv, TypeOK
<1>2. result'[m][s] = r
      /\ \A n \in Rooms : \A t \in Streams : n # m \/ t # s => result'[n][t] = result[n][t]
  BY DEF SendResult, IInv, TypeOK
<1>3. \A n \in Rooms : \A t \in Streams : Keeps(n, t)' => Keeps(n, t)
  BY <1>1 DEF SendResult, Keeps, Claims
<1>4. PoolInv' /\ OwnerInv' /\ HandlerInv'
  BY <1>3, OwnersShrink, HandlerFrame DEF SendResult, IInv, poolVars, gatewayVars
<1>5. RoomInv'
  BY <1>1 DEF SendResult, IInv, RoomInv
<1>6. EventInv'
  BY <1>1, EventAfterNotify DEF SendResult, IInv, gatewayVars
<1>7. VerdictInv'
  BY <1>2 DEF SendResult, IInv, RoomInv, VerdictInv
<1>. QED  BY <1>4, <1>5, <1>6, <1>7 DEF Rest

\* A confirmed room keeps its members; a cancelled one narrows to the counted ones.
LEMMA ResultsSentInv ==
  ASSUME IInv, NEW m \in Rooms, ResultsSent(m)
  PROVE  Rest'
<1>1. \/ /\ phase[m] = "confirming" /\ phase'[m] = "confirmed" /\ todo'[m] = todo[m]
      \/ /\ phase[m] = "cancelling" /\ phase'[m] = "requeuing" /\ todo'[m] = accepted[m]
  BY DEF ResultsSent, IInv, TypeOK
<1>2. \A n \in Rooms \ {m} : phase'[n] = phase[n] /\ todo'[n] = todo[n]
  BY DEF ResultsSent, IInv, TypeOK
<1>3. \A n \in Rooms : \A s \in Streams : Keeps(n, s)' => Keeps(n, s)
  BY <1>1, <1>2 DEF ResultsSent, Keeps, Claims, IInv, RoomInv
<1>4. PoolInv' /\ OwnerInv' /\ HandlerInv'
  BY <1>3, OwnersShrink, HandlerFrame DEF ResultsSent, IInv, poolVars, gatewayVars
<1>5. RoomInv'
  BY <1>1, <1>2 DEF ResultsSent, IInv, RoomInv
<1>6. EventInv'
  BY <1>1, <1>2, EventAfterNotify DEF ResultsSent, IInv, gatewayVars
<1>7. VerdictInv'
  BY <1>1, <1>2 DEF ResultsSent, IInv, VerdictInv
<1>. QED  BY <1>4, <1>5, <1>6, <1>7 DEF Rest

\* A counted member has answered, so its MatchCh is empty and it may queue again.
LEMMA RequeueInv ==
  ASSUME IInv, NEW m \in Rooms, NEW s \in Streams, Requeue(m, s)
  PROVE  Rest'
<1>1. phase[m] = "requeuing" /\ s \in todo[m] /\ s \in members[m] /\ Keeps(m, s)
  BY DEF Requeue, IInv, RoomInv, Keeps, Claims
<1>2. s \notin closed /\ matchCh[s] = None /\ \A n \in Rooms : Keeps(n, s) => n = m
  BY <1>1 DEF IInv, OwnerInv, RoomInv, EventInv
<1>3. todo'[m] = todo[m] \ {s} /\ \A n \in Rooms \ {m} : todo'[n] = todo[n]
  BY DEF Requeue, IInv, TypeOK
<1>4. \A n \in Rooms : \A t \in Streams : Keeps(n, t)' => Keeps(n, t)
  BY <1>1, <1>3 DEF Requeue, Keeps, Claims
<1>5. \A n \in Rooms : ~Keeps(n, s)'
  <2>1. ~Keeps(m, s)'
    BY <1>1, <1>3 DEF Requeue, Keeps, Claims
  <2>. QED  BY <1>2, <1>4, <2>1
<1>6. PoolInv' /\ OwnerInv' /\ Queued' \subseteq Queued \cup {s}
  <2>1. CASE Insert(s)
    BY <2>1, <1>2, <1>4, <1>5, InsertOwners DEF IInv, Requeue
  <2>2. CASE UNCHANGED players
    BY <2>2, <1>4, OwnersShrink DEF IInv, Requeue, Queued
  <2>. QED  BY <2>1, <2>2 DEF Requeue, ReEnqueue
<1>7. RoomInv'
  BY <1>1, <1>3 DEF Requeue, IInv, RoomInv
<1>8. EventInv'
  BY <1>1, <1>3, EventAfterNotify DEF Requeue, IInv, gatewayVars
<1>9. HandlerInv'
  BY <1>1, <1>6 DEF Requeue, IInv, HandlerInv, gatewayVars
<1>10. VerdictInv'
  BY VerdictFrame DEF Requeue, IInv
<1>. QED  BY <1>6, <1>7, <1>8, <1>9, <1>10 DEF Rest

\* The loop over the counted members is over, so the room claims nobody.
LEMMA CloseRoomInv ==
  ASSUME IInv, NEW m \in Rooms, CloseRoom(m)
  PROVE  Rest'
<1>1. phase[m] = "requeuing" /\ phase'[m] = "cancelled" /\ \A n \in Rooms \ {m} : phase'[n] = phase[n]
  BY DEF CloseRoom, IInv, TypeOK
<1>2. \A n \in Rooms : \A s \in Streams : Keeps(n, s)' => Keeps(n, s)
  BY <1>1 DEF CloseRoom, Keeps, Claims
<1>3. PoolInv' /\ OwnerInv' /\ HandlerInv'
  BY <1>2, OwnersShrink, HandlerFrame DEF CloseRoom, IInv, poolVars, gatewayVars
<1>4. RoomInv' /\ VerdictInv'
  BY <1>1 DEF CloseRoom, IInv, RoomInv, VerdictInv
<1>5. EventInv'
  BY <1>1, EventAfterNotify DEF CloseRoom, IInv, gatewayVars
<1>. QED  BY <1>3, <1>4, <1>5 DEF Rest

-------------------------------------------------------------------------------
(* The theorems                                                              *)

\* Every step of the program, and stuttering, preserves the invariant.
LEMMA IInvStep == IInv /\ [Next]_vars => IInv'
<1> SUFFICES ASSUME IInv, [Next]_vars PROVE IInv'
  OBVIOUS
<1>1. TypeOK'
  BY TypeOKStep DEF IInv
<1>2. CASE UNCHANGED vars
  BY <1>1, <1>2, OwnersFrame, RoomFrame, EventFrame, HandlerFrame, VerdictFrame
  DEF IInv, vars, poolVars, gatewayVars, roomVars
<1>3. CASE Next
  <2>1. ASSUME NEW s \in Streams, ClientStep(s) \/ HandlerStep(s) PROVE Rest'
    BY <2>1, ClientInv, HandlerStepInv
  <2>2. ASSUME NEW m \in Rooms, TickStep(m) PROVE Rest'
    BY <2>2, ExtractMatchInv, NotifyInv, StartCoordinatorInv DEF TickStep
  <2>3. ASSUME NEW m \in Rooms, CoordinatorStep(m) PROVE Rest'
    <3>1. CASE Confirm(m) \/ RoomTimeout(m) \/ \E s \in Streams : FastFail(m, s)
      BY <3>1, DecideInv DEF Confirm, RoomTimeout, FastFail
    <3>2. CASE ResultsSent(m) \/ CloseRoom(m)
      BY <3>2, ResultsSentInv, CloseRoomInv
    <3>3. CASE \E s \in Streams : CountAccept(m, s) \/ SendResult(m, s) \/ Requeue(m, s)
      BY <3>3, CountAcceptInv, SendResultInv, RequeueInv
    <3>. QED  BY <2>3, <3>1, <3>2, <3>3 DEF CoordinatorStep
  <2>. QED  BY <1>1, <1>3, <2>1, <2>2, <2>3 DEF Next, Rest, IInv
<1>. QED  BY <1>2, <1>3

\* The parts of IInv hold in every reachable state.
THEOREM Invariance == Spec => []IInv
  BY IInvInit, IInvStep, PTL DEF Spec

\* A ticket is in the queue or in one room: concurrent ticks (the worker's and those of
\* ForceMatch) and the re-enqueues of finished coordinators never share a player.
THEOREM TicketsHaveOneOwner == Spec => []OneOwner
<1>1. IInv => OneOwner
  BY DEF IInv, PoolInv, OwnerInv, OneOwner, Held, Keeps
<1>. QED  BY <1>1, Invariance, PTL

\* The worker never sends on a closed MatchCh, Dequeue never closes one twice, and no
\* MatchEvent is dropped because the buffer is full.
THEOREM MatchChannelsReady == Spec => []MatchChReady
<1>1. IInv => MatchChReady
  <2> SUFFICES ASSUME IInv, NEW s \in Streams, s \in Queued \/ Unnotified(s)
               PROVE  s \notin closed /\ matchCh[s] = None
    BY DEF MatchChReady
  <2>1. CASE s \in Queued
    BY <2>1 DEF IInv, PoolInv
  <2>2. ASSUME NEW m \in Rooms, phase[m] = "notifying", s \in todo[m]
        PROVE  s \notin closed /\ matchCh[s] = None
    <3>1. Keeps(m, s)
      BY <2>2 DEF IInv, RoomInv, Keeps, Claims
    <3>. QED  BY <2>2, <3>1 DEF IInv, OwnerInv, EventInv
  <2>. QED  BY <2>1, <2>2 DEF Unnotified
<1>. QED  BY <1>1, Invariance, PTL

\* Every handler of a room that heard its verdict heard the one the coordinator took,
\* and a session exists only for a room all of whose members accepted.
THEOREM VerdictsAgree == Spec => []VerdictAgreement
<1>1. IInv => VerdictAgreement
  <2> SUFFICES ASSUME IInv, NEW m \in Rooms
               PROVE  /\ m \in sessions =>
                           \A s \in members[m] : answer[m][s] = "yes" /\ result[m][s] # "false"
                      /\ \A s \in Streams : result[m][s] = "true" => m \in sessions /\ s \in members[m]
    BY DEF VerdictAgreement
  <2>1. ASSUME m \in sessions, NEW s \in members[m]
        PROVE  answer[m][s] = "yes" /\ result[m][s] # "false"
    <3>1. s \in Streams /\ s \in accepted[m] /\ phase[m] \in {"confirming", "confirmed"}
      BY <2>1 DEF IInv, TypeOK, VerdictInv
    <3>. QED  BY <3>1 DEF IInv, RoomInv, VerdictInv
  <2>. QED  BY <2>1 DEF IInv, VerdictInv
<1>. QED  BY <1>1, Invariance, PTL

\* The members of a session never return to the pool and no other room decides about
\* them.
THEOREM SessionMembersStayOut == Spec => []SessionMembersGone
<1>1. IInv => SessionMembersGone
  <2> SUFFICES ASSUME IInv, NEW m \in sessions, NEW s \in members[m]
               PROVE  s \notin Queued /\ \A m2 \in Rooms \ {m} : ~Claims(m2, s)
    BY DEF SessionMembersGone
  <2>1. m \in Rooms /\ s \in Streams
    BY DEF IInv, TypeOK
  <2>2. Keeps(m, s)
    BY <2>1 DEF IInv, VerdictInv, Keeps, Claims
  <2>. QED  BY <2>1, <2>2 DEF IInv, PoolInv, OwnerInv, Keeps
<1>. QED  BY <1>1, Invariance, PTL

===============================================================================
