----------------------------- MODULE Server_proofs -----------------------------
(***************************************************************************)
(* Proofs about Server, for any number of streams, ForceMatch calls and    *)
(* rooms, any limit and any room size: the process is a behaviour of the   *)
(* matchmaking core, so what holds of the core holds while it starts,      *)
(* serves, shuts down or crashes; the limiter's slots, the WaitGroup at    *)
(* shutdown and the counters behind ForceMatch.                            *)
(***************************************************************************)
EXTENDS Server, Matchmaking_proofs, FiniteSetTheorems

-------------------------------------------------------------------------------
(* The process drives the core                                               *)

\* Whatever a goroutine of the process does is a step of the core or none.
LEMMA StepOfCore == [ServerNext]_serverVars => [Next]_vars
<1> SUFFICES ASSUME [ServerNext]_serverVars PROVE Next \/ UNCHANGED vars
  OBVIOUS
<1>1. ASSUME NEW s \in Streams, StreamStep(s) \/ PlayerStep(s) PROVE Next \/ UNCHANGED vars
  BY <1>1 DEF StreamStep, PlayerStep, Admit, JoinAdmitted, StreamEnds, Unseen, Next, HandlerStep
<1>2. ASSUME NEW p \in Tickers, TickerStep(p) PROVE Next \/ UNCHANGED vars
  <2>1. CASE Count(p) \/ TickEnds(p)
    BY <2>1 DEF Count, TickEnds
  <2>2. ASSUME NEW m \in Rooms,
               \/ \E S \in SUBSET Streams : Extract(p, m, S)
               \/ \E s \in Streams : NotifyMember(p, m, s)
               \/ Launch(p, m)
        PROVE  Next
    <3>1. TickStep(m)
      BY <2>2 DEF Extract, NotifyMember, Launch, Unseen, TickStep
    <3>. QED  BY <3>1 DEF Next
  <2>. QED  BY <1>2, <2>1, <2>2 DEF TickerStep
<1>3. ASSUME NEW m \in Rooms, CoordinatorRuns(m) \/ CoordinatorReturns(m) PROVE Next
  <2>1. CoordinatorStep(m)
    BY <1>3 DEF CoordinatorRuns, CoordinatorReturns, Unseen
  <2>. QED  BY <2>1 DEF Next
<1>4. ASSUME NEW c \in Callers, ForceMatch(c) \/ \E m \in Rooms : LaunchPanics(c, m) PROVE UNCHANGED vars
  BY <1>4 DEF ForceMatch, LaunchPanics
<1>5. CASE WorkerTicks \/ WorkerStops \/ ShutdownStep
  BY <1>5 DEF WorkerTicks, WorkerStops, ShutdownStep, Recheck, Wake, Signal, Wait, StopWorkerReturns, Stop, Becomes
<1>6. CASE UNCHANGED serverVars
  BY <1>6 DEF serverVars
<1>. QED  BY <1>1, <1>2, <1>3, <1>4, <1>5, <1>6 DEF ServerNext

\* Every run of the process is a behaviour of the core: its theorems hold of the server,
\* through shutdown, panics and crashes.
THEOREM ServerRunsTheCore == ServerSpec => Spec
<1>1. ServerInit => Init
  BY DEF ServerInit
<1>. QED  BY <1>1, StepOfCore, PTL DEF ServerSpec, Spec

-------------------------------------------------------------------------------
(* What steps do to rooms                                                    *)

Busy == {"gathering", "confirming", "cancelling", "requeuing"}

\* A coordinator at work, or about to return.
LEMMA CoordinatorFacts ==
  ASSUME TypeOK, NEW m \in Rooms, CoordinatorStep(m)
  PROVE  /\ phase[m] \in Busy /\ phase'[m] \in Busy \cup {"confirmed", "cancelled"}
         /\ \A n \in Rooms \ {m} : phase'[n] = phase[n]
         /\ handler' = handler
<1> USE DEF Busy
<1>1. CASE \E s \in Streams : CountAccept(m, s) \/ SendResult(m, s) \/ Requeue(m, s)
  BY <1>1 DEF CountAccept, SendResult, Requeue, gatewayVars
<1>2. ASSUME NEW v \in Busy, Decide(m, v)
      PROVE  /\ phase[m] \in Busy /\ phase'[m] \in Busy
             /\ \A n \in Rooms \ {m} : phase'[n] = phase[n]
             /\ handler' = handler
  BY <1>2 DEF Decide, gatewayVars, TypeOK
<1>3. CASE (\E s \in Streams : FastFail(m, s)) \/ Confirm(m) \/ RoomTimeout(m)
  BY <1>2, <1>3 DEF FastFail, Confirm, RoomTimeout
<1>4. CASE ResultsSent(m) \/ CloseRoom(m)
  BY <1>4 DEF ResultsSent, CloseRoom, gatewayVars, TypeOK
<1>. QED  BY <1>1, <1>3, <1>4 DEF CoordinatorStep

\* No room starts, ends or gets a coordinator.
SameRooms == \A m \in Rooms : phase'[m] = phase[m] \/ (phase[m] \in Busy /\ phase'[m] \in Busy)

\* The sets of rooms that the process counts are then the same.
LEMMA SameSets ==
  ASSUME SameRooms, owner' = owner
  PROVE  /\ Launched' = Launched /\ Running' = Running
         /\ \A p : LaunchedBy(p)' = LaunchedBy(p)
         /\ \A m \in Rooms : /\ phase'[m] = "notifying" <=> phase[m] = "notifying"
                             /\ phase'[m] = "free" <=> phase[m] = "free"
                             /\ Over(m)' <=> Over(m)
  BY DEF SameRooms, Busy, Launched, Running, LaunchedBy, Over

\* A handler that may hold a ticket has been admitted.
HandlersAdmitted ==
  \A s \in Streams : handler'[s] \notin {"idle", "done"} => call[s] = "running" \/ handler[s] \notin {"idle", "done"}

\* What the process does not see moves handlers, and coordinators within their room.
LEMMA UnseenFacts ==
  ASSUME TypeOK,
         \/ \E s \in Streams : JoinAdmitted(s) \/ PlayerStep(s)
         \/ \E p \in Tickers, m \in Rooms, s \in Streams : NotifyMember(p, m, s)
         \/ \E m \in Rooms : CoordinatorRuns(m)
  PROVE  UNCHANGED processVars /\ SameRooms /\ HandlersAdmitted
<1>1. ASSUME NEW s \in Streams, JoinAdmitted(s) PROVE UNCHANGED processVars /\ SameRooms /\ HandlersAdmitted
  BY <1>1 DEF JoinAdmitted, Unseen, Join, SameRooms, HandlersAdmitted, roomVars, TypeOK
<1>2. ASSUME NEW s \in Streams, PlayerStep(s) PROVE UNCHANGED processVars /\ SameRooms /\ HandlersAdmitted
  <2>1. UNCHANGED processVars /\ handler[s] # "idle" /\ (ClientStep(s) \/ HandlerStep(s))
    BY <1>2 DEF PlayerStep, Unseen
  <2>2. UNCHANGED phase /\ (handler[s] = "done" => handler' = handler) /\ \A t \in Streams \ {s} : handler'[t] = handler[t]
    BY <2>1 DEF ClientStep, ClientAccepts, ClientStops, HandlerStep, Join, ClientDone, SendFails, RemovedFromQueue,
      Leave, Cancelled, TakeEvent, AcceptRoom, DeclineRoom, LearnVerdict, Cleanup, roomVars, gatewayVars, TypeOK
  <2>. QED  BY <2>1, <2>2 DEF SameRooms, HandlersAdmitted
<1>3. ASSUME NEW p \in Tickers, NEW m \in Rooms, NEW s \in Streams, NotifyMember(p, m, s)
      PROVE  UNCHANGED processVars /\ SameRooms /\ HandlersAdmitted
  BY <1>3 DEF NotifyMember, Unseen, Notify, SameRooms, HandlersAdmitted, gatewayVars
<1>4. ASSUME NEW m \in Rooms, CoordinatorRuns(m) PROVE UNCHANGED processVars /\ SameRooms /\ HandlersAdmitted
  <2>1. UNCHANGED processVars /\ CoordinatorStep(m) /\ phase'[m] \notin {"confirmed", "cancelled"}
    BY <1>4 DEF CoordinatorRuns, Unseen, Over
  <2>. QED  BY <2>1, CoordinatorFacts DEF SameRooms, HandlersAdmitted
<1>. QED  BY <1>1, <1>2, <1>3, <1>4

\* The steps that move a room from one set to another.
LEMMA ExtractFacts ==
  ASSUME TypeOK, ServerTypeOK, NEW p \in Tickers, NEW m \in Rooms, NEW S \in SUBSET Streams, Extract(p, m, S)
  PROVE  /\ ticker[p] = "scan" /\ ticker' = [ticker EXCEPT ![p] = "notify"]
         /\ phase[m] = "free" /\ phase' = [phase EXCEPT ![m] = "notifying"]
         /\ owner' = [owner EXCEPT ![m] = p]
         /\ UNCHANGED <<handler, stopVars, limiterVars, countVars>>
         /\ Launched' = Launched /\ Running' = Running /\ \A q : LaunchedBy(q)' = LaunchedBy(q)
<1>1. /\ ticker[p] = "scan" /\ ticker' = [ticker EXCEPT ![p] = "notify"]
      /\ phase[m] = "free" /\ phase' = [phase EXCEPT ![m] = "notifying"]
      /\ owner' = [owner EXCEPT ![m] = p]
      /\ UNCHANGED <<handler, stopVars, limiterVars, countVars>>
  BY DEF Extract, ExtractMatch, Goto, gatewayVars
<1>2. Launched' = Launched
  BY <1>1 DEF Launched, TypeOK
<1>. QED  BY <1>1, <1>2 DEF Launched, Running, Over, LaunchedBy, TypeOK, ServerTypeOK

LEMMA LaunchFacts ==
  ASSUME TypeOK, NEW p \in Tickers, NEW m \in Rooms, Launch(p, m)
  PROVE  /\ ticker[p] = "notify" /\ ticker' = [ticker EXCEPT ![p] = "count"]
         /\ phase[m] = "notifying" /\ phase' = [phase EXCEPT ![m] = "gathering"]
         /\ owner[m] = p /\ wg' = wg + 1
         /\ UNCHANGED <<handler, main, owner, limiterVars, countVars>>
         /\ Launched' = Launched \cup {m} /\ m \notin Launched
         /\ Running' = Running \cup {m} /\ m \notin Running
         /\ LaunchedBy(p)' = LaunchedBy(p) \cup {m} /\ m \notin LaunchedBy(p)
         /\ \A q : q # p => LaunchedBy(q)' = LaunchedBy(q)
<1>1. /\ ticker[p] = "notify" /\ ticker' = [ticker EXCEPT ![p] = "count"]
      /\ phase[m] = "notifying" /\ phase' = [phase EXCEPT ![m] = "gathering"]
      /\ owner[m] = p /\ wg' = wg + 1
      /\ UNCHANGED <<handler, main, owner, limiterVars, countVars>>
  BY DEF Launch, InHand, StartCoordinator, Goto, gatewayVars
<1>2. Launched' = Launched \cup {m} /\ m \notin Launched
  BY <1>1 DEF Launched, TypeOK
<1>3. Running' = Running \cup {m} /\ m \notin Running
  BY <1>1, <1>2 DEF Running, Launched, Over, TypeOK
<1>. QED  BY <1>1, <1>2, <1>3 DEF LaunchedBy

LEMMA ReturnFacts ==
  ASSUME TypeOK, NEW m \in Rooms, CoordinatorReturns(m)
  PROVE  /\ Done /\ UNCHANGED <<handler, tickVars, limiterVars, countVars>>
         /\ phase[m] \in Busy /\ phase'[m] \in {"confirmed", "cancelled"}
         /\ \A n \in Rooms \ {m} : phase'[n] = phase[n]
         /\ Running' = Running \ {m} /\ m \in Running
         /\ Launched' = Launched /\ \A q : LaunchedBy(q)' = LaunchedBy(q)
<1>1. /\ Done /\ UNCHANGED <<tickVars, limiterVars, countVars>> /\ CoordinatorStep(m)
      /\ phase'[m] \in {"confirmed", "cancelled"}
  BY DEF CoordinatorReturns, Over
<1>2. phase[m] \in Busy /\ (\A n \in Rooms \ {m} : phase'[n] = phase[n]) /\ handler' = handler
  BY <1>1, CoordinatorFacts
<1>3. Launched' = Launched
  BY <1>1, <1>2 DEF Launched, Busy
<1>4. Running' = Running \ {m} /\ m \in Running
  BY <1>1, <1>2 DEF Launched, Running, Over, Busy
<1>. QED  BY <1>1, <1>2, <1>3, <1>4 DEF LaunchedBy, tickVars

-------------------------------------------------------------------------------
(* The kinds of steps                                                        *)

LEMMA Finite ==
  /\ \A S : S \subseteq Streams \/ S \subseteq Rooms \/ S \subseteq Tickers =>
       IsFiniteSet(S) /\ Cardinality(S) \in Nat
  /\ IsFiniteSet(Tickers)
<1>1. IsFiniteSet(Tickers)
  BY ServerAssumption, FS_Singleton, FS_Union DEF Tickers
<1>. QED  BY <1>1, ServerAssumption, FS_Subset, FS_CardinalityType

\* A goroutine that goes on without touching a room: from where, and to where.
Moves(p, from, to) ==
  /\ ticker[p] = from /\ ticker' = [ticker EXCEPT ![p] = to]
  /\ UNCHANGED <<vars, owner, limiterVars>>

LEMMA MoveFacts ==
  /\ WorkerTicks => Moves(Worker, "idle", "scan") /\ UNCHANGED <<stopVars, countVars>>
  /\ WorkerStops => Moves(Worker, "idle", "returned") /\ Done /\ UNCHANGED countVars
  /\ \A c \in Callers : ForceMatch(c) =>
       /\ Moves(c, "idle", "scan") /\ before' = [before EXCEPT ![c] = matchesCreated]
       /\ UNCHANGED <<stopVars, matchesCreated, report>>
  /\ \A c \in Callers, m \in Rooms : LaunchPanics(c, m) =>
       /\ Moves(c, "notify", "failed") /\ main \in {"zeroed", "checked"} /\ wg' = wg + 1
       /\ UNCHANGED <<main, countVars>>
  /\ \A p \in Tickers : Count(p) =>
       /\ Moves(p, "count", "scan") /\ matchesCreated' = matchesCreated + 1
       /\ UNCHANGED <<stopVars, before, report>>
  /\ \A p \in Tickers : TickEnds(p) =>
       /\ UNCHANGED <<stopVars, matchesCreated, before>>
       /\ \/ p = Worker /\ Moves(p, "scan", "idle") /\ UNCHANGED report
          \/ /\ p \in Callers /\ Moves(p, "scan", "returned")
             /\ report' = [report EXCEPT ![p] = matchesCreated - before[p]]
  BY DEF WorkerTicks, WorkerStops, ForceMatch, LaunchPanics, Count, TickEnds, Moves, Goto, Misused, InHand

Quiet == UNCHANGED processVars /\ SameRooms /\ HandlersAdmitted

\* ServerNext, with everything that the process does not see taken together.
LEMMA StepKinds ==
  ASSUME TypeOK, [ServerNext]_serverVars
  PROVE  \/ Quiet
         \/ \E s \in Streams : Admit(s) \/ StreamEnds(s)
         \/ \E p \in Tickers, m \in Rooms : Launch(p, m) \/ \E S \in SUBSET Streams : Extract(p, m, S)
         \/ \E c \in Callers : ForceMatch(c) \/ \E m \in Rooms : LaunchPanics(c, m)
         \/ \E p \in Tickers : Count(p) \/ TickEnds(p)
         \/ \E m \in Rooms : CoordinatorReturns(m)
         \/ WorkerTicks \/ WorkerStops \/ ShutdownStep
<1>1. ASSUME UNCHANGED serverVars PROVE Quiet
  <2>1. UNCHANGED processVars /\ UNCHANGED <<handler, phase>>
    BY <1>1 DEF serverVars, vars, gatewayVars, roomVars
  <2>. QED  BY <2>1 DEF Quiet, SameRooms, HandlersAdmitted
<1>2. ASSUME \/ \E s \in Streams : JoinAdmitted(s) \/ PlayerStep(s)
             \/ \E p \in Tickers, m \in Rooms, s \in Streams : NotifyMember(p, m, s)
             \/ \E m \in Rooms : CoordinatorRuns(m)
      PROVE  Quiet
  BY <1>2, UnseenFacts DEF Quiet
<1>. QED  BY <1>1, <1>2 DEF ServerNext, StreamStep, TickerStep

LEMMA ShutdownFacts ==
  ASSUME ShutdownStep
  PROVE  /\ UNCHANGED <<vars, tickVars, limiterVars, countVars>>
         /\ \/ main = "serving" /\ main' = "stopping" /\ wg' = wg
            \/ main = "stopping" /\ main' = "waiting" /\ wg' = wg
            \/ main = "stopping" /\ main' = "draining" /\ wg = 0 /\ wg' = wg
            \/ main = "zeroed" /\ main' \in {"checked", "crashed"} /\ wg' = wg
            \/ main = "checked" /\ main' = "woken" /\ wg' = 0
            \/ main = "woken" /\ main' = "draining" /\ wg' = wg
            \/ main = "draining" /\ main' = "stopped" /\ wg' = wg
  BY DEF ShutdownStep, Recheck, Wake, Signal, Wait, StopWorkerReturns, Stop, Becomes

-------------------------------------------------------------------------------
(* Slots                                                                     *)

\* A new set of running calls has one more, one fewer, or as many.
LEMMA SlotsStep ==
  ASSUME TypeOK, ServerTypeOK, SlotsMatchStreams, [ServerNext]_serverVars
  PROVE  SlotsMatchStreams' /\ sem' \in 0 .. MaxStreams /\ call' \in [Streams -> {"none", "running", "over"}]
<1>1. IsFiniteSet(InCall) /\ Cardinality(InCall) \in Nat
  BY Finite DEF InCall
<1>2. ASSUME UNCHANGED limiterVars, HandlersAdmitted
      PROVE  SlotsMatchStreams' /\ sem' \in 0 .. MaxStreams /\ call' \in [Streams -> {"none", "running", "over"}]
  <2>1. InCall' = InCall /\ UNCHANGED <<call, sem>>
    BY <1>2 DEF InCall, limiterVars
  <2>. QED  BY <1>2, <2>1 DEF SlotsMatchStreams, HandlersAdmitted, InCall, ServerTypeOK
<1>3. ASSUME UNCHANGED <<limiterVars, handler>>
      PROVE  SlotsMatchStreams' /\ sem' \in 0 .. MaxStreams /\ call' \in [Streams -> {"none", "running", "over"}]
  BY <1>2, <1>3 DEF HandlersAdmitted
<1>4. ASSUME NEW s \in Streams, Admit(s)
      PROVE  SlotsMatchStreams' /\ sem' \in 0 .. MaxStreams /\ call' \in [Streams -> {"none", "running", "over"}]
  <2>1. call[s] = "none" /\ handler' = handler
    BY <1>4 DEF Admit, vars, gatewayVars
  <2>2. CASE sem < MaxStreams /\ sem' = sem + 1 /\ call' = [call EXCEPT ![s] = "running"]
    <3>1. InCall' = InCall \cup {s} /\ s \notin InCall
      BY <2>1, <2>2 DEF InCall, ServerTypeOK
    <3>2. Cardinality(InCall') = Cardinality(InCall) + 1
      BY <1>1, <3>1, FS_AddElement
    <3>. QED  BY <1>1, <2>1, <2>2, <3>1, <3>2, ServerAssumption DEF SlotsMatchStreams, ServerTypeOK
  <2>3. CASE call' = [call EXCEPT ![s] = "over"] /\ UNCHANGED sem
    <3>1. InCall' = InCall
      BY <2>1, <2>3 DEF InCall, ServerTypeOK
    <3>. QED  BY <2>1, <2>3, <3>1 DEF SlotsMatchStreams, ServerTypeOK
  <2>. QED  BY <1>4, <2>2, <2>3 DEF Admit
<1>5. ASSUME NEW s \in Streams, StreamEnds(s)
      PROVE  SlotsMatchStreams' /\ sem' \in 0 .. MaxStreams /\ call' \in [Streams -> {"none", "running", "over"}]
  <2>1. /\ call[s] = "running" /\ call' = [call EXCEPT ![s] = "over"] /\ sem' = sem - 1
        /\ handler[s] \in {"idle", "done"} /\ handler' = handler
    BY <1>5 DEF StreamEnds, vars, gatewayVars
  <2>2. InCall' = InCall \ {s} /\ s \in InCall
    BY <2>1 DEF InCall, ServerTypeOK
  <2>3. Cardinality(InCall') = Cardinality(InCall) - 1 /\ Cardinality(InCall') \in Nat
    BY <1>1, <2>2, FS_RemoveElement, FS_CardinalityType
  <2>. QED  BY <1>1, <2>1, <2>2, <2>3, ServerAssumption DEF SlotsMatchStreams, ServerTypeOK
<1>6. ASSUME NEW p \in Tickers, NEW m \in Rooms, Launch(p, m) \/ \E S \in SUBSET Streams : Extract(p, m, S)
      PROVE  UNCHANGED <<limiterVars, handler>>
  BY <1>6, ExtractFacts, LaunchFacts
<1>7. ASSUME NEW m \in Rooms, CoordinatorReturns(m) PROVE UNCHANGED <<limiterVars, handler>>
  BY <1>7, ReturnFacts
<1>8. ASSUME \/ \E c \in Callers : ForceMatch(c) \/ \E m \in Rooms : LaunchPanics(c, m)
             \/ \E p \in Tickers : Count(p) \/ TickEnds(p)
             \/ WorkerTicks \/ WorkerStops
      PROVE  UNCHANGED <<limiterVars, handler>>
  BY <1>8, MoveFacts DEF Moves, vars, gatewayVars
<1>9. ASSUME ShutdownStep PROVE UNCHANGED <<limiterVars, handler>>
  BY <1>9, ShutdownFacts DEF vars, gatewayVars
<1>10. ASSUME Quiet PROVE UNCHANGED limiterVars /\ HandlersAdmitted
  BY <1>10 DEF Quiet, processVars
<1>. QED  BY <1>2, <1>3, <1>4, <1>5, <1>6, <1>7, <1>8, <1>9, <1>10, StepKinds

-------------------------------------------------------------------------------
(* Whose hand a room is in                                                   *)

Names == Worker \in Tickers /\ Worker \notin Callers /\ Callers \subseteq Tickers

LEMMA TickerNames == Names
  BY ServerAssumption DEF Names, Tickers

\* Without a room in hand a goroutine may go anywhere; with one it can only fail.
LEMMA HandStep ==
  ASSUME TypeOK, ServerTypeOK, HandInv, [ServerNext]_serverVars
  PROVE  HandInv'
<1>1. ASSUME SameRooms, UNCHANGED <<ticker, owner>> PROVE HandInv'
  BY <1>1, SameSets DEF HandInv
<1>2. ASSUME NEW p \in Tickers, NEW from, NEW to, Moves(p, from, to), from \notin {"notify", "failed"} \/ to = "failed",
             p = Worker => to # "failed"
      PROVE  HandInv'
  <2>1. phase' = phase /\ owner' = owner /\ ticker[p] = from /\ ticker' = [ticker EXCEPT ![p] = to]
    BY <1>2 DEF Moves, vars, roomVars
  <2>. QED  BY <1>2, <2>1, TickerNames DEF Names, HandInv, ServerTypeOK
<1>3. ASSUME NEW p \in Tickers, NEW m \in Rooms, NEW S \in SUBSET Streams, Extract(p, m, S) PROVE HandInv'
  <2>1. /\ ticker[p] = "scan" /\ ticker' = [ticker EXCEPT ![p] = "notify"]
        /\ phase' = [phase EXCEPT ![m] = "notifying"] /\ owner' = [owner EXCEPT ![m] = p]
    BY <1>3, ExtractFacts
  <2>2. \A n \in Rooms : phase[n] = "notifying" => owner[n] # p
    BY <2>1 DEF HandInv
  <2>3. ASSUME NEW n \in Rooms, phase'[n] = "notifying"
        PROVE  \/ n = m /\ owner'[n] = p
               \/ n # m /\ phase[n] = "notifying" /\ owner'[n] = owner[n] /\ owner[n] \in Tickers
    BY <2>1, <2>3 DEF TypeOK, ServerTypeOK
  <2>4. \A q \in Tickers : ticker'[q] = IF q = p THEN "notify" ELSE ticker[q]
    BY <2>1 DEF ServerTypeOK
  <2>. QED  BY <2>2, <2>3, <2>4, TickerNames DEF HandInv, Names
<1>4. ASSUME NEW p \in Tickers, NEW m \in Rooms, Launch(p, m) PROVE HandInv'
  <2>1. /\ ticker[p] = "notify" /\ ticker' = [ticker EXCEPT ![p] = "count"] /\ phase[m] = "notifying"
        /\ phase' = [phase EXCEPT ![m] = "gathering"] /\ owner[m] = p /\ owner' = owner
    BY <1>4, LaunchFacts
  <2>2. \A n \in Rooms : phase'[n] = "notifying" => phase[n] = "notifying" /\ n # m
    BY <2>1 DEF TypeOK
  <2>3. \A n \in Rooms : phase'[n] = "notifying" => owner[n] # p /\ owner[n] \in Tickers
    BY <2>1, <2>2 DEF HandInv, ServerTypeOK
  <2>4. \A q \in Tickers : ticker'[q] = IF q = p THEN "count" ELSE ticker[q]
    BY <2>1 DEF ServerTypeOK
  <2>. QED  BY <2>1, <2>2, <2>3, <2>4, TickerNames DEF HandInv, Names
<1>5. ASSUME NEW m \in Rooms, CoordinatorReturns(m) PROVE HandInv'
  <2>1. UNCHANGED tickVars /\ phase'[m] \in {"confirmed", "cancelled"} /\ \A n \in Rooms \ {m} : phase'[n] = phase[n]
    BY <1>5, ReturnFacts
  <2>. QED  BY <2>1 DEF HandInv, tickVars
<1>6. ASSUME \/ \E c \in Callers : ForceMatch(c) \/ \E m \in Rooms : LaunchPanics(c, m)
             \/ \E p \in Tickers : Count(p) \/ TickEnds(p)
             \/ WorkerTicks \/ WorkerStops
      PROVE  HandInv'
  BY <1>2, <1>6, MoveFacts, TickerNames DEF Names
<1>7. ASSUME NEW s \in Streams, Admit(s) \/ StreamEnds(s) PROVE SameRooms /\ UNCHANGED <<ticker, owner>>
  BY <1>7 DEF Admit, StreamEnds, vars, roomVars, tickVars, SameRooms
<1>8. ASSUME ShutdownStep PROVE SameRooms /\ UNCHANGED <<ticker, owner>>
  BY <1>8, ShutdownFacts DEF vars, roomVars, tickVars, SameRooms
<1>9. ASSUME Quiet PROVE SameRooms /\ UNCHANGED <<ticker, owner>>
  BY <1>9 DEF Quiet, processVars, tickVars
<1>. QED  BY <1>1, <1>3, <1>4, <1>5, <1>6, <1>7, <1>8, <1>9, StepKinds

-------------------------------------------------------------------------------
(* The WaitGroup                                                             *)

\* A worker that has returned starts nothing any more, and its rooms stay over.
LEMMA GoneForGood ==
  ASSUME TypeOK, ServerTypeOK, WorkerGone, [ServerNext]_serverVars
  PROVE  WorkerGone'
<1>1. ASSUME SameRooms, UNCHANGED <<ticker, owner>> PROVE WorkerGone'
  BY <1>1, SameSets DEF WorkerGone
<1>2. ASSUME NEW p \in Tickers, NEW from, NEW to, Moves(p, from, to), from # "returned" PROVE WorkerGone'
  <2>1. phase' = phase /\ owner' = owner /\ ticker[p] = from /\ ticker' = [ticker EXCEPT ![p] = to]
    BY <1>2 DEF Moves, vars, roomVars
  <2>. QED  BY <1>2, <2>1 DEF WorkerGone, ServerTypeOK, Over
<1>3. ASSUME NEW p \in Tickers, NEW m \in Rooms, NEW S \in SUBSET Streams, Extract(p, m, S) PROVE WorkerGone'
  <2>1. /\ ticker[p] = "scan" /\ ticker' = [ticker EXCEPT ![p] = "notify"]
        /\ phase' = [phase EXCEPT ![m] = "notifying"] /\ owner' = [owner EXCEPT ![m] = p]
    BY <1>3, ExtractFacts
  <2>2. p # Worker
    BY <2>1 DEF WorkerGone
  <2>3. \A n \in Rooms : owner'[n] = Worker => owner[n] = Worker /\ phase'[n] = phase[n]
    BY <2>1, <2>2 DEF ServerTypeOK, TypeOK
  <2>. QED  BY <2>1, <2>2, <2>3, TickerNames DEF WorkerGone, Over, ServerTypeOK, Names
<1>4. ASSUME NEW p \in Tickers, NEW m \in Rooms, Launch(p, m) PROVE WorkerGone'
  <2>1. /\ ticker[p] = "notify" /\ ticker' = [ticker EXCEPT ![p] = "count"] /\ owner[m] = p
        /\ phase' = [phase EXCEPT ![m] = "gathering"] /\ owner' = owner
    BY <1>4, LaunchFacts
  <2>2. p # Worker
    BY <2>1 DEF WorkerGone
  <2>. QED  BY <2>1, <2>2, TickerNames DEF WorkerGone, Over, ServerTypeOK, TypeOK, Names
<1>5. ASSUME NEW m \in Rooms, CoordinatorReturns(m) PROVE WorkerGone'
  <2>1. UNCHANGED tickVars /\ phase'[m] \in {"confirmed", "cancelled"} /\ \A n \in Rooms \ {m} : phase'[n] = phase[n]
    BY <1>5, ReturnFacts
  <2>. QED  BY <2>1 DEF WorkerGone, Over, tickVars
<1>6. ASSUME \/ \E c \in Callers : ForceMatch(c) \/ \E m \in Rooms : LaunchPanics(c, m)
             \/ \E p \in Tickers : Count(p) \/ TickEnds(p)
             \/ WorkerTicks \/ WorkerStops
      PROVE  WorkerGone'
  BY <1>2, <1>6, MoveFacts, TickerNames DEF Names
<1>7. ASSUME NEW s \in Streams, Admit(s) \/ StreamEnds(s) PROVE SameRooms /\ UNCHANGED <<ticker, owner>>
  BY <1>7 DEF Admit, StreamEnds, vars, roomVars, tickVars, SameRooms
<1>8. ASSUME ShutdownStep PROVE SameRooms /\ UNCHANGED <<ticker, owner>>
  BY <1>8, ShutdownFacts DEF vars, roomVars, tickVars, SameRooms
<1>9. ASSUME Quiet PROVE SameRooms /\ UNCHANGED <<ticker, owner>>
  BY <1>9 DEF Quiet, processVars, tickVars
<1>. QED  BY <1>1, <1>3, <1>4, <1>5, <1>6, <1>7, <1>8, <1>9, StepKinds

Counted == main \in {"serving", "stopping", "waiting"}

Workers == IF ticker[Worker] = "returned" THEN 0 ELSE 1

\* The counter counts the worker and the running coordinators, and the one that takes it
\* to zero leaves nobody running.
LEMMA WgStep ==
  ASSUME TypeOK, ServerTypeOK, HandInv, WgInv, [ServerNext]_serverVars
  PROVE  WgInv' /\ wg' \in Nat
<1>1. IsFiniteSet(Running) /\ Cardinality(Running) \in Nat /\ (Cardinality(Running) = 0 => Running = {})
  <2>1. IsFiniteSet(Running) /\ Cardinality(Running) \in Nat
    BY Finite DEF Running, Launched
  <2>. QED  BY <2>1, FS_EmptySet
<1>2. WorkerGone => WorkerGone'
  BY GoneForGood
<1>3. wg \in Nat /\ (Counted => wg = Cardinality(Running) + Workers)
  BY DEF WgInv, ServerTypeOK, Counted, Workers
<1>4. ASSUME Counted' => Counted /\ wg' = Cardinality(Running') + Workers',
             main' \in {"zeroed", "checked", "woken", "draining", "stopped"} =>
               main \in {"zeroed", "checked", "woken", "draining", "stopped"} \/ WorkerGone'
      PROVE  WgInv'
  BY <1>2, <1>4 DEF WgInv, Counted, Workers
<1>5. ASSUME UNCHANGED <<main, wg>>, Running' = Running, Workers' = Workers PROVE WgInv' /\ wg' \in Nat
  BY <1>3, <1>4, <1>5 DEF Counted
<1>6. ASSUME NEW p \in Tickers, NEW m \in Rooms, NEW S \in SUBSET Streams, Extract(p, m, S) PROVE WgInv' /\ wg' \in Nat
  <2>1. UNCHANGED <<main, wg>> /\ Running' = Running
    BY <1>6, ExtractFacts DEF stopVars
  <2>2. ticker[p] = "scan" /\ ticker' = [ticker EXCEPT ![p] = "notify"]
    BY <1>6, ExtractFacts
  <2>3. Workers' = Workers
    BY <2>2, TickerNames DEF Workers, ServerTypeOK, Names
  <2>. QED  BY <1>5, <2>1, <2>3
<1>7. ASSUME NEW p \in Tickers, NEW m \in Rooms, Launch(p, m) PROVE WgInv' /\ wg' \in Nat
  <2>1. /\ ticker[p] = "notify" /\ ticker' = [ticker EXCEPT ![p] = "count"] /\ main' = main /\ wg' = wg + 1
        /\ Running' = Running \cup {m} /\ m \notin Running
    BY <1>7, LaunchFacts
  <2>2. Cardinality(Running') = Cardinality(Running) + 1
    BY <1>1, <2>1, FS_AddElement
  <2>3. Workers' = Workers /\ Workers \in Nat
    BY <2>1, TickerNames DEF Workers, ServerTypeOK, Names
  <2>. QED  BY <1>1, <1>3, <1>4, <2>1, <2>2, <2>3 DEF Counted
<1>8. ASSUME Running' = {}, Workers' = 0 PROVE WorkerGone'
  <2>1. HandInv' /\ ticker'[Worker] = "returned"
    BY <1>8, HandStep DEF Workers
  <2>. QED  BY <1>8, <2>1 DEF HandInv, Running, Launched, WorkerGone
<1>9. ASSUME Done, IsFiniteSet(Running'), Cardinality(Running) + Workers = Cardinality(Running') + Workers' + 1
      PROVE  WgInv' /\ wg' \in Nat
  <2>1. Workers \in {0, 1} /\ Workers' \in {0, 1}
    BY DEF Workers
  <2>2. Cardinality(Running') \in Nat /\ (Cardinality(Running') = 0 => Running' = {})
    BY <1>9, FS_EmptySet, FS_CardinalityType
  <2>3. CASE wg = 0 /\ main' = "crashed" /\ UNCHANGED wg
    BY <1>3, <1>4, <2>3 DEF Counted
  <2>4. CASE wg = 1 /\ main = "waiting" /\ main' = "zeroed" /\ wg' = 0
    <3>1. Running' = {} /\ Workers' = 0
      BY <1>1, <1>3, <1>9, <2>1, <2>2, <2>4 DEF Counted
    <3>. QED  BY <1>4, <1>8, <2>4, <3>1 DEF Counted
  <2>5. CASE wg > 0 /\ wg' = wg - 1 /\ UNCHANGED main
    BY <1>1, <1>3, <1>4, <1>9, <2>1, <2>2, <2>5 DEF Counted
  <2>. QED  BY <1>9, <2>3, <2>4, <2>5 DEF Done
<1>10. ASSUME NEW m \in Rooms, CoordinatorReturns(m) PROVE WgInv' /\ wg' \in Nat
  <2>1. Done /\ Running' = Running \ {m} /\ m \in Running /\ UNCHANGED tickVars
    BY <1>10, ReturnFacts
  <2>2. Cardinality(Running') = Cardinality(Running) - 1 /\ IsFiniteSet(Running')
    BY <1>1, <2>1, FS_RemoveElement
  <2>3. Workers' = Workers /\ Workers \in {0, 1}
    BY <2>1 DEF Workers, tickVars
  <2>. QED  BY <1>1, <1>9, <2>1, <2>2, <2>3
<1>11. ASSUME NEW p \in Tickers, NEW from, NEW to, Moves(p, from, to), from # "returned", p = Worker => to # "returned"
       PROVE  Running' = Running /\ Workers' = Workers
  BY <1>11, TickerNames DEF Moves, Workers, Running, Launched, Over, ServerTypeOK, Names, vars, roomVars
<1>12. CASE WorkerStops
  <2>1. Moves(Worker, "idle", "returned") /\ Done
    BY <1>12, MoveFacts
  <2>2. Running' = Running
    BY <2>1 DEF Moves, Running, Launched, Over, vars, roomVars
  <2>3. Workers = 1 /\ Workers' = 0
    BY <2>1, TickerNames DEF Moves, Workers, ServerTypeOK, Names
  <2>. QED  BY <1>1, <1>9, <2>1, <2>2, <2>3
<1>13. ASSUME NEW c \in Callers, NEW m \in Rooms, LaunchPanics(c, m) PROVE WgInv' /\ wg' \in Nat
  <2>1. main \in {"zeroed", "checked"} /\ main' = main /\ wg' = wg + 1
    BY <1>13, MoveFacts
  <2>. QED  BY <1>3, <1>4, <2>1 DEF Counted
<1>14. ASSUME \/ \E c \in Callers : ForceMatch(c)
              \/ \E p \in Tickers : Count(p) \/ TickEnds(p)
              \/ WorkerTicks
       PROVE  WgInv' /\ wg' \in Nat
  <2>1. UNCHANGED <<main, wg>>
    BY <1>14, MoveFacts DEF stopVars
  <2>2. Running' = Running /\ Workers' = Workers
    BY <1>11, <1>14, MoveFacts, TickerNames DEF Names
  <2>. QED  BY <1>5, <2>1, <2>2
<1>15. ASSUME SameRooms, UNCHANGED <<ticker, owner>> PROVE Running' = Running /\ Workers' = Workers
  BY <1>15, SameSets DEF Workers
<1>16. ASSUME NEW s \in Streams, Admit(s) \/ StreamEnds(s) PROVE SameRooms /\ UNCHANGED <<ticker, owner, main, wg>>
  BY <1>16 DEF Admit, StreamEnds, vars, roomVars, tickVars, stopVars, SameRooms
<1>17. CASE ShutdownStep
  <2>1. SameRooms /\ UNCHANGED <<ticker, owner>>
    BY <1>17, ShutdownFacts DEF vars, roomVars, tickVars, SameRooms
  <2>2. Running' = Running /\ Workers' = Workers /\ Workers \in {0, 1}
    BY <1>15, <2>1 DEF Workers
  <2>3. wg' \in Nat
    BY <1>3, <1>17, ShutdownFacts
  <2>4. ASSUME Counted, wg = 0 PROVE WorkerGone'
    BY <1>1, <1>3, <1>8, <2>2, <2>4
  <2>5. Counted' => Counted /\ wg' = wg
    BY <1>17, ShutdownFacts DEF Counted
  <2>6. main' \in {"zeroed", "checked", "woken", "draining", "stopped"} =>
          main \in {"zeroed", "checked", "woken", "draining", "stopped"} \/ (Counted /\ wg = 0)
    BY <1>17, ShutdownFacts DEF Counted
  <2>. QED  BY <1>3, <1>4, <2>2, <2>3, <2>4, <2>5, <2>6
<1>18. ASSUME Quiet PROVE SameRooms /\ UNCHANGED <<ticker, owner, main, wg>>
  BY <1>18 DEF Quiet, processVars, tickVars, stopVars
<1>. QED
  BY <1>5, <1>6, <1>7, <1>10, <1>12, <1>13, <1>14, <1>15, <1>16, <1>17, <1>18, StepKinds

-------------------------------------------------------------------------------
(* The counter of matches                                                    *)

Untouched(c) == \A m \in Rooms : owner[m] = c => phase[m] = "free"

\* What CountInv says of one call.
CallerInv(c) ==
  /\ ticker[c] = "idle" => Untouched(c)
  /\ before[c] <= matchesCreated
  /\ ticker[c] \in {"scan", "notify", "count"} =>
       before[c] + Cardinality(LaunchedBy(c)) <= matchesCreated + (IF ticker[c] = "count" THEN 1 ELSE 0)
  /\ ticker[c] = "returned" => report[c] >= Cardinality(LaunchedBy(c))

LEMMA CountInvParts ==
  ASSUME Names
  PROVE  CountInv <=> /\ matchesCreated + Cardinality(Counting) = Cardinality(Launched)
                      /\ \A c \in Callers : CallerInv(c)
  BY DEF CountInv, CallerInv, Untouched, Counting, Names

\* Each coordinator is counted once, by the goroutine that started it.
LEMMA CountStep ==
  ASSUME TypeOK, ServerTypeOK, CountInv, [ServerNext]_serverVars
  PROVE  CountInv'
<1>1. /\ \A p \in Tickers : IsFiniteSet(LaunchedBy(p)) /\ Cardinality(LaunchedBy(p)) \in Nat
      /\ IsFiniteSet(Counting) /\ Cardinality(Counting) \in Nat
      /\ IsFiniteSet(Launched) /\ Cardinality(Launched) \in Nat
  <2>1. Counting \subseteq Tickers /\ Launched \subseteq Rooms /\ \A p : LaunchedBy(p) \subseteq Rooms
    BY DEF Counting, Launched, LaunchedBy
  <2>. QED  BY <2>1, Finite
<1>2. Names
  BY TickerNames
<1>3. /\ matchesCreated + Cardinality(Counting) = Cardinality(Launched)
      /\ \A c \in Callers : CallerInv(c)
  BY <1>2, CountInvParts
<1>4. ASSUME matchesCreated' + Cardinality(Counting') = Cardinality(Launched'),
             \A c \in Callers : CallerInv(c)'
      PROVE  CountInv'
  BY <1>2, <1>4 DEF CountInv, CallerInv, Untouched, Counting, Names
<1>5. /\ matchesCreated \in Nat /\ \A c \in Callers : c \in Tickers /\ before[c] \in Nat /\ report[c] \in Nat
  BY <1>2 DEF Names, ServerTypeOK
<1>6. ASSUME NEW c \in Callers, ticker'[c] \in {ticker[c], "failed"}, LaunchedBy(c)' = LaunchedBy(c),
             before'[c] = before[c], report'[c] = report[c], matchesCreated' \in {matchesCreated, matchesCreated + 1},
             Untouched(c) => Untouched(c)'
      PROVE  CallerInv(c)'
  <2>1. CallerInv(c) /\ Cardinality(LaunchedBy(c)) \in Nat
    BY <1>1, <1>3, <1>5
  <2>. HIDE DEF LaunchedBy, Untouched
  <2>. QED  BY <1>5, <1>6, <2>1 DEF CallerInv
<1>7. ASSUME NEW p \in Tickers, NEW to, ticker' = [ticker EXCEPT ![p] = to]
      PROVE  /\ ticker'[p] = to /\ \A q \in Tickers \ {p} : ticker'[q] = ticker[q]
             /\ to = "count" => Counting' = Counting \cup {p}
             /\ to # "count" => Counting' = Counting \ {p}
  BY <1>7 DEF Counting, ServerTypeOK
<1>8. ASSUME SameRooms, UNCHANGED <<ticker, owner, countVars>> PROVE CountInv'
  <2>1. /\ Launched' = Launched /\ Counting' = Counting /\ \A c : LaunchedBy(c)' = LaunchedBy(c)
        /\ \A c \in Callers : Untouched(c) => Untouched(c)'
    BY <1>8, SameSets DEF Counting, Untouched
  <2>. QED  BY <1>3, <1>4, <1>6, <1>8, <2>1 DEF countVars
<1>9. ASSUME NEW p \in Tickers, NEW m \in Rooms, NEW S \in SUBSET Streams, Extract(p, m, S) PROVE CountInv'
  <2>1. /\ ticker[p] = "scan" /\ ticker' = [ticker EXCEPT ![p] = "notify"]
        /\ phase' = [phase EXCEPT ![m] = "notifying"] /\ owner' = [owner EXCEPT ![m] = p]
        /\ UNCHANGED countVars /\ Launched' = Launched /\ \A q : LaunchedBy(q)' = LaunchedBy(q)
    BY <1>9, ExtractFacts
  <2>2. Counting' = Counting
    BY <1>7, <2>1 DEF Counting
  <2>3. ASSUME NEW c \in Callers, c # p PROVE CallerInv(c)'
    <3>1. Untouched(c) => Untouched(c)'
      BY <2>1, <2>3 DEF Untouched, TypeOK, ServerTypeOK
    <3>2. ticker'[c] = ticker[c]
      BY <1>5, <1>7, <2>1, <2>3
    <3>. QED  BY <1>6, <2>1, <3>1, <3>2 DEF countVars
  <2>4. ASSUME p \in Callers PROVE CallerInv(p)'
    <3>1. ticker'[p] = "notify" /\ CallerInv(p) /\ ticker[p] = "scan" /\ UNCHANGED countVars /\ LaunchedBy(p)' = LaunchedBy(p)
      BY <1>3, <1>7, <2>1, <2>4
    <3>. QED  BY <3>1 DEF CallerInv, countVars
  <2>. QED  BY <1>3, <1>4, <2>1, <2>2, <2>3, <2>4 DEF countVars
<1>10. ASSUME NEW p \in Tickers, NEW m \in Rooms, Launch(p, m) PROVE CountInv'
  <2>1. /\ ticker[p] = "notify" /\ ticker' = [ticker EXCEPT ![p] = "count"] /\ owner[m] = p
        /\ phase' = [phase EXCEPT ![m] = "gathering"] /\ owner' = owner /\ UNCHANGED countVars
        /\ Launched' = Launched \cup {m} /\ m \notin Launched
        /\ LaunchedBy(p)' = LaunchedBy(p) \cup {m} /\ m \notin LaunchedBy(p)
        /\ \A q : q # p => LaunchedBy(q)' = LaunchedBy(q)
    BY <1>10, LaunchFacts
  <2>2. Counting' = Counting \cup {p} /\ p \notin Counting
    BY <1>7, <2>1 DEF Counting
  <2>3. /\ Cardinality(Counting') = Cardinality(Counting) + 1
        /\ Cardinality(Launched') = Cardinality(Launched) + 1
        /\ Cardinality(LaunchedBy(p)') = Cardinality(LaunchedBy(p)) + 1
    <3>1. Cardinality(Counting') = Cardinality(Counting) + 1
      BY <1>1, <2>2, FS_AddElement
    <3>2. Cardinality(Launched') = Cardinality(Launched) + 1
      BY <1>1, <2>1, FS_AddElement
    <3>3. Cardinality(LaunchedBy(p)') = Cardinality(LaunchedBy(p)) + 1
      <4>1. LaunchedBy(p)' = LaunchedBy(p) \cup {m} /\ m \notin LaunchedBy(p) /\ IsFiniteSet(LaunchedBy(p))
        BY <1>1, <2>1
      <4>. QED  BY ONLY <4>1, FS_AddElement
    <3>. QED  BY <3>1, <3>2, <3>3
  <2>4. ASSUME NEW c \in Callers, c # p PROVE CallerInv(c)'
    <3>1. Untouched(c) => Untouched(c)'
      BY <2>1, <2>4 DEF Untouched, TypeOK
    <3>2. ticker'[c] = ticker[c]
      BY <1>5, <1>7, <2>1, <2>4
    <3>. QED  BY <1>6, <2>1, <2>4, <3>1, <3>2 DEF countVars
  <2>5. ASSUME p \in Callers PROVE CallerInv(p)'
    <3>1. /\ ticker'[p] = "count" /\ CallerInv(p) /\ ticker[p] = "notify" /\ UNCHANGED countVars
          /\ Cardinality(LaunchedBy(p)') = Cardinality(LaunchedBy(p)) + 1 /\ Cardinality(LaunchedBy(p)) \in Nat
      BY <1>1, <1>3, <1>7, <2>1, <2>3, <2>5
    <3>2. before[p] \in Nat /\ matchesCreated \in Nat
      BY <1>5, <2>5
    <3>. HIDE DEF LaunchedBy
    <3>. QED  BY <3>1, <3>2 DEF CallerInv, countVars
  <2>. QED  BY <1>1, <1>3, <1>4, <1>5, <2>1, <2>3, <2>4, <2>5 DEF countVars
<1>11. ASSUME NEW m \in Rooms, CoordinatorReturns(m) PROVE CountInv'
  <2>1. /\ UNCHANGED <<ticker, owner, countVars>> /\ phase[m] \in Busy
        /\ \A n \in Rooms \ {m} : phase'[n] = phase[n]
        /\ Launched' = Launched /\ \A q : LaunchedBy(q)' = LaunchedBy(q)
    BY <1>11, ReturnFacts DEF tickVars
  <2>2. Counting' = Counting /\ \A c \in Callers : Untouched(c) => Untouched(c)'
    BY <2>1 DEF Counting, Untouched, Busy
  <2>. QED  BY <1>3, <1>4, <1>6, <2>1, <2>2 DEF countVars
<1>12. ASSUME NEW p, NEW from, NEW to, Moves(p, from, to), p \in Tickers
       PROVE  /\ ticker[p] = from /\ ticker'[p] = to /\ \A q \in Tickers \ {p} : ticker'[q] = ticker[q]
              /\ Launched' = Launched
              /\ \A q : LaunchedBy(q)' = LaunchedBy(q) /\ (Untouched(q)' <=> Untouched(q))
              /\ to # "count" => Counting' = Counting \ {p}
  <2>1. ticker[p] = from /\ ticker' = [ticker EXCEPT ![p] = to] /\ UNCHANGED <<phase, owner>>
    BY <1>12 DEF Moves, vars, roomVars
  <2>. QED  BY <1>7, <1>12, <2>1 DEF Launched, LaunchedBy, Untouched
<1>13. ASSUME NEW p \in Tickers, Count(p) PROVE CountInv'
  <2>1. /\ Moves(p, "count", "scan") /\ matchesCreated' = matchesCreated + 1 /\ UNCHANGED <<before, report>>
    BY <1>13, MoveFacts
  <2>2. /\ ticker[p] = "count" /\ ticker'[p] = "scan" /\ \A q \in Tickers \ {p} : ticker'[q] = ticker[q]
        /\ Launched' = Launched /\ Counting' = Counting \ {p} /\ p \in Counting
        /\ \A q : LaunchedBy(q)' = LaunchedBy(q) /\ (Untouched(q)' <=> Untouched(q))
    BY <1>12, <2>1 DEF Counting
  <2>3. Cardinality(Counting') = Cardinality(Counting) - 1
    BY <1>1, <2>2, FS_RemoveElement
  <2>4. ASSUME NEW c \in Callers, c # p PROVE CallerInv(c)'
    BY <1>5, <1>6, <2>1, <2>2, <2>4
  <2>5. ASSUME p \in Callers PROVE CallerInv(p)'
    <3>1. CallerInv(p) /\ before[p] \in Nat /\ Cardinality(LaunchedBy(p)) \in Nat /\ LaunchedBy(p)' = LaunchedBy(p)
      BY <1>1, <1>3, <1>5, <2>2, <2>5
    <3>. HIDE DEF LaunchedBy
    <3>. QED  BY <1>5, <2>1, <2>2, <3>1 DEF CallerInv
  <2>6. matchesCreated' + Cardinality(Counting') = Cardinality(Launched')
    BY <1>1, <1>3, <1>5, <2>1, <2>2, <2>3
  <2>. QED  BY <1>4, <2>4, <2>5, <2>6
<1>14. ASSUME NEW p \in Tickers, NEW from, NEW to, Moves(p, from, to), from # "count", to # "count",
              UNCHANGED matchesCreated, \A c \in Callers \ {p} : before'[c] = before[c] /\ report'[c] = report[c],
              p \in Callers => CallerInv(p)'
       PROVE  CountInv'
  <2>1. /\ \A q \in Tickers \ {p} : ticker'[q] = ticker[q]
        /\ Launched' = Launched /\ Counting' = Counting
        /\ \A q : LaunchedBy(q)' = LaunchedBy(q) /\ (Untouched(q)' <=> Untouched(q))
    BY <1>12, <1>14 DEF Counting
  <2>2. ASSUME NEW c \in Callers, c # p PROVE CallerInv(c)'
    BY <1>5, <1>6, <1>14, <2>1, <2>2
  <2>. QED  BY <1>3, <1>4, <1>14, <2>1, <2>2
<1>15. ASSUME NEW p \in Tickers, TickEnds(p) PROVE CountInv'
  <2>1. UNCHANGED <<matchesCreated, before>>
    BY <1>15, MoveFacts
  <2>2. CASE p = Worker /\ Moves(p, "scan", "idle") /\ UNCHANGED report
    BY <1>2, <1>14, <2>1, <2>2 DEF Names
  <2>3. CASE p \in Callers /\ Moves(p, "scan", "returned") /\ report' = [report EXCEPT ![p] = matchesCreated - before[p]]
    <3>1. ticker[p] = "scan" /\ ticker'[p] = "returned" /\ LaunchedBy(p)' = LaunchedBy(p)
      BY <1>12, <2>3
    <3>2. report'[p] = matchesCreated - before[p] /\ \A c \in Callers \ {p} : report'[c] = report[c]
      BY <2>3 DEF ServerTypeOK
    <3>3. CallerInv(p) /\ before[p] \in Nat /\ Cardinality(LaunchedBy(p)) \in Nat
      BY <1>1, <1>3, <1>5, <2>3
    <3>4. CallerInv(p)'
      <4>. HIDE DEF LaunchedBy
      <4>. QED  BY <1>5, <2>1, <3>1, <3>2, <3>3 DEF CallerInv
    <3>. QED  BY <1>14, <2>1, <2>3, <3>2, <3>4
  <2>. QED  BY <1>15, <2>2, <2>3, MoveFacts
<1>16. ASSUME NEW c \in Callers, ForceMatch(c) PROVE CountInv'
  <2>1. /\ Moves(c, "idle", "scan") /\ before' = [before EXCEPT ![c] = matchesCreated]
        /\ UNCHANGED <<matchesCreated, report>> /\ c \in Tickers
    BY <1>5, <1>16, MoveFacts
  <2>2. before'[c] = matchesCreated /\ \A d \in Callers \ {c} : before'[d] = before[d]
    BY <2>1 DEF ServerTypeOK
  <2>3. ticker[c] = "idle" /\ ticker'[c] = "scan" /\ LaunchedBy(c)' = LaunchedBy(c)
    BY <1>12, <2>1
  <2>4. LaunchedBy(c) = {}
    BY <1>3, <2>3 DEF CallerInv, Untouched, LaunchedBy, Launched
  <2>5. Cardinality(LaunchedBy(c)') = 0
    BY <2>3, <2>4, FS_EmptySet
  <2>6. CallerInv(c)'
    <3>. HIDE DEF LaunchedBy
    <3>. QED  BY <1>5, <2>1, <2>2, <2>3, <2>5 DEF CallerInv
  <2>. QED  BY <1>14, <2>1, <2>2, <2>6
<1>17. ASSUME NEW c \in Callers, NEW m \in Rooms, LaunchPanics(c, m) PROVE CountInv'
  <2>1. Moves(c, "notify", "failed") /\ UNCHANGED countVars /\ c \in Tickers
    BY <1>5, <1>17, MoveFacts
  <2>2. ticker'[c] = "failed" /\ LaunchedBy(c)' = LaunchedBy(c) /\ (Untouched(c)' <=> Untouched(c))
    BY <1>12, <2>1
  <2>3. CallerInv(c)'
    BY <1>6, <2>1, <2>2 DEF countVars
  <2>. QED  BY <1>14, <2>1, <2>3 DEF countVars
<1>18. CASE WorkerTicks \/ WorkerStops
  BY <1>2, <1>14, <1>18, MoveFacts DEF Names, countVars
<1>19. ASSUME NEW s \in Streams, Admit(s) \/ StreamEnds(s) PROVE SameRooms /\ UNCHANGED <<ticker, owner, countVars>>
  BY <1>19 DEF Admit, StreamEnds, vars, roomVars, tickVars, SameRooms
<1>20. ASSUME ShutdownStep PROVE SameRooms /\ UNCHANGED <<ticker, owner, countVars>>
  BY <1>20, ShutdownFacts DEF vars, roomVars, tickVars, SameRooms
<1>21. ASSUME Quiet PROVE SameRooms /\ UNCHANGED <<ticker, owner, countVars>>
  BY <1>21 DEF Quiet, processVars, tickVars
<1>. QED
  BY <1>8, <1>9, <1>10, <1>11, <1>13, <1>15, <1>16, <1>17, <1>18, <1>19, <1>20, <1>21, StepKinds

-------------------------------------------------------------------------------
(* Types                                                                     *)

\* The counters stay in their ranges: sem and wg are never taken below zero, and the
\* reply of ForceMatch is no negative number.
LEMMA ServerTypeStep ==
  ASSUME TypeOK, ServerInv, [ServerNext]_serverVars
  PROVE  ServerTypeOK'
<1> USE DEF ServerInv
<1>1. sem' \in 0 .. MaxStreams /\ call' \in [Streams -> {"none", "running", "over"}] /\ wg' \in Nat
  BY SlotsStep, WgStep
<1>2. Names
  BY TickerNames
<1>3. ASSUME main' \in {main, "stopping", "waiting", "zeroed", "checked", "woken", "draining", "stopped", "crashed"},
             ticker' \in [Tickers -> {"idle", "scan", "notify", "count", "returned", "failed"}],
             owner' \in [Rooms -> Tickers], matchesCreated' \in Nat, before' \in [Callers -> Nat],
             report' \in [Callers -> Nat]
      PROVE  ServerTypeOK'
  BY <1>1, <1>3 DEF ServerTypeOK
<1>4. ASSUME main' \in {main, "stopping", "waiting", "zeroed", "checked", "woken", "draining", "stopped", "crashed"},
             UNCHANGED <<tickVars, countVars>>
      PROVE  ServerTypeOK'
  BY <1>3, <1>4 DEF tickVars, countVars, ServerTypeOK
<1>5. ASSUME NEW p \in Tickers, NEW from,
             NEW to \in {"idle", "scan", "notify", "count", "returned", "failed"}, Moves(p, from, to)
      PROVE  /\ ticker' \in [Tickers -> {"idle", "scan", "notify", "count", "returned", "failed"}]
             /\ owner' \in [Rooms -> Tickers]
  BY <1>5 DEF Moves, ServerTypeOK
<1>6. Done => main' \in {main, "zeroed", "crashed"}
  BY DEF Done
<1>7. ASSUME NEW p \in Tickers, NEW m \in Rooms, Launch(p, m) \/ \E S \in SUBSET Streams : Extract(p, m, S)
      PROVE  ServerTypeOK'
  <2>1. /\ UNCHANGED <<main, countVars>> /\ (owner' = owner \/ owner' = [owner EXCEPT ![m] = p])
        /\ \E to \in {"notify", "count"} : ticker' = [ticker EXCEPT ![p] = to]
    BY <1>7, ExtractFacts, LaunchFacts DEF stopVars, ServerTypeOK
  <2>. QED  BY <1>3, <2>1 DEF ServerTypeOK, countVars
<1>8. ASSUME NEW m \in Rooms, CoordinatorReturns(m) PROVE ServerTypeOK'
  BY <1>4, <1>6, <1>8, ReturnFacts
<1>9. CASE WorkerTicks \/ WorkerStops
  <2>1. /\ UNCHANGED countVars /\ main' \in {main, "zeroed", "crashed"}
        /\ \E to \in {"scan", "returned"} : Moves(Worker, "idle", to)
    BY <1>6, <1>9, MoveFacts DEF stopVars
  <2>. QED  BY <1>2, <1>3, <1>5, <2>1 DEF Names, ServerTypeOK, countVars
<1>10. ASSUME NEW c \in Callers, ForceMatch(c) PROVE ServerTypeOK'
  <2>1. /\ Moves(c, "idle", "scan") /\ before' = [before EXCEPT ![c] = matchesCreated] /\ c \in Tickers
        /\ UNCHANGED <<main, matchesCreated, report>>
    BY <1>2, <1>10, MoveFacts DEF stopVars, Names
  <2>. QED  BY <1>3, <1>5, <2>1 DEF ServerTypeOK
<1>11. ASSUME NEW c \in Callers, NEW m \in Rooms, LaunchPanics(c, m) PROVE ServerTypeOK'
  <2>1. Moves(c, "notify", "failed") /\ UNCHANGED <<main, countVars>> /\ c \in Tickers
    BY <1>2, <1>11, MoveFacts DEF Names
  <2>. QED  BY <1>3, <1>5, <2>1 DEF ServerTypeOK, countVars
<1>12. ASSUME NEW p \in Tickers, Count(p) PROVE ServerTypeOK'
  <2>1. Moves(p, "count", "scan") /\ matchesCreated' = matchesCreated + 1 /\ UNCHANGED <<main, before, report>>
    BY <1>12, MoveFacts DEF stopVars
  <2>. QED  BY <1>3, <1>5, <2>1 DEF ServerTypeOK
<1>13. ASSUME NEW p \in Tickers, TickEnds(p) PROVE ServerTypeOK'
  <2>1. /\ UNCHANGED <<main, matchesCreated, before>>
        /\ \E to \in {"idle", "returned"} : Moves(p, "scan", to)
        /\ report' = report \/ (p \in Callers /\ report' = [report EXCEPT ![p] = matchesCreated - before[p]])
    BY <1>13, MoveFacts DEF stopVars
  <2>2. p \in Callers => matchesCreated - before[p] \in Nat
    BY DEF CountInv, ServerTypeOK
  <2>3. report' \in [Callers -> Nat]
    BY <2>1, <2>2 DEF ServerTypeOK
  <2>. QED  BY <1>3, <1>5, <2>1, <2>3 DEF ServerTypeOK
<1>14. ASSUME NEW s \in Streams, Admit(s) \/ StreamEnds(s) PROVE UNCHANGED <<main, tickVars, countVars>>
  BY <1>14 DEF Admit, StreamEnds, stopVars
<1>15. CASE ShutdownStep
  BY <1>4, <1>15, ShutdownFacts
<1>16. ASSUME Quiet PROVE UNCHANGED <<main, tickVars, countVars>>
  BY <1>16 DEF Quiet, processVars, stopVars
<1>. QED
  BY <1>4, <1>7, <1>8, <1>9, <1>10, <1>11, <1>12, <1>13, <1>14, <1>15, <1>16, StepKinds

\* The server starts with nothing but its worker.
LEMMA ServerInvInit == ServerInit => ServerInv
<1> SUFFICES ASSUME ServerInit PROVE ServerInv
  OBVIOUS
<1>1. phase = [m \in Rooms |-> "free"] /\ handler = [s \in Streams |-> "idle"]
  BY DEF ServerInit, Init
<1>2. InCall = {} /\ Launched = {} /\ Running = {} /\ Counting = {} /\ \A p : LaunchedBy(p) = {}
  BY <1>1 DEF ServerInit, InCall, Launched, Running, Counting, LaunchedBy
<1>3. Cardinality({}) = 0
  BY FS_EmptySet
<1>4. Names
  BY TickerNames
<1>5. ServerTypeOK
  <2>1. 0 \in 0 .. MaxStreams
    BY ServerAssumption
  <2>. QED  BY <1>4, <2>1 DEF ServerInit, ServerTypeOK, Names
<1>6. SlotsMatchStreams /\ WgInv /\ HandInv
  BY <1>1, <1>2, <1>3, <1>4 DEF ServerInit, SlotsMatchStreams, WgInv, HandInv, Names
<1>7. CountInv
  BY <1>1, <1>2, <1>3, <1>4 DEF ServerInit, CountInv, Names
<1>. QED  BY <1>5, <1>6, <1>7 DEF ServerInv

-------------------------------------------------------------------------------
(* The theorems                                                              *)

\* The invariant of slots, WaitGroup, rooms in hand and counters holds in every state.
THEOREM ServerInvariance == ServerSpec => []ServerInv
<1>1. ASSUME TypeOK, ServerInv, [ServerNext]_serverVars PROVE ServerInv'
  BY <1>1, ServerTypeStep, SlotsStep, HandStep, WgStep, CountStep DEF ServerInv
<1>2. ServerSpec => []TypeOK
  BY ServerRunsTheCore, TypeCorrect, PTL
<1>. QED  BY ServerInvInit, <1>1, <1>2, PTL DEF ServerSpec

\* The limiter never leaks a slot nor frees one twice, for any limit and any traffic.
THEOREM SlotsAreNotLeaked == ServerSpec => []SlotsMatchStreams
<1>1. ServerInv => SlotsMatchStreams
  BY DEF ServerInv
<1>. QED  BY <1>1, ServerInvariance, PTL

\* StopWorker returns only after the worker and every coordinator it started, whatever
\* ForceMatch does to the WaitGroup meanwhile.
THEOREM WorkerIsWaitedFor == ServerSpec => []StopWaitsForWorker
<1>1. ServerInv => StopWaitsForWorker
  BY DEF ServerInv, WgInv, StopWaitsForWorker
<1>. QED  BY <1>1, ServerInvariance, PTL

\* ForceMatch's reply covers the rooms it started, and counterMu loses no update.
THEOREM CounterIsExact == ServerSpec => []NeverUndercounts
<1>1. ASSUME ServerInv PROVE NeverUndercounts
  <2>1. ASSUME \A p \in Tickers : ticker[p] # "count" PROVE matchesCreated = Cardinality(Launched)
    <3>1. Counting = {}
      BY <2>1 DEF Counting
    <3>2. Cardinality(Counting) = 0
      BY <3>1, FS_EmptySet
    <3>. QED  BY <1>1, <3>2 DEF ServerInv, CountInv, ServerTypeOK
  <2>. QED  BY <1>1, <2>1 DEF ServerInv, CountInv, NeverUndercounts
<1>. QED  BY <1>1, ServerInvariance, PTL

===============================================================================
