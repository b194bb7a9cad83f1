-------------------------------- MODULE Server --------------------------------
(***************************************************************************)
(* The server process around the matchmaking core: main's shutdown         *)
(* goroutine (cmd/server/main.go), the background worker, ForceMatch and   *)
(* the WaitGroup (internal/services/matchmaker.go) and the stream limiter  *)
(* (internal/interceptor/interceptor.go).  Tickets, handlers, rooms and    *)
(* coordinators are those of Matchmaking: this module says which goroutine *)
(* takes a step of theirs, what it does to the process, and that a process *)
(* that has stopped or crashed takes none.                                 *)
(*                                                                         *)
(* sync.WaitGroup (go 1.24) is code outside src/: Add panics when it finds *)
(* a waiter and takes the counter from zero; a Done that reaches zero      *)
(* beside a waiter reads the state again, and panics if it has moved,      *)
(* before it resets it and wakes the waiter.                               *)
(***************************************************************************)
EXTENDS Matchmaking

CONSTANTS
  Callers,     \* ForceMatch calls; bounds their number
  Worker,      \* the background goroutine
  MaxStreams   \* maxStreams

Tickers == {Worker} \cup Callers

ASSUME ServerAssumption ==
  /\ Worker \notin Callers
  /\ MaxStreams \in Nat \ {0}
  /\ IsFiniteSet(Streams) /\ IsFiniteSet(Rooms) /\ IsFiniteSet(Callers)

VARIABLES
  main,            \* the shutdown goroutine: serving; stopping (stopCh is closed);
                   \* waiting, zeroed, checked (asleep in wg.Wait: the counter is
                   \* positive, a Done has taken it to zero, has checked it);
                   \* woken; draining (in GracefulStop); stopped, crashed (the process)
  wg,              \* the counter of the WaitGroup
  ticker,          \* control state of the worker and of each ForceMatch call
  owner,           \* whose tick extracted each room
  call,            \* the limiter's view of each stream: none, running, over
  sem,             \* length of the limiter's channel
  matchesCreated,  \* the counter behind counterMu
  before,          \* countBefore of each ForceMatch call
  report           \* MatchesCreated in each ForceMatch reply

stopVars == <<main, wg>>
tickVars == <<ticker, owner>>
limiterVars == <<call, sem>>
countVars == <<matchesCreated, before, report>>
processVars == <<stopVars, tickVars, limiterVars, countVars>>
serverVars == <<vars, processVars>>

ServerInit ==
  /\ Init
  /\ main = "serving"
  /\ wg = 1
  /\ ticker = [p \in Tickers |-> "idle"]
  /\ owner = [m \in Rooms |-> Worker]
  /\ call = [s \in Streams |-> "none"]
  /\ sem = 0
  /\ matchesCreated = 0
  /\ before = [c \in Callers |-> 0]
  /\ report = [c \in Callers |-> 0]

Alive == main \notin {"stopped", "crashed"}

\* A step of the core that the process around it does not see.
Unseen(step) == Alive /\ step /\ UNCHANGED processVars

-------------------------------------------------------------------------------
(* Streams: MaxConcurrentStreams around EnterMatchmaking                     *)

\* A new stream takes a slot or is refused.  GracefulStop turns new calls away, but not
\* those that were on their way when it began.
Admit(s) ==
  /\ Alive /\ call[s] = "none"
  /\ \/ /\ sem < MaxStreams
        /\ sem' = sem + 1
        /\ call' = [call EXCEPT ![s] = "running"]
     \/ /\ sem = MaxStreams
        /\ call' = [call EXCEPT ![s] = "over"]
        /\ UNCHANGED sem
  /\ UNCHANGED <<vars, stopVars, tickVars, countVars>>

JoinAdmitted(s) == call[s] = "running" /\ Unseen(Join(s))

\* Seeded fault: the interceptor returns without its deferred receive when the handler
\* never got as far as Enqueue.
StreamEndsKeepingSlot(s) ==
  /\ Alive /\ call[s] = "running"
  /\ handler[s] \in {"idle", "done"}
  /\ call' = [call EXCEPT ![s] = "over"]
  /\ sem' = IF handler[s] = "idle" THEN sem ELSE sem - 1
  /\ UNCHANGED <<vars, stopVars, tickVars, countVars>>

\* The handler has returned, after its own deferred Dequeue or without having joined, and
\* the deferred receive gives up the slot.
StreamEnds(s) ==
  /\ Alive /\ call[s] = "running"
  /\ handler[s] \in {"idle", "done"}
  /\ call' = [call EXCEPT ![s] = "over"]
  /\ sem' = sem - 1
  /\ UNCHANGED <<vars, stopVars, tickVars, countVars>>

-------------------------------------------------------------------------------
(* tick, in the worker or in a ForceMatch call                               *)

Goto(p, where) == ticker' = [ticker EXCEPT ![p] = where]

WorkerTicks ==
  /\ Alive /\ ticker[Worker] = "idle"
  /\ Goto(Worker, "scan")
  /\ UNCHANGED <<vars, stopVars, owner, limiterVars, countVars>>

ForceMatch(c) ==
  /\ Alive /\ ticker[c] = "idle"
  /\ Goto(c, "scan")
  /\ before' = [before EXCEPT ![c] = matchesCreated]
  /\ UNCHANGED <<vars, stopVars, owner, limiterVars, matchesCreated, report>>

Extract(p, m, S) ==
  /\ Alive /\ ticker[p] = "scan"
  /\ ExtractMatch(m, S)
  /\ owner' = [owner EXCEPT ![m] = p]
  /\ Goto(p, "notify")
  /\ UNCHANGED <<stopVars, limiterVars, countVars>>

\* The room that p has in hand.
InHand(p, m) == ticker[p] = "notify" /\ owner[m] = p /\ phase[m] = "notifying"

NotifyMember(p, m, s) == InHand(p, m) /\ Unseen(Notify(m, s))

\* wg.Add would take the counter from zero beside a waiter.
Misused == main \in {"zeroed", "checked"} /\ wg = 0

\* Seeded fault: the coordinator is started without wg.Add.
LaunchUntracked(p, m) ==
  /\ Alive /\ InHand(p, m) /\ ~Misused
  /\ StartCoordinator(m)
  /\ Goto(p, "count")
  /\ UNCHANGED <<stopVars, owner, limiterVars, countVars>>

\* wg.Add comes before the go statement.
Launch(p, m) ==
  /\ Alive /\ InHand(p, m) /\ ~Misused
  /\ StartCoordinator(m)
  /\ wg' = wg + 1
  /\ Goto(p, "count")
  /\ UNCHANGED <<main, owner, limiterVars, countVars>>

\* The panic of wg.Add, which has counted all the same: UnaryPanicRecovery answers
\* Internal, and the room is left without a coordinator.  It cannot meet the worker,
\* which the counter counts.
LaunchPanics(c, m) ==
  /\ InHand(c, m) /\ todo[m] = {} /\ Misused
  /\ wg' = wg + 1
  /\ Goto(c, "failed")
  /\ UNCHANGED <<vars, main, owner, limiterVars, countVars>>

\* Seeded fault: the counter is stored from a value that was read before the lock.
CountStale(p) ==
  /\ Alive /\ ticker[p] = "count"
  /\ matchesCreated' = IF p \in Callers THEN before[p] + 1 ELSE matchesCreated + 1
  /\ Goto(p, "scan")
  /\ UNCHANGED <<vars, stopVars, owner, limiterVars, before, report>>

Count(p) ==
  /\ Alive /\ ticker[p] = "count"
  /\ matchesCreated' = matchesCreated + 1
  /\ Goto(p, "scan")
  /\ UNCHANGED <<vars, stopVars, owner, limiterVars, before, report>>

\* No room: the worker goes back to its select, ForceMatch computes its reply.
TickEnds(p) ==
  /\ Alive /\ ticker[p] = "scan"
  /\ \/ p = Worker /\ Goto(p, "idle") /\ UNCHANGED report
     \/ /\ p \in Callers
        /\ Goto(p, "returned")
        /\ report' = [report EXCEPT ![p] = matchesCreated - before[p]]
  /\ UNCHANGED <<vars, stopVars, owner, limiterVars, matchesCreated, before>>

-------------------------------------------------------------------------------
(* Coordinators and the WaitGroup                                            *)

Over(m) == phase[m] \in {"confirmed", "cancelled"}

CoordinatorRuns(m) == Unseen(CoordinatorStep(m) /\ ~Over(m)')

\* The counter after a deferred wg.Done: no longer counted, it panics in a goroutine that
\* nobody recovers; the last one beside a waiter has to wake it.
Done ==
  \/ wg = 0 /\ main' = "crashed" /\ UNCHANGED wg
  \/ wg = 1 /\ main = "waiting" /\ main' = "zeroed" /\ wg' = 0
  \/ wg > 0 /\ ~(wg = 1 /\ main = "waiting") /\ wg' = wg - 1 /\ UNCHANGED main

\* Seeded fault: the coordinator returns without wg.Done when its room is cancelled.
CoordinatorLeaks(m) ==
  /\ Alive /\ CoordinatorStep(m) /\ Over(m)'
  /\ IF phase'[m] = "cancelled" THEN UNCHANGED stopVars ELSE Done
  /\ UNCHANGED <<tickVars, limiterVars, countVars>>

CoordinatorReturns(m) ==
  /\ Alive /\ CoordinatorStep(m) /\ Over(m)'
  /\ Done
  /\ UNCHANGED <<tickVars, limiterVars, countVars>>

\* Seeded fault: tick gives way to stopCh between extraction and coordinator, too.
WorkerStopsMidTick ==
  /\ Alive /\ main # "serving"
  /\ ticker[Worker] \in {"idle", "notify"}
  /\ Goto(Worker, "returned")
  /\ Done
  /\ UNCHANGED <<vars, owner, limiterVars, countVars>>

\* The worker's select takes stopCh.
WorkerStops ==
  /\ Alive /\ main # "serving"
  /\ ticker[Worker] = "idle"
  /\ Goto(Worker, "returned")
  /\ Done
  /\ UNCHANGED <<vars, owner, limiterVars, countVars>>

\* The Done that reached zero reads the state again, and panics if an Add came between.
Recheck ==
  /\ main = "zeroed"
  /\ main' = IF wg = 0 THEN "checked" ELSE "crashed"
  /\ UNCHANGED <<vars, wg, tickVars, limiterVars, countVars>>

\* It resets the state, whatever was added since, and wakes the waiter.
Wake ==
  /\ main = "checked"
  /\ wg' = 0
  /\ main' = "woken"
  /\ UNCHANGED <<vars, tickVars, limiterVars, countVars>>

-------------------------------------------------------------------------------
(* Shutdown                                                                  *)

Becomes(where) == main' = where /\ UNCHANGED <<vars, wg, tickVars, limiterVars, countVars>>

\* StopWorker closes stopCh.
Signal == main = "serving" /\ Becomes("stopping")

\* wg.Wait sleeps, or finds the counter at zero and returns.
Wait ==
  /\ main = "stopping"
  /\ \/ wg > 0 /\ Becomes("waiting")
     \/ wg = 0 /\ Becomes("draining")

\* wg.Wait returns.  It may panic, if the counter has moved again, but StopWorker recovers,
\* and GracefulStop follows.
StopWorkerReturns == main = "woken" /\ Becomes("draining")

\* GracefulStop returns, and Serve with it, when no call is in progress.
Stop ==
  /\ main = "draining"
  /\ \A s \in Streams : call[s] # "running"
  /\ \A c \in Callers : ticker[c] \in {"idle", "returned", "failed"}
  /\ Becomes("stopped")

-------------------------------------------------------------------------------
TickerStep(p) ==
  \/ \E m \in Rooms : \E S \in SUBSET Streams : Extract(p, m, S)
  \/ \E m \in Rooms : \E s \in Streams : NotifyMember(p, m, s)
  \/ \E m \in Rooms : Launch(p, m)
  \/ Count(p)
  \/ TickEnds(p)

StreamStep(s) == Admit(s) \/ JoinAdmitted(s) \/ StreamEnds(s)

\* Every other step of a stream is the core's.
PlayerStep(s) == Unseen((ClientStep(s) \/ HandlerStep(s)) /\ handler[s] # "idle")

ShutdownStep == Recheck \/ Wake \/ Signal \/ Wait \/ StopWorkerReturns \/ Stop

ServerNext ==
  \/ \E s \in Streams : StreamStep(s) \/ PlayerStep(s)
  \/ \E p \in Tickers : TickerStep(p)
  \/ \E c \in Callers : ForceMatch(c) \/ \E m \in Rooms : LaunchPanics(c, m)
  \/ \E m \in Rooms : CoordinatorRuns(m) \/ CoordinatorReturns(m)
  \/ WorkerTicks \/ WorkerStops
  \/ ShutdownStep

ServerSpec == ServerInit /\ [][ServerNext]_serverVars

\* Goroutines run; select picks stopCh against the ticker sooner or later.  Clients,
\* signals and callers of ForceMatch may never come, and clients may never leave.
StreamProgress(s) == Unseen(HandlerProgress(s)) \/ (handler[s] = "done" /\ StreamEnds(s))

TickerProgress(p) == TickerStep(p) \/ (p \in Callers /\ \E m \in Rooms : LaunchPanics(p, m))

ShutdownProgress == Recheck \/ Wake \/ Wait \/ StopWorkerReturns \/ Stop

ServerFairness ==
  /\ \A s \in Streams : WF_serverVars(StreamProgress(s))
  /\ \A p \in Tickers : WF_serverVars(TickerProgress(p))
  /\ \A m \in Rooms : WF_serverVars(CoordinatorRuns(m) \/ CoordinatorReturns(m))
  /\ SF_serverVars(WorkerStops)
  /\ WF_serverVars(ShutdownProgress)

FairServerSpec == ServerSpec /\ ServerFairness

-------------------------------------------------------------------------------
(* Correctness                                                               *)

ServerTypeOK ==
  /\ main \in {"serving", "stopping", "waiting", "zeroed", "checked", "woken",
               "draining", "stopped", "crashed"}
  /\ wg \in Nat
  /\ ticker \in [Tickers -> {"idle", "scan", "notify", "count", "returned", "failed"}]
  /\ owner \in [Rooms -> Tickers]
  /\ call \in [Streams -> {"none", "running", "over"}]
  /\ sem \in 0 .. MaxStreams
  /\ matchesCreated \in Nat
  /\ before \in [Callers -> Nat]
  /\ report \in [Callers -> Nat]

InCall == {s \in Streams : call[s] = "running"}

\* The limiter's slots are the streams inside the interceptor, and every handler that may
\* still hold a ticket has one: refusals, failed joins and returns after any number of
\* re-queues neither leak a slot nor free one twice.
SlotsMatchStreams ==
  /\ sem = Cardinality(InCall)
  /\ \A s \in Streams : handler[s] \notin {"idle", "done"} => s \in InCall

WorkerGone ==
  /\ ticker[Worker] = "returned"
  /\ \A m \in Rooms : owner[m] = Worker => phase[m] = "free" \/ Over(m)

\* What is left of "StopWorker signals the worker to exit and waits for it + all
\* coordinators" beside ForceMatch: none of the worker's own rooms is cut off between its
\* verdict and its re-enqueue, also when an Add makes Done or Wait panic.
StopWaitsForWorker == main \in {"woken", "draining", "stopped"} => WorkerGone

Launched == {m \in Rooms : phase[m] \notin {"free", "notifying"}}
LaunchedBy(p) == {m \in Launched : owner[m] = p}

\* ForceMatch reports at least the rooms it started, and the counter loses none of those
\* that got a coordinator, whichever ticks run beside each other.
NeverUndercounts ==
  /\ \A c \in Callers : ticker[c] = "returned" => report[c] >= Cardinality(LaunchedBy(c))
  /\ (\A p \in Tickers : ticker[p] # "count") => matchesCreated = Cardinality(Launched)

Running == {m \in Launched : ~Over(m)}

\* Until a Done has reached zero the counter counts the worker and the running
\* coordinators; afterwards the worker is gone.
WgInv ==
  /\ main \in {"serving", "stopping", "waiting"} =>
       wg = Cardinality(Running) + (IF ticker[Worker] = "returned" THEN 0 ELSE 1)
  /\ main \in {"zeroed", "checked", "woken", "draining", "stopped"} => WorkerGone

\* A room between ExtractMatch and wg.Add is in the hand of the tick that extracted it.
HandInv ==
  /\ \A m \in Rooms : phase[m] = "notifying" => ticker[owner[m]] \in {"notify", "failed"}
  /\ \A m1, m2 \in Rooms :
       phase[m1] = "notifying" /\ phase[m2] = "notifying" /\ owner[m1] = owner[m2] => m1 = m2
  /\ ticker[Worker] # "failed"

Counting == {p \in Tickers : ticker[p] = "count"}

\* matchesCreated lags behind the rooms by those tickers that have not counted theirs.
CountInv ==
  /\ matchesCreated + Cardinality(Counting) = Cardinality(Launched)
  /\ \A c \in Callers :
       /\ ticker[c] = "idle" => \A m \in Rooms : owner[m] = c => phase[m] = "free"
       /\ before[c] <= matchesCreated
       /\ ticker[c] \in {"scan", "notify", "count"} =>
            before[c] + Cardinality(LaunchedBy(c)) <= matchesCreated + (IF c \in Counting THEN 1 ELSE 0)
       /\ ticker[c] = "returned" => report[c] >= Cardinality(LaunchedBy(c))

ServerInv == ServerTypeOK /\ SlotsMatchStreams /\ WgInv /\ HandInv /\ CountInv

-------------------------------------------------------------------------------
(* Liveness                                                                  *)

\* wg.Wait comes back, or the process dies of the misuse: every coordinator ends whatever
\* its players do, and no panic leaves the counter up with StopWorker asleep.
WaitEnds ==
  main \in {"stopping", "waiting", "zeroed", "checked", "woken"} ~>
    main \in {"draining", "stopped", "crashed"}

\* Streams whose client has not left, in a handler that has no timer of its own.
Staying == {s \in InCall : handler[s] \in {"idle", "waiting"} /\ client[s] = "open"}

\* Rooms whose ForceMatch call has failed between extraction and coordinator.
Lost == {m \in Rooms : phase[m] = "notifying" /\ ticker[owner[m]] = "failed"}

\* Only a client that stays, or a room without a coordinator, holds up GracefulStop: no
\* ready check, cleanup, re-enqueue or slot does, now that the worker is gone.
DrainHeldByClientsOnly == []<>(main # "draining" \/ Staying # {} \/ Lost # {})

\* "Graceful shutdown on SIGINT/SIGTERM": the process ends after a signal.
ShutdownCompletes == main = "stopping" ~> main = "stopped"
===============================================================================
