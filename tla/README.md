# Verification of Nexus-Match

TLA+ modules, TLC configurations and TLAPS proofs for the Nexus-Match server:
a gRPC matchmaking server in Go that queues players over bidirectional
streams, forms rooms by rating, runs a ready check over each room and records
the results of the sessions that come out of it. Line numbers refer to the
files under `src/`.

## 1. The system

| Part | Source | State | Operations |
|---|---|---|---|
| Pool | `internal/state/pool.go` | `players` (id -> ticket), `brackets` (rating bracket -> sorted slice), one `MatchCh` per ticket | `Enqueue`, `ReEnqueue`, `Dequeue`, `ExtractMatch`, all under one mutex |
| Gateway | `internal/services/gateway.go` | one handler goroutine and one reader goroutine per stream, `acceptReq`, `cancelReq`, `clientDone` | `EnterMatchmaking`: join, wait, ready check, verdict, deferred cleanup |
| Worker and tick | `internal/services/matchmaker.go` | `stopCh`, `wg`, `matchesCreated` | extract rooms until the pool gives none, notify the members, launch a coordinator |
| Ready-check coordinator | `internal/services/matchmaker.go` | per room: `ResponseCh` and `ResultCh` of each member, a 12 s context | gather, verdict, create the session, send results, re-enqueue |
| SessionStore | `internal/state/session.go` | sessions, their results, `Finalized` | `CreateSession`, `RecordResult`, `GetSession` |
| Tracker | `internal/services/tracker.go` | none of its own | `SubmitResult`, `GetSession` |
| Stream limiter | `internal/interceptor/interceptor.go` | a buffered channel as a semaphore | take a slot or refuse; give it back when the handler ends |
| Process | `cmd/server/main.go` | the shutdown goroutine | `StartWorker`, `Serve`, `StopWorker`, `GracefulStop` |
| Simulator | `client/main.go` | per bot: its stream and its session id | join, accept every ready check, submit one result |

How they interact. A handler enqueues a *ticket* (a `QueuedPlayer`) and then
selects over its `MatchCh`, its client and a status ticker. The worker, and
every `ForceMatch` call, extracts full rooms from the pool and sends one
`MatchEvent` to each member's `MatchCh`. The event carries two one-shot
channels: the handler answers the coordinator on `ResponseCh`, then blocks on
`ResultCh`. The coordinator confirms (session first, then `true` to all) or
cancels (`false` to all, then `ReEnqueue` of those it had counted). Every
handler that leaves runs a deferred `Dequeue` by *player id*.

What is hard here: five kinds of goroutine that share tickets and channels; a
verdict that travels separately from its effect on the pool; a cleanup that
goes by player id while ownership goes by ticket; timeouts on both sides of
each channel; a session pointer read outside its lock; shutdown beside
`ForceMatch`. The list of hazards with their lines is in `PROJECT.json`.

What makes each part correct:

- Pool: index and slices agree and stay sorted; a ticket is extracted once;
  the room that is picked is the one the scoring formula promises; a
  candidate is passed over only while its wait is worth less than the rooms it
  could have had.
- Gateway, tick, coordinator: one owner per ticket; no send on a closed
  channel; one verdict per room; members of a session stay out of the queue;
  whoever is told "re-queued" is; nobody is stuck in a ready check.
- SessionStore and tracker: one acknowledged result per player, finalization
  exactly when complete, summaries that are snapshots.
- Coordinator: its verdict is an atomic commit with an early abort; the fan-in
  goroutines never block and never outlive the call.
- Process: slots are returned, `StopWorker` waits for the rooms of the worker,
  only clients hold up the exit after a signal, the counter of matches loses none.
- Simulator: what the server tells a bot is enough for the bot to act on; the
  summary adds up.

## 2. The modules

| Module | Models | Variables and the code |
|---|---|---|
| `MatchQueue` | the pool's promise to the rest, abstract | `players`, `closed`, who holds extracted tickets (`held`), who has tried to join |
| `RoomVerdict` | the ready check's promise to the players, abstract | `members`, `answer`, `verdict`, `counted`, `told`, `returned` of each room |
| `Matchmaking` | pool index, gateway handlers and readers, tick, coordinators: the core | see below |
| `ReadyCheck` | one call of `readyCheckCoordinator` with its goroutines, context and channels | `responseCh`, `ctx`, `fanIn`, `fanInCh`, `coord`, `received`, `accepted`, `resultCh`, `todo` |
| `Pool` | `pool.go` in detail: brackets, insertion, window, scores | `players`, `brackets`, `closed`, `enqueuedAt`, `now`; `joined` and `held` are its callers |
| `Sessions` | `session.go`, `tracker.go` | `created`, `results`, `finalized`; `call` and `read` are the requests in progress |
| `Simulator` | `client/main.go` beside the core, with the network between them | `bot`, `link`, `inbox`, `accepts`, `session`, `rpc`, `recorded`, the counters, `main` |
| `Server` | the shutdown goroutine of `main.go`, worker loop, `ForceMatch`, `WaitGroup`, limiter, around the core | `main`, `wg`, `ticker`, `owner`, `call`, `sem`, `matchesCreated`, `before`, `report` |
| `MCMatchmaking`, `MCPool`, `MCSessions`, `MCSimulator`, `MCServer` | instances for TLC: small constants, symmetry, state constraints (`ReadyCheck` needs none) | |
| `Matchmaking_proofs`, `_refinement`, `_players` | theorems about `Matchmaking`: safety; that it implements `MatchQueue` and `RoomVerdict`; who may lose a ticket | |
| `Pool_proofs`, `ReadyCheck_proofs`, `Sessions_proofs`, `Simulator_proofs`, `Server_proofs` | theorems about the module of that name | |

How they compose. `Matchmaking` and `Pool` are two refinements of `MatchQueue`
(`Queue == INSTANCE MatchQueue`): the first with the goroutines around the pool
and an arbitrary choice of the room, the second with the choice and the slices.
What `Matchmaking` needs of the pool is what `MatchQueue` states. In the same
way `Matchmaking` and `ReadyCheck` are two refinements of `RoomVerdict`: the
first has many rooms whose members overlap in time, and merges the hop of a
fan-in goroutine with the main loop's read; the second has that hop, the
context and the channel capacities, for one room. That both implement
`RoomVerdict` is what justifies the merge. `Simulator` EXTENDS `Matchmaking` and
replaces its arbitrary clients by the bots: every step of it is a step of the
core or leaves the core alone (theorem `BotsAreClients`). `Server` EXTENDS it too,
and puts the process around it: which goroutine takes a step of the core, what
that does to the WaitGroup, the limiter and the counters, and that nothing runs
once the process has stopped or crashed (theorem `ServerRunsTheCore`).

Correspondence in `Matchmaking`:

- A stream of the model is one `EnterMatchmaking` call and the ticket it
  creates, so `PlayerOf` may map two streams to one player id.
- `handler` is where the handler goroutine is: `waiting` in its select loop,
  `readycheck` in the inner select, `verdict` in the read of `ResultCh`,
  `leaving` after `return` and before the deferred `Dequeue`, `done` after it.
- `evt` is the `MatchEvent` in the handler's hand; it outlives the ready check
  only so that properties can speak of the last room.
- `acceptReq` is the buffered channel of that name. The value of its token is
  not in the code: it records which ready check was on the client's screen.
- `client` is the state of the reader goroutine: after a cancel action both
  `cancelReq` is full and `clientDone` closed, and the handler's select may
  take either arm.
- `phase[m]` is where the goroutine working on room `m` is: tick first
  (`notifying`), the coordinator after it. `todo[m]` is what its current `for`
  loop has left; the loops run in any order.
- `answer[m][s]` and `result[m][s]` are the one-shot channels, `accepted[m]`
  the coordinator's slice.

Granularity. A pool or store method holds its mutex from its first line to its
last and is one action. Every other channel operation is an action of its own.
A fan-in goroutine's hop from `ResponseCh` to `fanInCh` is merged with the main
loop's read: between the two the coordinator does not see the answer, which is
the state in which it has not counted it. The response, the farewell push and
the return of a handler that declines are one step; only the response is seen
by others. A timer may fire whenever it runs: real time is not modelled in
`Matchmaking`, and nothing in it depends on 10 s being less than 12 s.

In `ReadyCheck` a fan-in goroutine is `listening`, holds a value, or has
`ended`; the context is `live`, `expired` or `cancelled`. The coordinator's own
`ctx.Done` arm and the `false` that a goroutine sends on the same event are
separate steps, so the verdict may be reached by either, with accepts still in
`fanInCh`. Nobody reads `fanInCh` after the verdict.

In `Simulator`, `link[b]` is a bot's stream (`up`, `closed` by the bot,
`broken` by `matchTimeout` or the network), `inbox` the pushes on their way to
it, in order, and `accepts` the bots whose click is on its way back. A bot that
hangs up drops its inbox; pushes that arrived before its stream broke can still
be read, and the server may still read a join or a click that was buffered when
it broke. The two-second game sleep is
merged into the `SubmitResult` call it precedes, and the call into one step of
the server (`Sessions` has its races); the reply may be lost or late
(`SubmitTimesOut`). Heartbeats and `WAITING` pushes change nothing at their
receiver and are left out.

In `Server`, `main` follows the shutdown: `stopping` after `close(stopCh)`,
`waiting`, `zeroed` and `checked` inside `wg.Wait`, `woken` when it is about to
return, `draining` in `GracefulStop`, then `stopped`; or `crashed`. `call[s]` is
the limiter's interceptor around a stream: it takes a slot, runs the handler and
gives the slot up when the handler has returned, whichever way. A tick owns the
room in its hand (`owner`) from `ExtractMatch` to `wg.Add`; `failed` is a
`ForceMatch` call that panicked there. `GracefulStop` turns new calls away, but
not those on their way when it began, so the model goes on admitting them.

`sync.WaitGroup` is outside the repository and modelled as Go 1.24 has it, the
version that `go.mod` names. `wg.Wait` sleeps while the counter is positive. The
`Done` that takes it to zero beside that waiter (`zeroed`) reads the state again
(`Recheck`) and panics if it has moved, else resets it and wakes the waiter
(`Wake`). An `Add` that takes the counter from zero in between panics after
having counted: in `ForceMatch`, the only one that the counter does not count,
`UnaryPanicRecovery` answers `Internal`, and the room that was extracted and
notified has no coordinator (`LaunchPanics`). A `Done` that panics, on a counter
that has moved or that would become negative after a reset, does so in a
goroutine that nobody recovers: the process dies.

In `Pool`, `sort.Search` is the first index that satisfies its predicate and
`sort.Slice` leaves any ascending order of the candidates (`Sortings`): it is not
stable, so equal ratings come in any order. A score is `PlayersPerMatch` times
the code's, to keep the average wait exact, and so is the sentinel that the scan
starts from; `MaxMMR` is the largest rating that `EnterMatchmaking` lets in. The
loop that takes the room out is a fold over the selected window.

In `Sessions`, the handler's loop over the live results map is one action per
entry. A write while a reader ranges may crash the process (`crashed`): the Go
runtime detects such races on a best-effort basis, so both outcomes are
possible.

Definitions marked *Seeded fault* are not part of any specification. Each
is a wrong version of the definition that follows it, and the property named
with it in `PROJECT.json` ("mutants") fails when it takes that place.

## 3. The runs

Runs that pass:

| Run | Question | Instance and bounds | States |
|---|---|---|---|
| `core` | safety of the ready check; inductive invariants; refinement of `MatchQueue` and of `RoomVerdict` | 2 players, 3 streams (s2 and s3 are one player), 2 rooms of 2, at most one client that stops, clicks only in ready checks (`OneStopsPrompted`) | 0.6 M |
| `live` | rooms settle, handlers come back | 2 players with a stream each, 2 rooms of 2, no constraint | 138 k |
| `readycheck` | why a room is cancelled; no goroutine blocks or stays; refinement of `RoomVerdict` | a room of 3, answers at any time or never | 79 k |
| `pool` | inductive invariant, slices and index, choice of the room, overtaking, refinement of `MatchQueue` | 5 tickets of 4 players in 2 brackets, rooms of 2, ties in every order, clock to 2 | 427 k |
| `results` | submissions, retries, readers | 1 session of 2 and an outsider, 3 calls, 1 reader | 62 k |
| `simulator` | what the bots may rely on; the summary; everything ends | 2 bots, 1 room of 2, streams and calls fail at any time | 126 k |
| `shutdown` | shutdown beside `ForceMatch`: slots, the worker's rooms, WaitGroup, counter; what may hold it up | 2 streams, 1 slot, 2 rooms of 1, 1 `ForceMatch` call, patient clients (`PatientInOrder`) | 299 k |

Why the bounds are enough for what they show. The hazards of the ready check
are between one room and the next one that its members get into: two rooms of
two with a third stream give a cancelled room, a re-enqueue, and a room that
overlaps with the first in one member. A second ticket of one player id is
enough for every confusion of id and ticket. `OneStopsPrompted` limits how many
clients cancel or disconnect, and stray clicks; timeouts of ready checks and
failing pushes are not limited. `live` has neither limit, for two streams, and
the proofs of section 5 have none of these bounds. In `ReadyCheck` three members
are enough for a goroutine that has sent, one that holds a value and one that
listens when the context ends. In `Simulator` two bots make one room: after a
cancelled ready check they cannot form a second one, since a bot whose room
timed out is out of the game; re-queueing into another room is in `core` and in
the proofs, and `SimIInv` was also checked once on 3 bots, 2 rooms and at most
one broken stream (1.7 M states). In `Pool`, brackets of two
ratings, a tie and a player with two ratings give every case of insertion and
removal; five tickets and rooms of two leave up to four windows to choose from.
In `Server` rooms
of one member are enough: the races are between ticks, coordinators and the
shutdown, and what happens inside a room is in `core`. Two rooms give a coordinator
of the worker beside a room of `ForceMatch`, or two rooms of one tick; one slot
for two streams makes the limiter refuse, and hand the slot on while the first
stream's room is still open. `PatientInOrder` limits clients and the pushes to
them, of which no fairness is assumed, so that it cuts off no step that the
fairness promises. One `ForceMatch` call meets `wg.Wait` in every way but one: a
second call may launch a room between the panic of the first and the reset, and
the `Done` of that room then finds the counter at zero. The proofs have that step.
The calls are finitely many: an endless row of `ForceMatch` rooms that overlap
would keep the counter above zero and `wg.Wait` asleep, which the run does not
look at. Counters are
bounded by the rooms, the calls or `MaxNow`. `CHECK_DEADLOCK
FALSE` everywhere: streams, rooms, calls and clock are finite, so the model
stops when they are used up.

Runs that end in a violation show a disagreement between the code and what it
says of itself (the quotes are in `PROJECT.json`, "findings"):

| Run | Property | What happens |
|---|---|---|
| `told` | `RequeuedAsTold` | The room is cancelled, by a member's decline or by the 12 s timeout; another member, still in its ready check, accepts afterwards, hears `false`, is told it is re-queued and waits forever without a ticket. |
| `orphan` | `NoTicketWithoutHandler` | A handler hears `false` and leaves, with its deferred `Dequeue`, before the coordinator re-enqueues its ticket. The ticket can be drafted into a room, which then fails. |
| `stale` | `AcceptMeansThisRoom` | A click outside a ready check accepts the next room. |
| `stays` | `ShutdownCompletes` | A signal, no `ForceMatch`, no room: the client of a queued stream stays, and `GracefulStop` waits for it for ever. |
| `threadsafe` | `GetSessionIsThreadSafe` | Unlocked range over the results map beside a write to it: the runtime may stop the process, or a summary is finalized and lacks a result. |

A second stream under the same id is another way to break what `told` refutes:
it joins during the ready check of the first, whose ticket is then not
re-enqueued because the id is taken.

`core` checks what is left of the refuted promises:
`LonePlayersKeepQueueing` (a counted player with one stream is re-queued as
promised), `EvictedByOwnPlayer` (a ticket is only ever removed by a stream of
its own player) and `OrphanAcceptedOnce` (a ticket without a handler is one
that a coordinator gave back). `StopWaitsForWorker` is what `StopWorker` can
promise while `ForceMatch` runs: the rooms of the worker are waited for, also when
the WaitGroup is misused. Of `ShutdownCompletes` two halves are left, which
`shutdown` checks without assuming that a client ever leaves: `WaitEnds`
(`StopWorker` returns, or the process dies of the misuse) and
`DrainHeldByClientsOnly` (what then holds up `GracefulStop` is a client that
stays in its queue, or a room that a failed `ForceMatch` call has left without a
coordinator; no ready check, re-enqueue, cleanup or slot does).
`SummaryEntriesStand` is what is left of the snapshot: every entry that was read
is the truth. `ClicksMeanThisRoom` shows that the bots cannot run into what
`stale` finds. `NoEndlessOvertaking` is what the wait bias of the score
gives of "preventing indefinite starvation" (pool.go:25): a candidate is passed
over only while its wait is worth less than the width of the room it could have
had plus the waits of those who are taken, so a stream of fresh players cannot
pass it for ever. A player outside the neighbourhood that is looked at gets no
such promise.

Other disagreements can be read off the definitions and have no run of their
own: a `ForceMatch` call whose `wg.Add` meets StopWorker's `wg.Wait` panics after
it has notified its room, and a member that accepts waits for a result that
nobody sends (`LaunchPanics`; gateway.go:19 and :224), or the process dies
(`Done`, `Recheck`); one that comes to `wg.Add` later is not waited for, although
"tracked by m.wg so StopWorker waits for it" (`Launch`; matchmaker.go:165);
`ExtractMatch` gives up around a lone player although another neighbourhood has a
room, and does not drain "as many matches as possible" (`Pool`; matchmaker.go:116);
a handler that leaves before its ready check never answers the coordinator
(`TakeEvent`, `Leave`; pool.go:101), an unknown enum value is `Internal`
(`Rejection`; tracker.go:39), `ForceMatch` counts rooms that others make
meanwhile (`TickEnds`; matchmaker.go:331).

## 4. Fairness

`Matchmaking`: weak fairness of each handler, of each tick and of each
coordinator, because a goroutine that can run does run. `DeclineRoom` and
`RoomTimeout` are among these steps because their timers fire. Nothing is
assumed of clients, of pushes that fail, of joins and of extractions. A handler
need not choose a particular arm of its select, so its steps share one
condition. `RoomSettles` and `HandlerComesBack` need no more.

`Server`: weak fairness of goroutines, and strong fairness of `WorkerStops`: the
worker is at its select again and again, and Go's select picks uniformly
among the ready arms, so `stopCh` cannot lose against the ticker forever.
A handler that has returned leaves its interceptor (`StreamEnds` once
`handler[s] = "done"`), and the shutdown goroutine goes on when it can. Nothing is
assumed of clients, who may stay for ever, nor of signals, of `ForceMatch` calls
that have not begun, or of pushes that fail.

`ReadyCheck`: weak fairness of each goroutine and of the context's timer.
`CoordinatorReturns` and `FanInsEnd` assume nothing of the players.

`Simulator`: weak fairness of each bot, each handler, tick and coordinator, of
the stream's end by `matchTimeout` (`Break`) and of its detection by the server
(`HandlerSeesEnd`), and of the summary. Joins that arrive, rooms that are
extracted and submissions that are handled are not assumed: the timeouts are
what ends a bot.

`Pool` and `Sessions` have no liveness properties: their operations are calls
that return, and whether callers come is not theirs to say.

## 5. The proofs

All are checked by TLAPS, for every value of the constants that satisfies the
assumption of the module. Every safety invariant, action property and refinement
that a passing run checks is the statement of a theorem.

About `Matchmaking`, under `MatchmakingAssumption` (streams have a player id,
rooms have at least one member, `None` is neither a stream nor a room; no
assumption says that streams or rooms are finite, or that a player has one
stream):

- `TypeCorrect`, `Invariance` (`[]IInv`), `TicketsHaveOneOwner`,
  `MatchChannelsReady`, `VerdictsAgree`, `SessionMembersStayOut`: the safety
  invariants of `core`.
- `ImplementsQueue` (`Spec => QueueSpec`) and `ImplementsVerdict` (`Spec =>
  VerdictSpec`): the refinements that `core` checks. `RoomsAreDone` (`[]VInv`) is
  the invariant of the second.
- `OnlyOwnPlayerEvicts`, `OrphansWereCounted`, `CountedPlayersKeepQueueing`: what
  may become of a ticket.

About the others:

- `Pool`: `PoolInvariance` (`[]PInv`), `IndexAndBracketsAgree`,
  `NoBetterRoomExists`, `OvertakingIsBounded`, `PoolImplementsQueue` (`Spec =>
  QueueSpec`), `FullNeighbourhoodsYield` and `SpreadFromEnds`. `PoolAssumption`
  bounds the ratings by `MaxMMR`, as the gateway does, and `BracketsAssumption`
  says that `Brackets` names the bracket of every rating; tickets and players may
  be infinitely many.
- `ReadyCheck`: `CoordinatorIsSound` (`[]RInv`), `FanInHasRoom`,
  `ReadyCheckImplementsVerdict`.
- `Sessions`: `StoreIsConsistent`, `FinalizedByTheLast`, `ResultsAckedOnce`,
  `SummariesStand`.
- `Simulator`: `BotsAreClients` (`SimSpec => Spec`), `SimInvariance`,
  `SubmissionsAreWelcome`, `MembersHearOfIt`, `ClicksAreForThisRoom`, and
  `SummaryAddsUp`, the only one that needs finitely many bots.
- `Server`: `ServerRunsTheCore` (`ServerSpec => Spec`), `ServerInvariance`
  (`[]ServerInv`), `SlotsAreNotLeaked`, `WorkerIsWaitedFor`, `CounterIsExact`.
  `ServerAssumption` says that streams, rooms and calls are finitely many, since
  the counters count them.

Why an inductive invariant is needed. `OneOwner` alone is not inductive: that
a re-enqueued ticket is not already in another room depends on why its
coordinator still claims it. `IInv` follows a ticket instead. `OwnerInv`: a room
*keeps* a ticket from the extraction until it is given back, for ever if it is
confirmed, and then nobody else keeps it, its `MatchCh` is open and holds nothing but
that room's event. `PoolInv`: a queued ticket is kept by nobody, open and has
an empty `MatchCh`. `EventInv`: an event goes once from tick to the `MatchCh`,
to the handler's hand, to the answer. With it a counted member has answered, so its `MatchCh` is empty when
it is queued again: that is the crux of `RequeueInv`. `RoomInv`, `HandlerInv` and
`VerdictInv` bound the loops and tie answers, results and sessions to the
verdict. The proof has a frame lemma for each conjunct, one lemma per action and
one for the pool operations (`DequeueOwners`, `InsertOwners`). `core` checks
`IInv` with TLC.

The refinement follows `Held`, what rooms claim, through every action. Most
steps leave the queue's view alone (`QuietHandlers`, `QuietRooms`); a verdict
lets go of the members of a session, or of those that were not counted; a
re-enqueue gives back or, when the player id is taken, lets go. `OwnerInv` is what
makes these steps local: what one room drops no other room claims.

The refinement of `RoomVerdict`. A room may be formed only of tickets that every earlier
room is through with. `FreeInv` says so of queued and kept tickets, and `TellInv`
that all results of a room are sent before its first re-enqueue; together they
are `VInv`, which is inductive beside `IInv`. A step of the core is then one
step of `RoomVerdict`, or none when it concerns the way of an event or a client.

`Matchmaking_players`. `PathInv` says that a room that keeps a ticket is the one
whose event waits in its `MatchCh` or was the last its handler took; `LoneInv`
that a player with one stream is in play from the moment its last room has
handed it back, before its handler knows. Both rest on `IInv` and on what a pool operation
can do to other ids (`DequeueOthers`, `InsertOthers`).

`Pool_proofs`. `PInv` adds to `IndexMatchesBrackets` that an entry of the index is
filed under its own player and that nothing held is queued (`IndexInv`): without
the first, `Dequeue` would search the slice of another player, and without the
second `ReEnqueue` would list a ticket twice. The lemmas about slices say at
which place `insertSorted` puts a ticket and what `removeFromSlice` leaves;
`InsertLists` and `RemoveLists` lift them to the brackets, and `RemoveAllLists` to
the loop of `ExtractMatch`. The library's induction theorems take an operator,
which no prover here can instantiate, so every induction is a least
counterexample (`MinOfNaturals`), and a fold is shown to be a function on the
subsets of what it folds over (`SubsetRecursion`), unrolled one element at a time
(`RemovalsUnroll`, `TotalWaitBounds`). For the choice of the room: a room of
consecutive ratings stands side by side in every sorting
(`ConsecutiveIsWindow`), so the scan has looked at it; every window scores below
the sentinel (`BelowSentinel`), so the scan has kept one with the lowest score
(`SelectedIsLowest`). `OvertakingIsBounded` follows because a wait never exceeds
the sum of the waits and a spread is never negative. `SpreadFromEnds` says that the
difference of the two ends of a window, which is what the code computes, is the
spread of the room, and `FullNeighbourhoodsYield` that a neighbourhood that fills a
room always yields one: `ExtractMatch` is not idle in the model where the code
would go on.

`ReadyCheck_proofs`. `ResponseInv` says that a response is in one place at a
time: `responseCh`, a goroutine's hand, `fanInCh` or `accepted`. The entries of
`fanInCh` are therefore of different goroutines that have ended, and one that
still holds a value is not among them: by the pigeonhole principle there is
room for it. `CancelledForAReason` is part of `RInv` because the `false` of a
goroutine that the coordinator itself cancelled is in the channel too, but only
after the verdict.

`Sessions_proofs`. `SInv` ties the map of results to the calls that were
acknowledged and to what readers have seen; that results are never overwritten
makes an entry read without the lock stay true.

`Simulator_proofs`. Since bots are clients of the core, `IInv` holds beside
them. On top of it each bot has a local invariant: what is in its inbox, what it
has clicked and where its handler is fit together. The step of another bot
leaves it alone, which one frame lemma says for all of them. The counters are
cardinalities of sets of bots, each step of which adds one element.

`Server_proofs`. Every action is the core's or leaves the core alone
(`ServerRunsTheCore`), so the core's lemmas hold in the process. `MoveFacts` says
once what each kind of step does to the phases of rooms. `WgInv`: until a `Done`
has reached zero the counter is that of the running coordinators and the worker;
from then on the worker has gone, and what the counter says no longer matters to
it. That it has gone *with its rooms* needs `HandInv`: a room between
`ExtractMatch` and `wg.Add` is in the hand of the tick that extracted it, and the
worker does not stop with a room in its hand. `GoneForGood` is the rest: a worker
that has gone gets no new room. `CountInv`: `matchesCreated` lags behind the rooms
by the ticks that have yet to count theirs.

The inductive invariants (`IInv`, `VInv`, `PInv`, `RInv`, `SInv`, `SimIInv`,
`ServerInv`) are also checked by TLC, in the passing run of their module, where a
seeded fault breaks each of them.

Only model-checked: liveness under fairness (`RoomSettles`, `HandlerComesBack`,
`CoordinatorReturns`, `FanInsEnd`, `SimulationCompletes`, `HandlersEnd`,
`WaitEnds`, `DrainHeldByClientsOnly`), which is out of the prover's reach.

## 6. Not modelled

- Validation of the first message (a stream that fails it has no state), the
  text of messages, display names, scores, MMR deltas, session times.
- Heartbeats and periodic `WAITING` pushes: their receivers ignore them. The bot
  sends heartbeats from a goroutine of its own, beside its receive loop, on a
  stream on which gRPC allows one sender at a time (client/main.go:145); what
  that does is inside gRPC.
- `GetQueueStats`, with `Size` and `ActiveCount`, and `Contains`: they only read. The
  two numbers of `GetQueueStats` are taken under two locks and nothing in the code
  relates them: a player with a second stream, or who has joined again before its
  session is finalized, is rightly in both, one in a ready check in neither.
- The backing arrays of slices (`removeFromSlice` shrinks them).
- The logging interceptors, and panic recovery apart from `LaunchPanics`: no state.
  A recovered panic ends a handler like an error does.
- The generated code of `pkg/pb` and gRPC itself: a stream is what the handlers
  see of it. Keepalive is a client that disconnects.
- The session store grows without bound: sessions are never deleted.
- `new_mmr` (nexus.proto) is the delta that the tracker was sent, not a rating:
  data that no control depends on.

## 7. What is left

Done, in this order: `MatchQueue`, `Matchmaking` with its runs and proofs,
`Pool`, `Sessions`, `RoomVerdict` and `ReadyCheck`, `Simulator`, `Server` over
`Matchmaking`, and the proofs of all modules.

Worth adding, were the code to change there: a pool with recycled tickets and an
unbounded stream of fresh players for starvation in the long run, `Simulator`
over `Sessions` instead of its one-step `SubmitResult`, and a model of
`sort.Search`'s bisection, which the proofs take as its first matching index.
