------------------------------- MODULE Simulator -------------------------------
(***************************************************************************)
(* The stress test of client/main.go beside the matchmaking core: every    *)
(* stream of Matchmaking belongs to one bot, whose moves replace the       *)
(* arbitrary client of that module.  Each handler step is conjoined with   *)
(* what it pushes to the bot, and each bot step with what reaches the      *)
(* handler; SubmitResult is RecordResult's checks in one step (Sessions    *)
(* has its detail).  WAITING pushes and heartbeats change nothing at their *)
(* receiver and are left out.                                              *)
(***************************************************************************)
EXTENDS Matchmaking, Sequences

VARIABLES
  bot,       \* control state of simulatePlayer
  link,      \* the stream: up, broken (matchTimeout or transport), closed (by the bot)
  inbox,     \* pushes on their way to the bot, in order
  accepts,   \* bots whose AcceptMatchAction is on its way to the server
  session,   \* the sessionID of each bot, or None
  rpc,       \* the SubmitResult call of each bot
  recorded,  \* Session.Results: who has a result in each session
  matched, failed, results,  \* the counters of the summary
  main       \* main: in wg.Wait, or past it

botVars == <<bot, link, inbox, accepts, session>>
trackerVars == <<rpc, recorded>>
tallyVars == <<matched, failed, results, main>>
simVars == <<vars, botVars, trackerVars, tallyVars>>

Messages == [status : {"READY_CHECK", "IN_GAME"}, match : Rooms]
            \cup [status : {"CANCELLED"}, match : {None}]

SimInit ==
  /\ Init
  /\ bot = [b \in Streams |-> "new"]
  /\ link = [b \in Streams |-> "closed"]
  /\ inbox = [b \in Streams |-> <<>>]
  /\ accepts = {}
  /\ session = [b \in Streams |-> None]
  /\ rpc = [b \in Streams |-> "none"]
  /\ recorded = [m \in Rooms |-> {}]
  /\ matched = 0 /\ failed = 0 /\ results = 0
  /\ main = "waiting"

-------------------------------------------------------------------------------
(* The server's side of the stream                                           *)

\* A push reaches the bot's end of the stream, if that is still there.
Push(b, msg) ==
  /\ inbox' = [inbox EXCEPT ![b] = IF link[b] = "up" THEN Append(@, msg) ELSE @]
  /\ UNCHANGED <<bot, link, accepts, session, trackerVars, tallyVars>>

Quietly(step) == step /\ UNCHANGED <<botVars, trackerVars, tallyVars>>

\* The first message may wait at the server when the stream breaks.
BotJoins(b) == link[b] # "closed" /\ Quietly(Join(b))

\* Send at the server fails only on a stream that is no longer up.
PushFails(b) == link[b] # "up" /\ Quietly(SendFails(b))

PushReadyCheck(b) ==
  /\ TakeEvent(b)
  /\ \/ /\ handler'[b] = "readycheck"
        /\ Push(b, [status |-> "READY_CHECK", match |-> matchCh[b]])
     \/ /\ handler'[b] = "leaving"
        /\ link[b] # "up"
        /\ UNCHANGED <<botVars, trackerVars, tallyVars>>

PushCancelled(b) ==
  /\ DeclineRoom(b)
  /\ Push(b, [status |-> "CANCELLED", match |-> None])

\* Seeded fault: the handler forgets the ready check of a room that was cancelled and
\* shows it again.
PushVerdictTwice(b) ==
  /\ LearnVerdict(b)
  /\ Push(b, [status |-> IF handler'[b] = "leaving" THEN "IN_GAME" ELSE "READY_CHECK", match |-> evt[b]])

PushVerdict(b) ==
  /\ LearnVerdict(b)
  /\ \/ /\ handler'[b] = "leaving"
        /\ Push(b, [status |-> "IN_GAME", match |-> evt[b]])
     \/ /\ handler'[b] = "waiting"
        /\ UNCHANGED <<botVars, trackerVars, tallyVars>>

\* The server learns that the stream is gone: the deadline travels with the call.
HandlerSeesEnd(b) == link[b] # "up" /\ Quietly(ClientStops(b, "gone"))

\* Seeded fault: the bot sends its accept again and again.
AcceptArrivesAgain(b) ==
  /\ b \in accepts
  /\ ClientAccepts(b)
  /\ UNCHANGED <<botVars, trackerVars, tallyVars>>

\* The reader may find an accept before it finds the end of the stream.  One that finds
\* no reader, or a full channel, is dropped.
AcceptArrives(b) ==
  /\ b \in accepts
  /\ accepts' = accepts \ {b}
  /\ \/ ClientAccepts(b)
     \/ ~(Reading(b) /\ acceptReq[b] = None) /\ UNCHANGED vars
  /\ UNCHANGED <<bot, link, inbox, session, trackerVars, tallyVars>>

-------------------------------------------------------------------------------
(* simulatePlayer                                                            *)

Goto(b, where) == bot' = [bot EXCEPT ![b] = where]

\* cancel and conn.Close: what was still on its way to the bot is dropped.
HangUp(b) ==
  /\ link' = [link EXCEPT ![b] = IF @ = "up" THEN "closed" ELSE @]
  /\ inbox' = [inbox EXCEPT ![b] = <<>>]
  /\ UNCHANGED accepts

\* Every early return of simulatePlayer counts the bot as failed.
Fail(b) ==
  /\ Goto(b, "done")
  /\ HangUp(b)
  /\ failed' = failed + 1
  /\ UNCHANGED <<vars, session, trackerVars, matched, results, main>>

\* The bot is dialled, its stream opened and its JoinQueueAction sent.
Start(b) ==
  /\ bot[b] = "new"
  /\ Goto(b, "reading")
  /\ link' = [link EXCEPT ![b] = "up"]
  /\ UNCHANGED <<vars, inbox, accepts, session, trackerVars, tallyVars>>

StartFails(b) == bot[b] = "new" /\ Fail(b)

\* Seeded fault: the stream's context has no timeout.
BreakNever(b) ==
  /\ link[b] = "up" /\ handler[b] = "done"
  /\ link' = [link EXCEPT ![b] = "broken"]
  /\ UNCHANGED <<vars, bot, inbox, accepts, session, trackerVars, tallyVars>>

\* matchTimeout, or a transport error.
Break(b) ==
  /\ link[b] = "up"
  /\ link' = [link EXCEPT ![b] = "broken"]
  /\ UNCHANGED <<vars, bot, inbox, accepts, session, trackerVars, tallyVars>>

Receives(b, status) ==
  /\ bot[b] = "reading"
  /\ inbox[b] # <<>>
  /\ Head(inbox[b]).status = status

Pop(b) == inbox' = [inbox EXCEPT ![b] = Tail(@)]

\* READY_CHECK is accepted at once; Send fails when the stream has ended.
ReadReadyCheck(b) ==
  /\ Receives(b, "READY_CHECK")
  /\ \/ /\ link[b] = "up"
        /\ Pop(b)
        /\ accepts' = accepts \cup {b}
        /\ UNCHANGED <<vars, bot, link, session, trackerVars, tallyVars>>
     \/ (link[b] # "up" \/ handler[b] = "done") /\ Fail(b)

\* IN_GAME ends the loop; the bot closes its stream, plays and submits.  The sleep of
\* the game is part of the time that the call takes.
ReadInGame(b) ==
  /\ Receives(b, "IN_GAME")
  /\ session' = [session EXCEPT ![b] = Head(inbox[b]).match]
  /\ matched' = matched + 1
  /\ HangUp(b)
  /\ Goto(b, "submitting")
  /\ rpc' = [rpc EXCEPT ![b] = "sent"]
  /\ UNCHANGED <<vars, recorded, failed, results, main>>

\* Seeded fault: CANCELLED is counted without the return.
ReadCancelledGoesOn(b) ==
  /\ Receives(b, "CANCELLED")
  /\ Pop(b)
  /\ failed' = failed + 1
  /\ UNCHANGED <<vars, bot, link, accepts, session, trackerVars, matched, results, main>>

ReadCancelled(b) == Receives(b, "CANCELLED") /\ Fail(b)

\* Seeded fault: the end of the stream overtakes the pushes before it.
RecvFailsEarly(b) ==
  /\ bot[b] = "reading"
  /\ link[b] # "up" \/ handler[b] = "done"
  /\ Fail(b)

\* Recv returns the handler's status after the last push, or an error once the stream
\* is broken; no session id was seen, so the bot has failed.
RecvFails(b) ==
  /\ bot[b] = "reading"
  /\ link[b] # "up" \/ (inbox[b] = <<>> /\ handler[b] = "done")
  /\ Fail(b)

\* SubmitResult at the server: NotFound, PermissionDenied and AlreadyExists are refusals.
\* It may run after the bot has given up.
HandleSubmit(b) ==
  /\ rpc[b] = "sent"
  /\ LET m == session[b] IN
     \/ /\ m \in sessions /\ b \in members[m] /\ b \notin recorded[m]
        /\ recorded' = [recorded EXCEPT ![m] = @ \cup {b}]
        /\ rpc' = [rpc EXCEPT ![b] = "OK"]
     \/ /\ m \notin sessions \/ b \notin members[m] \/ b \in recorded[m]
        /\ rpc' = [rpc EXCEPT ![b] = "refused"]
        /\ UNCHANGED recorded
  /\ UNCHANGED <<vars, botVars, tallyVars>>

ReadReply(b) ==
  /\ bot[b] = "submitting"
  /\ \/ /\ rpc[b] = "OK"
        /\ Goto(b, "done")
        /\ results' = results + 1
        /\ UNCHANGED <<vars, link, inbox, accepts, session, trackerVars, matched, failed, main>>
     \/ rpc[b] = "refused" /\ Fail(b)

\* Seeded fault: a submission that timed out is sent again.
SubmitAgain(b) ==
  /\ bot[b] = "submitting"
  /\ rpc' = [rpc EXCEPT ![b] = "sent"]
  /\ UNCHANGED <<vars, botVars, recorded, tallyVars>>

\* The call's deadline of 5 s, or a transport error.
SubmitTimesOut(b) == bot[b] = "submitting" /\ Fail(b)

\* wg.Wait returns.
Summarize ==
  /\ main = "waiting"
  /\ \A b \in Streams : bot[b] = "done"
  /\ main' = "complete"
  /\ UNCHANGED <<vars, botVars, trackerVars, matched, failed, results>>

-------------------------------------------------------------------------------
BotStep(b) ==
  \/ Start(b) \/ StartFails(b)
  \/ ReadReadyCheck(b) \/ ReadInGame(b) \/ ReadCancelled(b) \/ RecvFails(b)
  \/ ReadReply(b) \/ SubmitTimesOut(b)

\* The arms that only a cancelling client or a second stream of the player can take
\* are not among a bot's.
BotHandlerStep(b) ==
  \/ PushReadyCheck(b) \/ PushCancelled(b) \/ PushVerdict(b)
  \/ Quietly(ClientDone(b) \/ AcceptRoom(b) \/ Cleanup(b))

NetworkStep(b) == Break(b) \/ AcceptArrives(b) \/ HandlerSeesEnd(b)

SimNext ==
  \/ \E b \in Streams :
       BotStep(b) \/ BotJoins(b) \/ BotHandlerStep(b) \/ PushFails(b) \/ NetworkStep(b)
       \/ HandleSubmit(b)
  \/ \E m \in Rooms : Quietly(TickStep(m) \/ CoordinatorStep(m))
  \/ Summarize

SimSpec == SimInit /\ [][SimNext]_simVars

\* Goroutines run, matchTimeout fires and a dead stream is noticed.  Nothing forces a
\* join to arrive, a room to be extracted or a submission to be handled.
SimFairness ==
  /\ \A b \in Streams : WF_simVars(BotStep(b)) /\ WF_simVars(BotHandlerStep(b))
  /\ \A b \in Streams : WF_simVars(Break(b)) /\ WF_simVars(HandlerSeesEnd(b))
  /\ \A m \in Rooms : WF_simVars(Quietly(TickProgress(m))) /\ WF_simVars(Quietly(CoordinatorStep(m)))
  /\ WF_simVars(Summarize)

FairSimSpec == SimSpec /\ SimFairness

-------------------------------------------------------------------------------
(* Correctness                                                               *)

SimTypeOK ==
  /\ bot \in [Streams -> {"new", "reading", "submitting", "done"}]
  /\ link \in [Streams -> {"up", "broken", "closed"}]
  /\ inbox \in [Streams -> Seq(Messages)]
  /\ accepts \subseteq Streams
  /\ session \in [Streams -> Rooms \cup {None}]
  /\ rpc \in [Streams -> {"none", "sent", "OK", "refused"}]
  /\ recorded \in [Rooms -> SUBSET Streams]
  /\ matched \in Nat /\ failed \in Nat /\ results \in Nat
  /\ main \in {"waiting", "complete"}

\* No submission of a bot is refused: IN_GAME comes after CreateSession, names a session
\* the bot is a member of, and is acted on once.
SubmissionsWelcome == \A b \in Streams : rpc[b] # "refused"

\* The summary adds up at every moment: a finished bot is counted once, as a result or as
\* failed, a bot is matched once, and a counted result is one the tracker has.
TallyAddsUp ==
  /\ results + failed = Cardinality({b \in Streams : bot[b] = "done"})
  /\ matched = Cardinality({b \in Streams : session[b] # None})
  /\ results <= Cardinality({b \in Streams : \E m \in Rooms : b \in recorded[m]})

\* A bot whose stream did not break knows of the session it was put in before it stops.
MembersAreMatched ==
  \A m \in sessions : \A b \in members[m] :
    bot[b] = "done" /\ link[b] # "broken" => session[b] = m

\* A click that waits at the server is for the ready check that its handler is in: the
\* bots never accept a room they were not shown, so they cannot run into what
\* AcceptMeansThisRoom rules out.
ClicksMeanThisRoom ==
  \A b \in Streams :
    acceptReq[b] # None /\ handler[b] \in {"waiting", "readycheck", "verdict"} =>
      handler[b] = "readycheck" /\ acceptReq[b] = evt[b]

\* The simulator ends, however the rooms go.
SimulationCompletes == <>(main = "complete")

\* A bot that is done leaves no handler behind in the server.
HandlersEnd ==
  \A b \in Streams : bot[b] = "done" ~> handler[b] \in {"idle", "done"}

-------------------------------------------------------------------------------
(* The inductive invariant behind the safety theorems                        *)

\* A ready check is pushed, clicked and consumed before its handler goes on; IN_GAME is
\* the last push of a handler, and the bot has read what came before it.
Pipe(b) ==
  /\ handler[b] \in {"idle", "waiting", "verdict"} =>
       inbox[b] = <<>> /\ b \notin accepts /\ acceptReq[b] = None
  /\ handler[b] = "readycheck" =>
       /\ acceptReq[b] \in {None, evt[b]}
       /\ b \in accepts => acceptReq[b] = None
       /\ inbox[b] # <<>> =>
            /\ Len(inbox[b]) = 1 /\ inbox[b][1].status = "READY_CHECK"
            /\ b \notin accepts /\ acceptReq[b] = None
  /\ \A i \in 1 .. Len(inbox[b]) : inbox[b][i].status = "IN_GAME" => Len(inbox[b]) = 1

PipeInv == \A b \in Streams : Pipe(b)

\* A bot reads while its stream is up; it closes a stream only after the handler's last
\* push.
Link(b) ==
  /\ link[b] = "up" => bot[b] = "reading"
  /\ inbox[b] # <<>> => bot[b] = "reading"
  /\ bot[b] = "reading" => link[b] # "closed"
  /\ bot[b] = "new" => handler[b] = "idle" /\ link[b] = "closed"
  /\ link[b] = "closed" => handler[b] \in {"idle", "leaving", "done"}
  /\ \A i \in 1 .. Len(inbox[b]) : inbox[b][i].status = "CANCELLED" => handler[b] \in {"leaving", "done"}

LinkInv == \A b \in Streams : Link(b)

\* An id that a bot was told, or will read, is that of its session; the tracker has
\* nothing of the bot until its one call is handled.
Submission(b) ==
  /\ \A i \in 1 .. Len(inbox[b]) : inbox[b][i].status = "IN_GAME" =>
       inbox[b][i].match \in sessions /\ b \in members[inbox[b][i].match]
  /\ session[b] # None => session[b] \in sessions /\ b \in members[session[b]]
  /\ bot[b] \in {"new", "reading"} => rpc[b] = "none"
  /\ rpc[b] # "none" => session[b] # None
  /\ rpc[b] \in {"none", "sent"} => \A m \in Rooms : b \notin recorded[m]
  /\ rpc[b] # "refused"

SessionInv == \A b \in Streams : Submission(b)

\* A member whose accept was counted waits for the verdict; a member of a session is
\* about to hear of it, knows of it, or has lost its stream.
Knows(m, b) ==
  \/ handler[b] = "verdict" /\ evt[b] = m
  \/ link[b] = "broken"
  \/ session[b] = m
  \/ \E i \in 1 .. Len(inbox[b]) : inbox[b][i].status = "IN_GAME"

Member(m, b) ==
  /\ answer[m][b] = "yes" /\ result[m][b] = "none" => handler[b] = "verdict" /\ evt[b] = m
  /\ m \in sessions /\ b \in members[m] => Knows(m, b)

MemberInv == \A m \in Rooms, b \in Streams : Member(m, b)

SimIInv == IInv /\ SimTypeOK /\ PipeInv /\ LinkInv /\ SessionInv /\ MemberInv
===============================================================================
