------------------------------ MODULE Matchmaking ------------------------------
(***************************************************************************)
(* The matchmaking core of the server: the gateway stream handlers         *)
(* (internal/services/gateway.go), the extraction tick and the ready-check *)
(* coordinators (internal/services/matchmaker.go) and the pool operations  *)
(* they call (internal/state/pool.go), with the channels between them.     *)
(*                                                                         *)
(* A stream is one EnterMatchmaking call and also names the QueuedPlayer   *)
(* that call creates.  A room is one extraction: its MatchEvents, its      *)
(* coordinator goroutine and, when confirmed, its session.  The pool       *)
(* operations hold Pool.mu for their whole body and are atomic; every      *)
(* other step is one channel operation.                                    *)
(***************************************************************************)
EXTENDS Naturals, FiniteSets

CONSTANTS
  PlayerIDs,        \* ids that clients join under
  Streams,          \* EnterMatchmaking calls; bounds the number of joins
  PlayerOf,         \* the player id a stream joins under
  Rooms,            \* extractions; bounds their number
  PlayersPerMatch,  \* state.PlayersPerMatch
  None              \* a nil pointer, an empty channel

ASSUME MatchmakingAssumption ==
  /\ PlayerOf \in [Streams -> PlayerIDs]
  /\ PlayersPerMatch \in Nat \ {0}
  /\ None \notin Streams \cup Rooms

VARIABLES
  \* Pool and the MatchCh of each QueuedPlayer
  players,    \* player id -> the stream whose ticket is queued, or None
  closed,     \* streams whose MatchCh has been closed
  matchCh,    \* the room of the MatchEvent in each buffered(1) MatchCh, or None
  \* EnterMatchmaking
  handler,    \* control state of the handler goroutine
  evt,        \* the room of the last MatchEvent the handler took, or None
  acceptReq,  \* buffered(1) acceptReq; a token is tagged with the room on screen
  client,     \* what the reader goroutine has seen: open, cancel (cancelReq full
              \* and clientDone closed) or gone (clientDone closed)
  \* tick and readyCheckCoordinator
  phase,      \* control state of the room
  members,    \* the players slice of the room
  todo,       \* members the current for loop has not reached
  answer,     \* ResponseCh of each member: written at most once
  accepted,   \* members whose true the coordinator has counted
  result,     \* ResultCh of each member: written at most once
  \* SessionStore
  sessions    \* rooms for which CreateSession has run

poolVars == <<players, closed>>
gatewayVars == <<handler, evt, acceptReq, client>>
roomVars == <<phase, members, todo, accepted, result, sessions>>
vars == <<poolVars, matchCh, gatewayVars, roomVars, answer>>

\* acceptReq holds a token sent while no ready check was on the client's screen.
Unprompted == "unprompted"

TypeOK ==
  /\ players \in [PlayerIDs -> Streams \cup {None}]
  /\ closed \subseteq Streams
  /\ matchCh \in [Streams -> Rooms \cup {None}]
  /\ handler \in [Streams -> {"idle", "waiting", "readycheck", "verdict", "leaving", "done"}]
  /\ evt \in [Streams -> Rooms \cup {None}]
  /\ acceptReq \in [Streams -> Rooms \cup {None, Unprompted}]
  /\ client \in [Streams -> {"open", "cancel", "gone"}]
  /\ phase \in [Rooms -> {"free", "notifying", "gathering", "confirming",
                          "confirmed", "cancelling", "requeuing", "cancelled"}]
  /\ members \in [Rooms -> SUBSET Streams]
  /\ todo \in [Rooms -> SUBSET Streams]
  /\ answer \in [Rooms -> [Streams -> {"none", "yes", "no"}]]
  /\ accepted \in [Rooms -> SUBSET Streams]
  /\ result \in [Rooms -> [Streams -> {"none", "true", "false"}]]
  /\ sessions \subseteq Rooms

Init ==
  /\ players = [id \in PlayerIDs |-> None]
  /\ closed = {}
  /\ matchCh = [s \in Streams |-> None]
  /\ handler = [s \in Streams |-> "idle"]
  /\ evt = [s \in Streams |-> None]
  /\ acceptReq = [s \in Streams |-> None]
  /\ client = [s \in Streams |-> "open"]
  /\ phase = [m \in Rooms |-> "free"]
  /\ members = [m \in Rooms |-> {}]
  /\ todo = [m \in Rooms |-> {}]
  /\ answer = [m \in Rooms |-> [s \in Streams |-> "none"]]
  /\ accepted = [m \in Rooms |-> {}]
  /\ result = [m \in Rooms |-> [s \in Streams |-> "none"]]
  /\ sessions = {}

-------------------------------------------------------------------------------
(* Pool: each operation is one critical section of Pool.mu                   *)

Queued == {s \in Streams : players[PlayerOf[s]] = s}

\* The insertion that Enqueue and ReEnqueue share.
Insert(s) == players' = [players EXCEPT ![PlayerOf[s]] = s]

\* Dequeue removes whatever ticket is queued under the id and closes its MatchCh.
Dequeue(id) ==
  \/ /\ players[id] = None
     /\ UNCHANGED poolVars
  \/ /\ players[id] # None
     /\ players' = [players EXCEPT ![id] = None]
     /\ closed' = closed \cup {players[id]}

\* Seeded fault: ReEnqueue without its exists check.
ReEnqueueUnchecked(s) == Insert(s)

\* ReEnqueue is refused when the id is queued again, by another stream.
ReEnqueue(s) ==
  \/ /\ players[PlayerOf[s]] # None
     /\ UNCHANGED players
  \/ /\ players[PlayerOf[s]] = None
     /\ Insert(s)

\* Seeded fault: the index keeps the extracted tickets.
TakeKeepsIndex(S) == S \subseteq Queued /\ Cardinality(S) = PlayersPerMatch /\ UNCHANGED players

\* ExtractMatch takes a full room; which queued players form it is the business
\* of the Pool module.
Take(S) ==
  /\ S \subseteq Queued
  /\ Cardinality(S) = PlayersPerMatch
  /\ players' = [id \in PlayerIDs |-> IF players[id] \in S THEN None ELSE players[id]]

-------------------------------------------------------------------------------
(* The client, as the reader goroutine of a stream sees it                   *)

Reading(s) ==
  /\ handler[s] \in {"waiting", "readycheck", "verdict"}
  /\ client[s] = "open"

\* AcceptMatchAction: a second token is dropped while the first is unread.
ClientAccepts(s) ==
  /\ Reading(s)
  /\ acceptReq[s] = None
  /\ acceptReq' = [acceptReq EXCEPT ![s] =
                     IF handler[s] = "readycheck" THEN evt[s] ELSE Unprompted]
  /\ UNCHANGED <<poolVars, matchCh, handler, evt, client, roomVars, answer>>

\* CancelQueueAction fills cancelReq and ends the reader; EOF or a transport
\* error only ends it.
ClientStops(s, how) ==
  /\ Reading(s)
  /\ client' = [client EXCEPT ![s] = how]
  /\ UNCHANGED <<poolVars, matchCh, handler, evt, acceptReq, roomVars, answer>>

-------------------------------------------------------------------------------
(* EnterMatchmaking                                                          *)

\* Enqueue, or AlreadyExists when the id is queued.
Join(s) ==
  /\ handler[s] = "idle"
  /\ \/ /\ players[PlayerOf[s]] = None
        /\ Insert(s)
        /\ handler' = [handler EXCEPT ![s] = "waiting"]
     \/ /\ players[PlayerOf[s]] # None
        /\ handler' = [handler EXCEPT ![s] = "done"]
        /\ UNCHANGED players
  /\ UNCHANGED <<closed, matchCh, evt, acceptReq, client, roomVars, answer>>

\* The select loop leaves: client gone, a status push failed, or MatchCh closed.
Leave(s) ==
  /\ handler[s] = "waiting"
  /\ handler' = [handler EXCEPT ![s] = "leaving"]
  /\ UNCHANGED <<poolVars, matchCh, evt, acceptReq, client, roomVars, answer>>

ClientDone(s) == client[s] # "open" /\ Leave(s)

SendFails(s) == Leave(s)

RemovedFromQueue(s) == s \in closed /\ matchCh[s] = None /\ Leave(s)

\* The cancelReq arm dequeues before it returns.
Cancelled(s) ==
  /\ handler[s] = "waiting"
  /\ client[s] = "cancel"
  /\ Dequeue(PlayerOf[s])
  /\ handler' = [handler EXCEPT ![s] = "leaving"]
  /\ UNCHANGED <<matchCh, evt, acceptReq, client, roomVars, answer>>

\* The MatchCh arm: READY_CHECK is pushed, or the push fails and the handler
\* returns without writing to ResponseCh.
TakeEvent(s) ==
  /\ handler[s] = "waiting"
  /\ matchCh[s] # None
  /\ evt' = [evt EXCEPT ![s] = matchCh[s]]
  /\ matchCh' = [matchCh EXCEPT ![s] = None]
  /\ \E next \in {"readycheck", "leaving"} : handler' = [handler EXCEPT ![s] = next]
  /\ UNCHANGED <<poolVars, acceptReq, client, roomVars, answer>>

\* A non-blocking write to the ResponseCh of the room in hand.
Respond(s, a) ==
  answer' = IF answer[evt[s]][s] = "none" THEN [answer EXCEPT ![evt[s]][s] = a] ELSE answer

AcceptRoom(s) ==
  /\ handler[s] = "readycheck"
  /\ acceptReq[s] # None
  /\ acceptReq' = [acceptReq EXCEPT ![s] = None]
  /\ Respond(s, "yes")
  /\ handler' = [handler EXCEPT ![s] = "verdict"]
  /\ UNCHANGED <<poolVars, matchCh, evt, client, roomVars>>

\* readyTimer, clientDone or the stream's context ends the ready check; the timer
\* may fire in any ready check, so one action stands for the three arms.
DeclineRoom(s) ==
  /\ handler[s] = "readycheck"
  /\ Respond(s, "no")
  /\ handler' = [handler EXCEPT ![s] = "leaving"]
  /\ UNCHANGED <<poolVars, matchCh, evt, acceptReq, client, roomVars>>

\* The blocking read of ResultCh: back to the select loop on false, IN_GAME and
\* return on true.
LearnVerdict(s) ==
  /\ handler[s] = "verdict"
  /\ result[evt[s]][s] # "none"
  /\ handler' = [handler EXCEPT ![s] =
                   IF result[evt[s]][s] = "true" THEN "leaving" ELSE "waiting"]
  /\ UNCHANGED <<poolVars, matchCh, evt, acceptReq, client, roomVars, answer>>

\* The deferred Dequeue by player id runs on every return after Enqueue.
Cleanup(s) ==
  /\ handler[s] = "leaving"
  /\ Dequeue(PlayerOf[s])
  /\ handler' = [handler EXCEPT ![s] = "done"]
  /\ UNCHANGED <<matchCh, evt, acceptReq, client, roomVars, answer>>

-------------------------------------------------------------------------------
(* tick, run by the worker and by every ForceMatch call                      *)

ExtractMatch(m, S) ==
  /\ phase[m] = "free"
  /\ Take(S)
  /\ phase' = [phase EXCEPT ![m] = "notifying"]
  /\ members' = [members EXCEPT ![m] = S]
  /\ todo' = [todo EXCEPT ![m] = S]
  /\ UNCHANGED <<closed, matchCh, gatewayVars, answer, accepted, result, sessions>>

\* The non-blocking send of one MatchEvent; a full buffer drops the event.
Notify(m, s) ==
  /\ phase[m] = "notifying"
  /\ s \in todo[m]
  /\ todo' = [todo EXCEPT ![m] = @ \ {s}]
  /\ matchCh' = IF matchCh[s] = None THEN [matchCh EXCEPT ![s] = m] ELSE matchCh
  /\ UNCHANGED <<poolVars, gatewayVars, phase, members, answer, accepted, result, sessions>>

StartCoordinator(m) ==
  /\ phase[m] = "notifying"
  /\ todo[m] = {}
  /\ phase' = [phase EXCEPT ![m] = "gathering"]
  /\ UNCHANGED <<poolVars, matchCh, gatewayVars, members, todo, answer, accepted, result, sessions>>

-------------------------------------------------------------------------------
(* readyCheckCoordinator: the fan-in hop is merged with the main loop's read *)

CountAccept(m, s) ==
  /\ phase[m] = "gathering"
  /\ s \in members[m] \ accepted[m]
  /\ answer[m][s] = "yes"
  /\ accepted' = [accepted EXCEPT ![m] = @ \cup {s}]
  /\ UNCHANGED <<poolVars, matchCh, gatewayVars, phase, members, todo, answer, result, sessions>>

\* Seeded fault: the results go to the counted members only.
DecideForAccepted(m, verdict) ==
  /\ phase[m] = "gathering"
  /\ phase' = [phase EXCEPT ![m] = verdict]
  /\ todo' = [todo EXCEPT ![m] = accepted[m]]
  /\ UNCHANGED <<poolVars, matchCh, gatewayVars, members, answer, accepted, result>>

\* The verdict label: the result loop runs over every member.
Decide(m, verdict) ==
  /\ phase[m] = "gathering"
  /\ phase' = [phase EXCEPT ![m] = verdict]
  /\ todo' = [todo EXCEPT ![m] = members[m]]
  /\ UNCHANGED <<poolVars, matchCh, gatewayVars, members, answer, accepted, result>>

\* Seeded fault: the room is confirmed although a response is missing.
ConfirmEarly(m) ==
  /\ accepted[m] # {}
  /\ Decide(m, "confirming")
  /\ sessions' = sessions \cup {m}

\* Every response was true: CreateSession comes before any result is sent.
Confirm(m) ==
  /\ accepted[m] = members[m]
  /\ Decide(m, "confirming")
  /\ sessions' = sessions \cup {m}

\* The first false ends the room without waiting for the other members.
FastFail(m, s) ==
  /\ s \in members[m]
  /\ answer[m][s] = "no"
  /\ Decide(m, "cancelling")
  /\ UNCHANGED sessions

\* readyCheckCoordTimeout ends a room that still lacks a response.
RoomTimeout(m) ==
  /\ accepted[m] # members[m]
  /\ Decide(m, "cancelling")
  /\ UNCHANGED sessions

\* Seeded fault: the ResultCh is unbuffered, as MatchEvent's comment has it.
SendResultUnbuffered(m, s) ==
  /\ phase[m] \in {"confirming", "cancelling"}
  /\ s \in todo[m]
  /\ handler[s] = "verdict" /\ evt[s] = m
  /\ todo' = [todo EXCEPT ![m] = @ \ {s}]
  /\ result' = [result EXCEPT ![m][s] = IF phase[m] = "confirming" THEN "true" ELSE "false"]
  /\ UNCHANGED <<poolVars, matchCh, gatewayVars, phase, members, answer, accepted, sessions>>

SendResult(m, s) ==
  /\ phase[m] \in {"confirming", "cancelling"}
  /\ s \in todo[m]
  /\ todo' = [todo EXCEPT ![m] = @ \ {s}]
  /\ result' = [result EXCEPT ![m][s] = IF phase[m] = "confirming" THEN "true" ELSE "false"]
  /\ UNCHANGED <<poolVars, matchCh, gatewayVars, phase, members, answer, accepted, sessions>>

\* Seeded faults: a cancelled room gives back all of its members, or none; a
\* confirmed one does not return and gives back the members of its session.
ResultsSentGiveBack(m, back) ==
  /\ todo[m] = {}
  /\ phase[m] \in {"confirming", "cancelling"}
  /\ phase' = [phase EXCEPT ![m] = IF @ = "confirming" THEN "confirmed" ELSE "requeuing"]
  /\ todo' = [todo EXCEPT ![m] = IF phase[m] = "cancelling" THEN back ELSE {}]
  /\ UNCHANGED <<poolVars, matchCh, gatewayVars, members, answer, accepted, result, sessions>>

ResultsSentAll(m) == ResultsSentGiveBack(m, members[m])

ResultsSentFallsThrough(m) ==
  /\ todo[m] = {}
  /\ phase[m] \in {"confirming", "cancelling"}
  /\ phase' = [phase EXCEPT ![m] = "requeuing"]
  /\ todo' = [todo EXCEPT ![m] = accepted[m]]
  /\ UNCHANGED <<poolVars, matchCh, gatewayVars, members, answer, accepted, result, sessions>>

ResultsSentNone(m) == ResultsSentGiveBack(m, {})

\* A confirmed coordinator returns; a cancelled one goes on to re-enqueue the
\* members it counted.
ResultsSent(m) ==
  /\ todo[m] = {}
  /\ \/ /\ phase[m] = "confirming"
        /\ phase' = [phase EXCEPT ![m] = "confirmed"]
        /\ UNCHANGED todo
     \/ /\ phase[m] = "cancelling"
        /\ phase' = [phase EXCEPT ![m] = "requeuing"]
        /\ todo' = [todo EXCEPT ![m] = accepted[m]]
  /\ UNCHANGED <<poolVars, matchCh, gatewayVars, members, answer, accepted, result, sessions>>

Requeue(m, s) ==
  /\ phase[m] = "requeuing"
  /\ s \in todo[m]
  /\ todo' = [todo EXCEPT ![m] = @ \ {s}]
  /\ ReEnqueue(s)
  /\ UNCHANGED <<closed, matchCh, gatewayVars, phase, members, answer, accepted, result, sessions>>

CloseRoom(m) ==
  /\ phase[m] = "requeuing"
  /\ todo[m] = {}
  /\ phase' = [phase EXCEPT ![m] = "cancelled"]
  /\ UNCHANGED <<poolVars, matchCh, gatewayVars, members, todo, answer, accepted, result, sessions>>

-------------------------------------------------------------------------------
ClientStep(s) ==
  \/ ClientAccepts(s)
  \/ \E how \in {"cancel", "gone"} : ClientStops(s, how)

HandlerStep(s) ==
  \/ Join(s) \/ ClientDone(s) \/ SendFails(s) \/ RemovedFromQueue(s) \/ Cancelled(s)
  \/ TakeEvent(s) \/ AcceptRoom(s) \/ DeclineRoom(s) \/ LearnVerdict(s) \/ Cleanup(s)

TickStep(m) ==
  \/ \E S \in SUBSET Streams : ExtractMatch(m, S)
  \/ \E s \in Streams : Notify(m, s)
  \/ StartCoordinator(m)

CoordinatorStep(m) ==
  \/ \E s \in Streams : CountAccept(m, s) \/ FastFail(m, s) \/ SendResult(m, s) \/ Requeue(m, s)
  \/ Confirm(m) \/ RoomTimeout(m) \/ ResultsSent(m) \/ CloseRoom(m)

Next ==
  \/ \E s \in Streams : ClientStep(s) \/ HandlerStep(s)
  \/ \E m \in Rooms : TickStep(m) \/ CoordinatorStep(m)

Spec == Init /\ [][Next]_vars

\* A goroutine that can run does run.  Nothing forces a client to act, a push to
\* fail, a player to join or a room to be extracted.
HandlerProgress(s) ==
  \/ ClientDone(s) \/ RemovedFromQueue(s) \/ Cancelled(s)
  \/ TakeEvent(s) \/ AcceptRoom(s) \/ DeclineRoom(s) \/ LearnVerdict(s) \/ Cleanup(s)

TickProgress(m) == (\E s \in Streams : Notify(m, s)) \/ StartCoordinator(m)

Fairness ==
  /\ \A s \in Streams : WF_vars(HandlerProgress(s))
  /\ \A m \in Rooms : WF_vars(TickProgress(m)) /\ WF_vars(CoordinatorStep(m))

FairSpec == Spec /\ Fairness

-------------------------------------------------------------------------------
(* Who is responsible for a ticket                                           *)

\* Room m still has to decide about s: s may be notified, confirmed or given back.
Claims(m, s) ==
  \/ /\ phase[m] \in {"notifying", "gathering", "confirming", "cancelling"}
     /\ s \in members[m]
  \/ /\ phase[m] = "requeuing"
     /\ s \in todo[m]

Held == {s \in Streams : \E m \in Rooms : Claims(m, s)}

\* The worker has extracted s and has not sent it its MatchEvent yet.
Unnotified(s) == \E m \in Rooms : phase[m] = "notifying" /\ s \in todo[m]

-------------------------------------------------------------------------------
(* Safety                                                                    *)

\* A ticket is queued or belongs to one room, never both and never two rooms: the
\* re-enqueue of a cancelled room and the extraction of the next never overlap.
OneOwner ==
  /\ Queued \cap Held = {}
  /\ \A m1, m2 \in Rooms : \A s \in Streams : Claims(m1, s) /\ Claims(m2, s) => m1 = m2

\* A ticket that is queued or about to be notified has an open, empty MatchCh: the
\* worker's send cannot panic on a closed channel, Dequeue cannot close one twice,
\* and the "failed to notify player" branch of tick is never taken.
MatchChReady ==
  \A s \in Streams : s \in Queued \/ Unnotified(s) => s \notin closed /\ matchCh[s] = None

\* A handler is told true only of a room whose session exists, and a session exists
\* only when every member's handler accepted: no goroutine sees the other verdict.
VerdictAgreement ==
  \A m \in Rooms :
    /\ m \in sessions => \A s \in members[m] : answer[m][s] = "yes" /\ result[m][s] # "false"
    /\ \A s \in Streams : result[m][s] = "true" => m \in sessions /\ s \in members[m]

\* A ticket whose session exists is out of matchmaking for good: never queued again and
\* wanted by no other room, whichever of its earlier rooms was cancelled.  Its player may
\* join again, by another stream.
SessionMembersGone ==
  \A m \in sessions : \A s \in members[m] :
    s \notin Queued /\ \A m2 \in Rooms \ {m} : ~Claims(m2, s)

\* A handler that was told "you have been re-queued", after its room is over, is in play:
\* queued, wanted by a room, or with an event to take.
InPlay(s) == s \in Queued \cup Held \/ matchCh[s] # None

ToldRequeued(s) == handler[s] = "waiting" /\ evt[s] # None /\ phase[evt[s]] = "cancelled"

OnlyStream(s) == \A t \in Streams \ {s} : PlayerOf[t] # PlayerOf[s]

\* "Re-enqueue players who DID accept": one with a single stream, whose accept was counted,
\* stays in play after the room was cancelled.
LonePlayersKeepQueueing ==
  \A s \in Streams : OnlyStream(s) /\ ToldRequeued(s) /\ s \in accepted[evt[s]] => InPlay(s)

\* The promise without the proviso that the accept was counted: "Another player
\* failed ready check. You have been re-queued."
RequeuedAsTold == \A s \in Streams : ToldRequeued(s) => InPlay(s)

\* The deferred cleanup of a handler leaves no ticket behind.
NoTicketWithoutHandler == \A s \in Queued : handler[s] # "done"

\* A ticket without a handler can only be one whose accept a coordinator counted: a
\* stream that declined, or that never saw a ready check, cleans up after itself.
OrphanAcceptedOnce ==
  \A s \in Queued : handler[s] = "done" => \E m \in Rooms : s \in accepted[m]

-------------------------------------------------------------------------------
(* The inductive invariant behind the safety theorems                        *)

\* A confirmed room keeps its members.
Keeps(m, s) == Claims(m, s) \/ (phase[m] = "confirmed" /\ s \in members[m])

\* The index is keyed by PlayerID; a queued ticket is open, unsent and unclaimed.
PoolInv ==
  /\ \A id \in PlayerIDs : players[id] # None => PlayerOf[players[id]] = id
  /\ \A s \in Queued : s \notin closed /\ matchCh[s] = None /\ \A m \in Rooms : ~Keeps(m, s)

\* A room that keeps a ticket keeps it alone, and open, and no other event waits for it.
OwnerInv ==
  \A m \in Rooms : \A s \in Streams : Keeps(m, s) =>
    /\ s \notin closed
    /\ matchCh[s] \in {None, m}
    /\ \A m2 \in Rooms : Keeps(m2, s) => m2 = m

\* The loops of tick and of the coordinator stay within the room's slices.
RoomInv ==
  \A m \in Rooms :
    /\ todo[m] \subseteq members[m]
    /\ accepted[m] \subseteq members[m]
    /\ \A s \in accepted[m] : answer[m][s] = "yes"
    /\ phase[m] = "free" => members[m] = {}
    /\ phase[m] = "requeuing" => todo[m] \subseteq accepted[m]

\* A MatchEvent goes once from the worker to the handler to the ResponseCh: the room
\* that s has not been notified of is not in its MatchCh, on its screen or answered.
EventInv ==
  \A m \in Rooms : \A s \in Streams :
    /\ phase[m] = "notifying" /\ s \in todo[m] =>
         matchCh[s] = None /\ evt[s] # m /\ answer[m][s] = "none"
    /\ matchCh[s] = m => s \in members[m] /\ answer[m][s] = "none" /\ evt[s] # m
    /\ evt[s] = m => s \in members[m]
    /\ answer[m][s] # "none" => s \in members[m]

\* A ready check has an event and no answer yet; a stream that has not joined has
\* left no trace.
HandlerInv ==
  \A s \in Streams :
    /\ handler[s] \in {"readycheck", "verdict"} => evt[s] \in Rooms
    /\ handler[s] = "readycheck" => answer[evt[s]][s] = "none"
    /\ handler[s] = "idle" =>
         s \notin Queued \cup closed /\ matchCh[s] = None /\ \A m \in Rooms : s \notin members[m]

\* Sessions and results follow the verdict.
VerdictInv ==
  \A m \in Rooms :
    /\ m \in sessions => accepted[m] = members[m] /\ phase[m] \in {"confirming", "confirmed"}
    /\ phase[m] = "confirming" => m \in sessions
    /\ \A s \in Streams :
         /\ result[m][s] = "true" => m \in sessions /\ s \in members[m]
         /\ result[m][s] = "false" => phase[m] \in {"cancelling", "requeuing", "cancelled"}

IInv == TypeOK /\ PoolInv /\ OwnerInv /\ RoomInv /\ EventInv /\ HandlerInv /\ VerdictInv

\* Room m has handed s back, or tried to.
Returned(m, s) ==
  phase[m] \in {"requeuing", "cancelled"} /\ s \in accepted[m] \ todo[m]

\* A ticket that is queued, or kept by a room, was handed back by every other room it
\* has been in.
FreeInv ==
  /\ \A s \in Queued : \A m \in Rooms : s \in members[m] => Returned(m, s)
  /\ \A m \in Rooms : \A s \in Streams : Keeps(m, s) =>
       \A m2 \in Rooms \ {m} : s \in members[m2] => Returned(m2, s)

\* A room counts fewer than all and cancels, or all and confirms, and its members have
\* their results when it goes on.
TellInv ==
  \A m \in Rooms :
    /\ phase[m] \in {"confirming", "confirmed"} => accepted[m] = members[m]
    /\ phase[m] \in {"cancelling", "requeuing", "cancelled"} => accepted[m] # members[m]
    /\ phase[m] # "free" => members[m] # {}
    /\ phase[m] \in {"gathering", "confirmed", "cancelled"} => todo[m] = {}
    /\ \A s \in Streams : result[m][s] = "none" <=>
         \/ s \notin members[m]
         \/ phase[m] \in {"free", "notifying", "gathering"}
         \/ phase[m] \in {"confirming", "cancelling"} /\ s \in todo[m]

VInv == FreeInv /\ TellInv

-------------------------------------------------------------------------------
(* Action properties                                                         *)

\* A ready check is accepted by a click made while it was on the screen.
AcceptMeansThisRoom ==
  [][\A s \in Streams : \A m \in Rooms :
       answer'[m][s] = "yes" /\ answer[m][s] = "none" => acceptReq[s] = m]_vars

OnTheWayOut(s) == handler[s] = "leaving" \/ (handler[s] = "waiting" /\ client[s] = "cancel")

\* A ticket leaves the queue for a room, or because a stream of its player is on the way
\* out: no other cleanup, re-enqueue or extraction evicts a player.
EvictedByOwnPlayer ==
  [][\A s \in Queued : s \notin Queued' \cup Held' =>
       \E t \in Streams : PlayerOf[t] = PlayerOf[s] /\ OnTheWayOut(t)]_vars

-------------------------------------------------------------------------------
(* Liveness                                                                  *)

\* Every extracted room comes to a verdict and its coordinator returns, whatever the
\* clients do: no result send blocks and no wait lacks a timeout.
RoomSettles ==
  \A m \in Rooms : phase[m] = "notifying" ~> phase[m] \in {"confirmed", "cancelled"}

\* A handler never stays in a ready check or in the unbounded read of ResultCh: it
\* is back in its select loop or gone, whether or not the client ever answers.
HandlerComesBack ==
  \A s \in Streams : handler[s] \in {"readycheck", "verdict"} ~> handler[s] \in {"waiting", "done"}

-------------------------------------------------------------------------------
(* The pool's promise                                                        *)

Queue == INSTANCE MatchQueue WITH
  Tickets <- Streams, held <- Held, joined <- {s \in Streams : handler[s] # "idle"}

QueueSpec == Queue!Spec

-------------------------------------------------------------------------------
(* The coordinator's promise                                                 *)

VerdictOf(m) ==
  IF phase[m] \in {"confirming", "confirmed"} THEN "confirmed"
  ELSE IF phase[m] \in {"cancelling", "requeuing", "cancelled"} THEN "cancelled" ELSE "none"

Verdict == INSTANCE RoomVerdict WITH
  verdict <- [m \in Rooms |-> VerdictOf(m)],
  counted <- [m \in Rooms |-> IF VerdictOf(m) = "cancelled" THEN accepted[m] ELSE {}],
  told <- [m \in Rooms |-> {s \in Streams : result[m][s] # "none"}],
  returned <- [m \in Rooms |-> {s \in Streams : Returned(m, s)}]

VerdictSpec == Verdict!Spec
===============================================================================
