------------------------------- MODULE ReadyCheck -------------------------------
(***************************************************************************)
(* One call of readyCheckCoordinator (internal/services/matchmaker.go) in  *)
(* detail: the coordinator's main loop, the fan-in goroutine of each       *)
(* player, the context they share, and the channels between them and the   *)
(* gateway handlers.  Matchmaking has many rooms and merges the fan-in     *)
(* hop; both implement RoomVerdict.                                        *)
(***************************************************************************)
EXTENDS Naturals, Sequences, FiniteSets

CONSTANTS
  Members,  \* the players slice
  Room      \* the sessionID of the call

ASSUME ReadyCheckAssumption == IsFiniteSet(Members) /\ Members # {}

VARIABLES
  answer,      \* what each handler has written to its ResponseCh
  responseCh,  \* the buffered(1) ResponseCh of each player
  ctx,         \* live, expired (readyCheckCoordTimeout) or cancelled
  fanIn,       \* each fan-in goroutine: listening, the value in its hand, or ended
  fanInCh,     \* the buffered channel of responses
  coord,       \* control state of the coordinator
  received,    \* responsesReceived
  accepted,    \* players whose true has been received
  resultCh,    \* what has been sent to the ResultCh of each player
  todo         \* players the current for loop has not reached

vars == <<answer, responseCh, ctx, fanIn, fanInCh, coord, received, accepted, resultCh, todo>>

N == Cardinality(Members)

Init ==
  /\ answer = [s \in Members |-> "none"]
  /\ responseCh = [s \in Members |-> "none"]
  /\ ctx = "live"
  /\ fanIn = [s \in Members |-> "listening"]
  /\ fanInCh = <<>>
  /\ coord = "gathering"
  /\ received = 0
  /\ accepted = {}
  /\ resultCh = [s \in Members |-> "none"]
  /\ todo = {}

-------------------------------------------------------------------------------
(* The gateway handlers and the timer                                        *)

\* A handler answers once, at any time, or never; the buffer takes the one value.
Answer(s, a) ==
  /\ answer[s] = "none"
  /\ answer' = [answer EXCEPT ![s] = a]
  /\ responseCh' = [responseCh EXCEPT ![s] = a]
  /\ UNCHANGED <<ctx, fanIn, fanInCh, coord, received, accepted, resultCh, todo>>

Expire ==
  /\ ctx = "live"
  /\ ctx' = "expired"
  /\ UNCHANGED <<answer, responseCh, fanIn, fanInCh, coord, received, accepted, resultCh, todo>>

-------------------------------------------------------------------------------
(* The fan-in goroutines                                                     *)

FanInTakes(s) ==
  /\ fanIn[s] = "listening"
  /\ responseCh[s] # "none"
  /\ fanIn' = [fanIn EXCEPT ![s] = responseCh[s]]
  /\ responseCh' = [responseCh EXCEPT ![s] = "none"]
  /\ UNCHANGED <<answer, ctx, fanInCh, coord, received, accepted, resultCh, todo>>

\* Seeded fault: the goroutine listens to ResponseCh only.
FanInKeepsListening(s) == FanInTakes(s)

\* The ctx.Done arm; select may pick it although a response is there.
FanInGivesUp(s) ==
  /\ fanIn[s] = "listening"
  /\ ctx # "live"
  /\ fanIn' = [fanIn EXCEPT ![s] = "no"]
  /\ UNCHANGED <<answer, responseCh, ctx, fanInCh, coord, received, accepted, resultCh, todo>>

\* Seeded fault: the channel is one short.
CapacityOneShort == N - 1

Capacity == N

\* The send blocks while the channel is full.
FanInSends(s) ==
  /\ fanIn[s] \in {"yes", "no"}
  /\ Len(fanInCh) < Capacity
  /\ fanInCh' = Append(fanInCh, [idx |-> s, accepted |-> fanIn[s] = "yes"])
  /\ fanIn' = [fanIn EXCEPT ![s] = "ended"]
  /\ UNCHANGED <<answer, responseCh, ctx, coord, received, accepted, resultCh, todo>>

-------------------------------------------------------------------------------
(* The coordinator                                                           *)

Gathering == coord = "gathering" /\ received < N

\* The verdict label: cancel() frees the goroutines that still listen.
Decide(verdict) ==
  /\ coord' = verdict
  /\ ctx' = IF ctx = "live" THEN "cancelled" ELSE ctx
  /\ todo' = Members

\* Seeded fault: the false of a member is received like a true.
ReceiveAny ==
  /\ Gathering
  /\ fanInCh # <<>>
  /\ fanInCh' = Tail(fanInCh)
  /\ received' = received + 1
  /\ accepted' = accepted \cup {Head(fanInCh).idx}
  /\ UNCHANGED <<answer, responseCh, ctx, fanIn, coord, resultCh, todo>>

\* A true is counted, a false ends the room at once.
Receive ==
  /\ Gathering
  /\ fanInCh # <<>>
  /\ fanInCh' = Tail(fanInCh)
  /\ received' = received + 1
  /\ \/ /\ Head(fanInCh).accepted
        /\ accepted' = accepted \cup {Head(fanInCh).idx}
        /\ UNCHANGED <<ctx, coord, todo>>
     \/ /\ ~Head(fanInCh).accepted
        /\ accepted' = accepted \ {Head(fanInCh).idx}
        /\ Decide("cancelling")
  /\ UNCHANGED <<answer, responseCh, fanIn, resultCh>>

\* Seeded fault: the coordinator does not wait for the timeout.
GiveUpAtOnce ==
  /\ Gathering
  /\ Decide("cancelling")
  /\ UNCHANGED <<answer, responseCh, fanIn, fanInCh, received, accepted, resultCh>>

\* The ctx.Done arm, which select may pick although responses are waiting.
GiveUp ==
  /\ Gathering
  /\ ctx # "live"
  /\ Decide("cancelling")
  /\ UNCHANGED <<answer, responseCh, fanIn, fanInCh, received, accepted, resultCh>>

\* The loop ends with every response in: CreateSession, then the results.
Confirm ==
  /\ coord = "gathering"
  /\ received = N
  /\ Decide("confirming")
  /\ UNCHANGED <<answer, responseCh, fanIn, fanInCh, received, accepted, resultCh>>

\* Seeded fault: ResultCh has no buffer, so that the send waits for a handler that
\* has accepted.
SendResultUnbuffered(s) ==
  /\ coord \in {"confirming", "cancelling"}
  /\ s \in todo
  /\ answer[s] = "yes"
  /\ todo' = todo \ {s}
  /\ resultCh' = [resultCh EXCEPT ![s] = IF coord = "confirming" THEN "true" ELSE "false"]
  /\ UNCHANGED <<answer, responseCh, ctx, fanIn, fanInCh, coord, received, accepted>>

SendResult(s) ==
  /\ coord \in {"confirming", "cancelling"}
  /\ s \in todo
  /\ todo' = todo \ {s}
  /\ resultCh' = [resultCh EXCEPT ![s] = IF coord = "confirming" THEN "true" ELSE "false"]
  /\ UNCHANGED <<answer, responseCh, ctx, fanIn, fanInCh, coord, received, accepted>>

ResultsSent ==
  /\ todo = {}
  /\ \/ /\ coord = "confirming"
        /\ coord' = "confirmed"
        /\ UNCHANGED todo
     \/ /\ coord = "cancelling"
        /\ coord' = "requeuing"
        /\ todo' = accepted
  /\ UNCHANGED <<answer, responseCh, ctx, fanIn, fanInCh, received, accepted, resultCh>>

\* ReEnqueue of one counted player, or its refusal.
Requeue(s) ==
  /\ coord = "requeuing"
  /\ s \in todo
  /\ todo' = todo \ {s}
  /\ UNCHANGED <<answer, responseCh, ctx, fanIn, fanInCh, coord, received, accepted, resultCh>>

Return ==
  /\ coord = "requeuing"
  /\ todo = {}
  /\ coord' = "cancelled"
  /\ UNCHANGED <<answer, responseCh, ctx, fanIn, fanInCh, received, accepted, resultCh, todo>>

-------------------------------------------------------------------------------
FanInStep(s) == FanInTakes(s) \/ FanInGivesUp(s) \/ FanInSends(s)

CoordinatorStep ==
  \/ Receive \/ GiveUp \/ Confirm \/ ResultsSent \/ Return
  \/ \E s \in Members : SendResult(s) \/ Requeue(s)

Next ==
  \/ \E s \in Members : FanInStep(s) \/ \E a \in {"yes", "no"} : Answer(s, a)
  \/ Expire
  \/ CoordinatorStep

Spec == Init /\ [][Next]_vars

\* The goroutines run and the timer fires; a handler may never answer.
Fairness ==
  /\ \A s \in Members : WF_vars(FanInStep(s))
  /\ WF_vars(CoordinatorStep)
  /\ WF_vars(Expire)

FairSpec == Spec /\ Fairness

-------------------------------------------------------------------------------
(* Safety                                                                    *)

TypeOK ==
  /\ answer \in [Members -> {"none", "yes", "no"}]
  /\ responseCh \in [Members -> {"none", "yes", "no"}]
  /\ ctx \in {"live", "expired", "cancelled"}
  /\ fanIn \in [Members -> {"listening", "yes", "no", "ended"}]
  /\ fanInCh \in Seq([idx : Members, accepted : BOOLEAN])
  /\ coord \in {"gathering", "confirming", "confirmed", "cancelling", "requeuing", "cancelled"}
  /\ received \in Nat
  /\ accepted \subseteq Members
  /\ resultCh \in [Members -> {"none", "true", "false"}]
  /\ todo \subseteq Members

\* A room is cancelled because a member said no or the timer fired: the coordinator
\* never mistakes the false of a goroutine that it cancelled itself for an answer.
CancelledForAReason ==
  coord \in {"cancelling", "requeuing", "cancelled"} =>
    ctx = "expired" \/ \E s \in Members : answer[s] = "no"

\* "cap = len(players)": no fan-in goroutine ever finds fanInCh full, also when nobody
\* reads it any more.
FanInNeverBlocks ==
  \A s \in Members : fanIn[s] \in {"yes", "no"} => Len(fanInCh) < Capacity

-------------------------------------------------------------------------------
(* The inductive invariant behind the safety theorems                        *)

Over == coord \in {"cancelling", "requeuing", "cancelled"}

\* The response of a player moves from its handler to responseCh, to the goroutine's
\* hand, to fanInCh and to accepted, and is in one of these places only.
ResponseInv ==
  /\ \A s \in Members :
       /\ responseCh[s] \in {"none", answer[s]}
       /\ fanIn[s] = "yes" => answer[s] = "yes"
       /\ fanIn[s] = "no" => answer[s] = "no" \/ ctx # "live"
       /\ s \in accepted => answer[s] = "yes" /\ fanIn[s] = "ended"
  /\ \A i \in 1 .. Len(fanInCh) :
       /\ fanIn[fanInCh[i].idx] = "ended"
       /\ fanInCh[i].idx \notin accepted
       /\ fanInCh[i].accepted => answer[fanInCh[i].idx] = "yes"
       /\ ~fanInCh[i].accepted => answer[fanInCh[i].idx] = "no" \/ ctx # "live"
  /\ \A i, j \in 1 .. Len(fanInCh) : fanInCh[i].idx = fanInCh[j].idx => i = j

\* The verdict follows from what was counted.
CoordInv ==
  /\ coord = "gathering" => received = Cardinality(accepted) /\ ctx # "cancelled" /\ todo = {}
  /\ coord \in {"confirming", "confirmed"} => accepted = Members
  /\ Over => accepted # Members
  /\ coord = "requeuing" => todo \subseteq accepted
  /\ coord \in {"confirmed", "cancelled"} => todo = {}
  /\ \A s \in Members : resultCh[s] = "none" <=>
       coord = "gathering" \/ (coord \in {"confirming", "cancelling"} /\ s \in todo)

RInv == TypeOK /\ ResponseInv /\ CoordInv /\ CancelledForAReason

-------------------------------------------------------------------------------
(* Liveness                                                                  *)

\* The call returns within its timers, whoever answers or does not.
CoordinatorReturns == <>(coord \in {"confirmed", "cancelled"})

\* The call leaves no goroutine behind.
FanInsEnd == <>(\A s \in Members : fanIn[s] = "ended")

-------------------------------------------------------------------------------
(* The promise                                                               *)

Ready == INSTANCE RoomVerdict WITH
  Streams <- Members,
  Rooms <- {Room},
  members <- [m \in {Room} |-> Members],
  answer <- [m \in {Room} |-> answer],
  verdict <- [m \in {Room} |->
    IF coord = "gathering" THEN "none"
    ELSE IF coord \in {"confirming", "confirmed"} THEN "confirmed" ELSE "cancelled"],
  counted <- [m \in {Room} |->
    IF coord \in {"cancelling", "requeuing", "cancelled"} THEN accepted ELSE {}],
  told <- [m \in {Room} |-> {s \in Members : resultCh[s] # "none"}],
  returned <- [m \in {Room} |->
    IF coord \in {"requeuing", "cancelled"} THEN accepted \ todo ELSE {}]

ReadySpec == Ready!Spec
===============================================================================
