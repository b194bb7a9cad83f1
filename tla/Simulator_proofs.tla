--------------------------- MODULE Simulator_proofs ---------------------------
(***************************************************************************)
(* Proofs about Simulator, for any number of bots and rooms: the bots are  *)
(* clients the matchmaking core allows, so what holds of the core holds    *)
(* beside them; and what the server tells them is true.                    *)
(***************************************************************************)
EXTENDS Simulator, Matchmaking_proofs, FiniteSetTheorems, SequenceTheorems

-------------------------------------------------------------------------------
(* The simulator drives the core                                             *)

\* Whatever a bot, a handler or the network does is a step of the core or none.
LEMMA BotsBehave ==
  ASSUME NEW b \in Streams,
         BotStep(b) \/ BotJoins(b) \/ BotHandlerStep(b) \/ PushFails(b) \/ NetworkStep(b) \/ HandleSubmit(b)
  PROVE  Next \/ UNCHANGED vars
<1>1. CASE BotStep(b) \/ HandleSubmit(b) \/ Break(b)
  BY <1>1 DEF BotStep, HandleSubmit, Break, Start, StartFails, ReadReadyCheck, ReadInGame, ReadCancelled,
    RecvFails, ReadReply, SubmitTimesOut, Fail
<1>2. CASE BotJoins(b) \/ BotHandlerStep(b) \/ PushFails(b)
  <2>1. HandlerStep(b)
    BY <1>2 DEF BotJoins, BotHandlerStep, PushFails, Quietly, PushReadyCheck, PushCancelled, PushVerdict,
      HandlerStep
  <2>. QED  BY <2>1 DEF Next
<1>3. CASE AcceptArrives(b)
  BY <1>3 DEF AcceptArrives, Next, ClientStep
<1>4. CASE HandlerSeesEnd(b)
  <2>1. ClientStops(b, "gone")
    BY <1>4 DEF HandlerSeesEnd, Quietly
  <2>2. ClientStep(b)
    BY <2>1 DEF ClientStep
  <2>. QED  BY <2>2 DEF Next
<1>. QED  BY <1>1, <1>2, <1>3, <1>4 DEF NetworkStep

\* A step of the simulator is a step of the core or none.
LEMMA StepOfCore == [SimNext]_simVars => [Next]_vars
<1> SUFFICES ASSUME SimNext PROVE Next \/ UNCHANGED vars
  BY DEF simVars
<1>1. CASE \E m \in Rooms : Quietly(TickStep(m) \/ CoordinatorStep(m))
  BY <1>1 DEF Quietly, Next
<1>2. CASE Summarize
  BY <1>2 DEF Summarize
<1>. QED  BY <1>1, <1>2, BotsBehave DEF SimNext

\* Every run of the stress test is a behaviour of the core: its theorems hold of the
\* server while the bots use it.
THEOREM BotsAreClients == SimSpec => Spec
<1>1. SimInit => Init
  BY DEF SimInit
<1>. QED  BY <1>1, StepOfCore, PTL DEF SimSpec, Spec

-------------------------------------------------------------------------------
(* Types                                                                     *)

\* A message that is pushed is appended, or lost with its stream.
LEMMA PushKeepsType ==
  ASSUME SimTypeOK, NEW b \in Streams, NEW msg \in Messages, Push(b, msg)
  PROVE  SimTypeOK'
<1>1. (IF link[b] = "up" THEN Append(inbox[b], msg) ELSE inbox[b]) \in Seq(Messages)
  BY DEF SimTypeOK
<1>2. inbox' \in [Streams -> Seq(Messages)]
  BY <1>1 DEF Push, SimTypeOK
<1>. QED  BY <1>2 DEF Push, SimTypeOK, trackerVars, tallyVars

\* The simulator starts with types in order.
LEMMA SimTypeInit == SimInit => SimTypeOK
<1> SUFFICES ASSUME SimInit PROVE SimTypeOK
  OBVIOUS
<1>1. inbox \in [Streams -> Seq(Messages)]
  BY DEF SimInit
<1>. QED  BY <1>1 DEF SimInit, SimTypeOK

\* The bots' ends of the streams hold messages, their session is a room they read of.
LEMMA SimTypeStep == IInv /\ SimTypeOK /\ [SimNext]_simVars => SimTypeOK'
<1> SUFFICES ASSUME IInv, SimTypeOK, [SimNext]_simVars PROVE SimTypeOK'
  OBVIOUS
<1>1. ASSUME UNCHANGED <<botVars, trackerVars, tallyVars>> PROVE SimTypeOK'
  BY <1>1 DEF SimTypeOK, botVars, trackerVars, tallyVars
<1>2. ASSUME NEW b \in Streams, Fail(b) PROVE SimTypeOK'
  <2>1. inbox' \in [Streams -> Seq(Messages)]
    <3>1. <<>> \in Seq(Messages)
      OBVIOUS
    <3>. QED  BY <1>2, <3>1 DEF Fail, HangUp, SimTypeOK
  <2>. QED  BY <1>2, <2>1 DEF Fail, HangUp, Goto, SimTypeOK, trackerVars
<1>3. ASSUME NEW b \in Streams, Start(b) \/ Break(b) PROVE SimTypeOK'
  <2>1. /\ bot' \in [Streams -> {"new", "reading", "submitting", "done"}]
        /\ link' \in [Streams -> {"up", "broken", "closed"}]
    <3>1. /\ bot \in [Streams -> {"new", "reading", "submitting", "done"}]
          /\ link \in [Streams -> {"up", "broken", "closed"}]
      BY DEF SimTypeOK
    <3>2. bot' = bot \/ bot' = [bot EXCEPT ![b] = "reading"]
      BY <1>3 DEF Start, Break, Goto
    <3>3. link' = [link EXCEPT ![b] = "up"] \/ link' = [link EXCEPT ![b] = "broken"]
      BY <1>3 DEF Start, Break
    <3>4. bot' \in [Streams -> {"new", "reading", "submitting", "done"}]
      BY <3>1, <3>2
    <3>5. link' \in [Streams -> {"up", "broken", "closed"}]
      BY <3>1, <3>3
    <3>. QED  BY <3>4, <3>5
  <2>2. accepts' \subseteq Streams
    BY <1>3 DEF Start, Break, SimTypeOK
  <2>3. UNCHANGED <<inbox, session, trackerVars, tallyVars>>
    BY <1>3 DEF Start, Break
  <2>. QED  BY <2>1, <2>2, <2>3 DEF SimTypeOK, trackerVars, tallyVars
<1>4. ASSUME NEW b \in Streams, ReadReadyCheck(b) PROVE SimTypeOK'
  <2>1. CASE Fail(b)
    BY <1>2, <2>1
  <2>2. CASE Pop(b) /\ accepts' = accepts \cup {b} /\ UNCHANGED <<vars, bot, link, session, trackerVars, tallyVars>>
    <3>1. Tail(inbox[b]) \in Seq(Messages)
      BY <1>4 DEF ReadReadyCheck, Receives, SimTypeOK
    <3>. QED  BY <2>2, <3>1 DEF Pop, SimTypeOK, trackerVars, tallyVars
  <2>. QED  BY <1>4, <2>1, <2>2 DEF ReadReadyCheck
<1>5. ASSUME NEW b \in Streams, ReadInGame(b) PROVE SimTypeOK'
  <2>1. Head(inbox[b]) \in Messages /\ Head(inbox[b]).status = "IN_GAME"
    BY <1>5 DEF ReadInGame, Receives, SimTypeOK
  <2>2. Head(inbox[b]).match \in Rooms
    BY <2>1 DEF Messages
  <2>3. inbox' \in [Streams -> Seq(Messages)]
    <3>1. <<>> \in Seq(Messages)
      OBVIOUS
    <3>. QED  BY <1>5, <3>1 DEF ReadInGame, HangUp, SimTypeOK
  <2>. QED  BY <1>5, <2>2, <2>3 DEF ReadInGame, HangUp, Goto, SimTypeOK
<1>6. ASSUME NEW b \in Streams, HandleSubmit(b) PROVE SimTypeOK'
  <2>1. recorded' \in [Rooms -> SUBSET Streams]
    <3>1. UNCHANGED recorded \/ \E m \in Rooms : recorded' = [recorded EXCEPT ![m] = @ \cup {b}]
      BY <1>6 DEF HandleSubmit, IInv, TypeOK
    <3>2. CASE UNCHANGED recorded
      BY <3>2 DEF SimTypeOK
    <3>3. ASSUME NEW m \in Rooms, recorded' = [recorded EXCEPT ![m] = @ \cup {b}]
          PROVE  recorded' \in [Rooms -> SUBSET Streams]
      BY <3>3 DEF SimTypeOK
    <3>. QED  BY <3>1, <3>2, <3>3
  <2>2. rpc' \in [Streams -> {"none", "sent", "OK", "refused"}]
    <3>1. \E code \in {"OK", "refused"} : rpc' = [rpc EXCEPT ![b] = code]
      BY <1>6 DEF HandleSubmit
    <3>. QED  BY <3>1 DEF SimTypeOK
  <2>. QED  BY <1>6, <2>1, <2>2 DEF HandleSubmit, SimTypeOK, botVars, tallyVars
<1>7. ASSUME NEW b \in Streams, ReadReply(b) PROVE SimTypeOK'
  <2>1. CASE Fail(b)
    BY <1>2, <2>1
  <2>2. CASE ~Fail(b)
    <3>1. bot' = [bot EXCEPT ![b] = "done"] /\ results' = results + 1
          /\ UNCHANGED <<link, inbox, accepts, session, trackerVars, matched, failed, main>>
      BY <1>7, <2>2 DEF ReadReply, Goto
    <3>2. bot' \in [Streams -> {"new", "reading", "submitting", "done"}] /\ results' \in Nat
      BY <3>1 DEF SimTypeOK
    <3>. QED  BY <3>1, <3>2 DEF SimTypeOK, trackerVars
  <2>. QED  BY <2>1, <2>2
<1>8. ASSUME NEW b \in Streams, BotStep(b) PROVE SimTypeOK'
  BY <1>2, <1>3, <1>4, <1>5, <1>7, <1>8 DEF BotStep, StartFails, ReadCancelled, RecvFails, SubmitTimesOut
<1>9. ASSUME NEW b \in Streams, BotHandlerStep(b) PROVE SimTypeOK'
  <2>1. CASE PushReadyCheck(b)
    <3>1. CASE UNCHANGED <<botVars, trackerVars, tallyVars>>
      BY <1>1, <3>1
    <3>2. CASE Push(b, [status |-> "READY_CHECK", match |-> matchCh[b]])
      <4>1. matchCh[b] \in Rooms
        BY <2>1 DEF PushReadyCheck, TakeEvent, IInv, TypeOK
      <4>2. [status |-> "READY_CHECK", match |-> matchCh[b]] \in Messages
        BY <4>1 DEF Messages
      <4>. QED  BY <3>2, <4>2, PushKeepsType
    <3>. QED  BY <2>1, <3>1, <3>2 DEF PushReadyCheck
  <2>2. CASE PushCancelled(b)
    <3>1. [status |-> "CANCELLED", match |-> None] \in Messages
      BY DEF Messages
    <3>. QED  BY <2>2, <3>1, PushKeepsType DEF PushCancelled
  <2>3. CASE PushVerdict(b)
    <3>1. CASE UNCHANGED <<botVars, trackerVars, tallyVars>>
      BY <1>1, <3>1
    <3>2. CASE Push(b, [status |-> "IN_GAME", match |-> evt[b]])
      <4>1. evt[b] \in Rooms
        BY <2>3 DEF PushVerdict, LearnVerdict, IInv, HandlerInv
      <4>2. [status |-> "IN_GAME", match |-> evt[b]] \in Messages
        BY <4>1 DEF Messages
      <4>. QED  BY <3>2, <4>2, PushKeepsType
    <3>. QED  BY <2>3, <3>1, <3>2 DEF PushVerdict
  <2>4. CASE Quietly(ClientDone(b) \/ AcceptRoom(b) \/ Cleanup(b))
    BY <1>1, <2>4 DEF Quietly
  <2>. QED  BY <1>9, <2>1, <2>2, <2>3, <2>4 DEF BotHandlerStep
<1>10. ASSUME NEW b \in Streams, NetworkStep(b) PROVE SimTypeOK'
  <2>1. CASE AcceptArrives(b)
    BY <2>1 DEF AcceptArrives, SimTypeOK, trackerVars, tallyVars
  <2>2. CASE HandlerSeesEnd(b)
    BY <1>1, <2>2 DEF HandlerSeesEnd, Quietly
  <2>. QED  BY <1>3, <1>10, <2>1, <2>2 DEF NetworkStep
<1>11. CASE Summarize
  BY <1>11 DEF Summarize, SimTypeOK, botVars, trackerVars
<1>12. CASE UNCHANGED simVars
  BY <1>1, <1>12 DEF simVars
<1>. QED
  BY <1>1, <1>6, <1>8, <1>9, <1>10, <1>11, <1>12 DEF SimNext, BotJoins, PushFails, Quietly

-------------------------------------------------------------------------------
(* One bot beside the others                                                 *)

Local(b) == Pipe(b) /\ Link(b) /\ Submission(b) /\ \A m \in Rooms : Member(m, b)

\* A step of somebody else leaves the two ends of b's stream alone, ...
Same(b) ==
  /\ handler'[b] = handler[b] /\ evt'[b] = evt[b] /\ acceptReq'[b] = acceptReq[b]
  /\ bot'[b] = bot[b] /\ link'[b] = link[b] /\ inbox'[b] = inbox[b]
  /\ session'[b] = session[b] /\ rpc'[b] = rpc[b]
  /\ b \in accepts' <=> b \in accepts

\* ... records nothing for b, and creates a session with b only for a handler that waits
\* for the verdict.
Apart(b) ==
  /\ sessions \subseteq sessions' /\ sessions' \subseteq Rooms
  /\ \A m \in sessions : members'[m] = members[m]
  /\ \A m \in sessions' \ sessions : b \in members'[m] => handler[b] = "verdict" /\ evt[b] = m
  /\ \A m \in Rooms :
       /\ b \in recorded'[m] => b \in recorded[m]
       /\ answer'[m][b] = answer[m][b]
       /\ result'[m][b] = "none" => result[m][b] = "none"

\* What holds of a bot survives such a step.
LEMMA Frame ==
  ASSUME NEW b \in Streams, Local(b), Same(b), Apart(b)
  PROVE  Local(b)'
<1>1. Pipe(b)'
  BY DEF Local, Same, Pipe
<1>2. Link(b)'
  BY DEF Local, Same, Link
<1>3. Submission(b)'
  BY DEF Local, Same, Apart, Submission
<1>4. ASSUME NEW m \in Rooms PROVE Member(m, b)'
  <2>1. answer'[m][b] = "yes" /\ result'[m][b] = "none" => handler'[b] = "verdict" /\ evt'[b] = m
    BY <1>4 DEF Local, Same, Apart, Member
  <2>2. ASSUME m \in sessions', b \in members'[m] PROVE Knows(m, b)'
    <3>1. CASE m \in sessions
      BY <1>4, <2>2, <3>1 DEF Local, Same, Apart, Member, Knows
    <3>2. CASE m \notin sessions
      BY <2>2, <3>2 DEF Same, Apart, Knows
    <3>. QED  BY <3>1, <3>2
  <2>. QED  BY <2>1, <2>2 DEF Member
<1>. QED  BY <1>1, <1>2, <1>3, <1>4 DEF Local

\* A bot, its handler and its calls concern no other bot.
LEMMA Alone ==
  ASSUME IInv, SimTypeOK, NEW b \in Streams,
         BotStep(b) \/ BotJoins(b) \/ BotHandlerStep(b) \/ PushFails(b) \/ NetworkStep(b) \/ HandleSubmit(b),
         NEW c \in Streams, c # b
  PROVE  Same(c) /\ Apart(c)
<1> USE DEF IInv, TypeOK, SimTypeOK, vars, poolVars, gatewayVars, roomVars, botVars, trackerVars, tallyVars
<1>1. ASSUME UNCHANGED vars, UNCHANGED recorded PROVE Apart(c)
  BY <1>1 DEF Apart
<1>2. CASE Fail(b)
  BY <1>2, <1>1 DEF Fail, HangUp, Goto, Same
<1>3. CASE Start(b) \/ Break(b)
  BY <1>3, <1>1 DEF Start, Break, Goto, Same
<1>4. CASE ReadReadyCheck(b)
  BY <1>4, <1>1, <1>2 DEF ReadReadyCheck, Pop, Same
<1>5. CASE ReadInGame(b)
  BY <1>5, <1>1 DEF ReadInGame, HangUp, Goto, Same
<1>6. CASE ReadReply(b)
  BY <1>6, <1>1, <1>2 DEF ReadReply, Goto, Same
<1>7. CASE HandleSubmit(b)
  <2>1. Same(c)
    BY <1>7 DEF HandleSubmit, Same
  <2>2. \A m \in Rooms : c \in recorded'[m] => c \in recorded[m]
    <3>1. UNCHANGED recorded \/ \E m \in Rooms : recorded' = [recorded EXCEPT ![m] = @ \cup {b}]
      BY <1>7 DEF HandleSubmit
    <3>2. ASSUME NEW m \in Rooms, recorded' = [recorded EXCEPT ![m] = @ \cup {b}], NEW k \in Rooms, c \in recorded'[k]
          PROVE  c \in recorded[k]
      BY <3>2
    <3>. QED  BY <3>1, <3>2
  <2>. QED  BY <1>7, <2>1, <2>2 DEF HandleSubmit, Apart
<1>8. CASE BotStep(b)
  BY <1>2, <1>3, <1>4, <1>5, <1>6, <1>8 DEF BotStep, StartFails, ReadCancelled, RecvFails, SubmitTimesOut
<1>9. CASE AcceptArrives(b)
  <2>1. CASE ClientAccepts(b)
    BY <1>9, <2>1 DEF AcceptArrives, ClientAccepts, Same, Apart
  <2>2. CASE UNCHANGED vars
    BY <1>1, <1>9, <2>2 DEF AcceptArrives, Same
  <2>. QED  BY <1>9, <2>1, <2>2 DEF AcceptArrives
<1>10. CASE HandlerSeesEnd(b)
  BY <1>10 DEF HandlerSeesEnd, Quietly, ClientStops, Same, Apart
<1>11. CASE BotJoins(b)
  BY <1>11 DEF BotJoins, Quietly, Join, Same, Apart
<1>12. CASE PushFails(b) \/ Quietly(ClientDone(b))
  BY <1>12 DEF PushFails, Quietly, SendFails, ClientDone, Leave, Same, Apart
<1>13. CASE Quietly(Cleanup(b))
  BY <1>13 DEF Quietly, Cleanup, Same, Apart
<1>14. ASSUME NEW msg, Push(b, msg)
       PROVE  /\ bot'[c] = bot[c] /\ link'[c] = link[c] /\ inbox'[c] = inbox[c]
              /\ session'[c] = session[c] /\ rpc'[c] = rpc[c] /\ UNCHANGED <<accepts, recorded>>
  BY <1>14 DEF Push
<1>15. CASE PushReadyCheck(b)
  BY <1>14, <1>15 DEF PushReadyCheck, TakeEvent, Same, Apart
<1>16. ASSUME NEW a, Respond(b, a), evt[b] \in Rooms PROVE \A m \in Rooms : answer'[m][c] = answer[m][c]
  BY <1>16 DEF Respond
<1>17. CASE PushCancelled(b)
  <2>1. evt[b] \in Rooms
    BY <1>17 DEF PushCancelled, DeclineRoom, HandlerInv
  <2>. QED  BY <1>14, <1>16, <1>17, <2>1 DEF PushCancelled, DeclineRoom, Same, Apart
<1>18. CASE Quietly(AcceptRoom(b))
  <2>1. evt[b] \in Rooms
    BY <1>18 DEF Quietly, AcceptRoom, HandlerInv
  <2>. QED  BY <1>16, <1>18, <2>1 DEF Quietly, AcceptRoom, Same, Apart
<1>19. CASE PushVerdict(b)
  BY <1>14, <1>19 DEF PushVerdict, LearnVerdict, Same, Apart
<1>20. CASE BotHandlerStep(b)
  BY <1>12, <1>13, <1>15, <1>17, <1>18, <1>19, <1>20 DEF BotHandlerStep, Quietly
<1>21. CASE NetworkStep(b)
  BY <1>3, <1>9, <1>10, <1>21 DEF NetworkStep
<1>. QED  BY <1>7, <1>8, <1>11, <1>12, <1>20, <1>21

-------------------------------------------------------------------------------
(* The bot's own steps                                                       *)

\* What is known before each of them.
LEMMA LocalOf ==
  ASSUME SimIInv, NEW b \in Streams
  PROVE  IInv /\ SimTypeOK /\ Local(b)
  BY DEF SimIInv, PipeInv, LinkInv, SessionInv, MemberInv, Local

\* A bot that gives up has been cancelled, or it has nothing to lose: its handler is on
\* its way out, or finds the stream broken.
LEMMA FailKeeps ==
  ASSUME SimIInv, NEW b \in Streams, Fail(b),
         link[b] = "up" => handler[b] \in {"idle", "leaving", "done"},
         link[b] = "broken" \/ \A i \in 1 .. Len(inbox[b]) : inbox[b][i].status # "IN_GAME"
  PROVE  Local(b)'
<1>1. IInv /\ SimTypeOK /\ Local(b)
  BY LocalOf
<1>2. /\ UNCHANGED <<vars, session, rpc, recorded>>
      /\ bot'[b] = "done" /\ inbox'[b] = <<>> /\ UNCHANGED accepts
      /\ link'[b] = IF link[b] = "up" THEN "closed" ELSE link[b]
  BY <1>1 DEF Fail, HangUp, Goto, SimTypeOK, trackerVars
<1>3. Len(inbox'[b]) = 0
  BY <1>2
<1>4. UNCHANGED <<handler, evt, acceptReq, answer, result, sessions, members>>
  BY <1>2 DEF vars, gatewayVars, roomVars
<1>5. Pipe(b)'
  BY <1>1, <1>2, <1>3, <1>4 DEF Local, Pipe
<1>6. Link(b)'
  BY <1>1, <1>2, <1>3, <1>4 DEF Local, Link
<1>7. Submission(b)'
  BY <1>1, <1>2, <1>3, <1>4 DEF Local, Submission
<1>8. ASSUME NEW m \in Rooms PROVE Member(m, b)'
  <2>1. Member(m, b)
    BY <1>1, <1>8 DEF Local
  <2>2. Knows(m, b) => Knows(m, b)'
    BY <1>2, <1>4 DEF Knows
  <2>. QED  BY <1>4, <2>1, <2>2 DEF Member
<1>. QED  BY <1>5, <1>6, <1>7, <1>8 DEF Local

\* IN_GAME is alone in the inbox, so it is not there behind another message.
LEMMA HeadOnly ==
  ASSUME SimIInv, NEW b \in Streams, inbox[b] # <<>>
  PROVE  /\ inbox[b] \in Seq(Messages) /\ Len(inbox[b]) \in Nat \ {0} /\ Head(inbox[b]) = inbox[b][1]
         /\ Head(inbox[b]).status # "IN_GAME" => \A i \in 1 .. Len(inbox[b]) : inbox[b][i].status # "IN_GAME"
         /\ Head(inbox[b]).status = "IN_GAME" => Len(inbox[b]) = 1
<1>1. inbox[b] \in Seq(Messages) /\ Pipe(b)
  BY LocalOf DEF SimTypeOK, Local
<1>2. Len(inbox[b]) \in Nat \ {0} /\ Head(inbox[b]) = inbox[b][1]
  BY <1>1, EmptySeq DEF Pipe
<1>3. \A i \in 1 .. Len(inbox[b]) : inbox[b][i].status = "IN_GAME" => Len(inbox[b]) = 1
  BY <1>1 DEF Pipe
<1>. QED  BY <1>1, <1>2, <1>3

\* A bot that has not started, or has stopped reading, has nothing in its inbox.
LEMMA StartKeeps ==
  ASSUME SimIInv, NEW b \in Streams, Start(b)
  PROVE  Local(b)'
<1>1. IInv /\ SimTypeOK /\ Local(b)
  BY LocalOf
<1>2. /\ UNCHANGED <<handler, evt, acceptReq, answer, result, sessions, members, inbox, accepts, session, rpc, recorded>>
      /\ bot[b] = "new" /\ bot'[b] = "reading" /\ link'[b] = "up"
  BY <1>1 DEF Start, Goto, SimTypeOK, trackerVars, vars, gatewayVars, roomVars
<1>3. handler[b] = "idle" /\ inbox[b] = <<>>
  BY <1>1, <1>2 DEF Local, Link, Pipe
<1>4. Pipe(b)' /\ Link(b)' /\ Submission(b)'
  BY <1>1, <1>2, <1>3 DEF Local, Pipe, Link, Submission
<1>5. \A m \in Rooms : b \notin members[m]
  BY <1>1, <1>3 DEF IInv, HandlerInv
<1>6. \A m \in Rooms : Member(m, b)'
  BY <1>1, <1>2, <1>3, <1>5 DEF Local, Member
<1>. QED  BY <1>4, <1>6 DEF Local

\* Nobody has to know of a session over a broken stream.
LEMMA BreakKeeps ==
  ASSUME SimIInv, NEW b \in Streams, Break(b)
  PROVE  Local(b)'
<1>1. IInv /\ SimTypeOK /\ Local(b)
  BY LocalOf
<1>2. /\ UNCHANGED <<handler, evt, acceptReq, answer, result, sessions, members, bot, inbox, session, rpc, recorded>>
      /\ link[b] = "up" /\ link'[b] = "broken" /\ UNCHANGED accepts
  BY <1>1 DEF Break, SimTypeOK, trackerVars, vars, gatewayVars, roomVars
<1>3. Pipe(b)' /\ Link(b)' /\ Submission(b)'
  BY <1>1, <1>2 DEF Local, Pipe, Link, Submission
<1>4. \A m \in Rooms : Member(m, b)'
  BY <1>1, <1>2 DEF Local, Member, Knows
<1>. QED  BY <1>3, <1>4 DEF Local

\* The ready check that was read is the only message before the handler goes on.
LEMMA ReadReadyCheckKeeps ==
  ASSUME SimIInv, NEW b \in Streams, ReadReadyCheck(b)
  PROVE  Local(b)'
<1>1. IInv /\ SimTypeOK /\ Local(b)
  BY LocalOf
<1>2. /\ bot[b] = "reading" /\ inbox[b] # <<>> /\ Head(inbox[b]).status = "READY_CHECK"
      /\ inbox[b] \in Seq(Messages) /\ Len(inbox[b]) \in Nat \ {0}
      /\ \A i \in 1 .. Len(inbox[b]) : inbox[b][i].status # "IN_GAME"
  BY HeadOnly DEF ReadReadyCheck, Receives
<1>3. CASE (link[b] # "up" \/ handler[b] = "done") /\ Fail(b)
  BY <1>2, <1>3, FailKeeps
<1>4. CASE link[b] = "up" /\ Pop(b) /\ accepts' = accepts \cup {b}
           /\ UNCHANGED <<vars, bot, link, session, trackerVars, tallyVars>>
  <2>1. UNCHANGED <<handler, evt, acceptReq, answer, result, sessions, members, bot, link, session, rpc, recorded>>
    BY <1>4 DEF trackerVars, vars, gatewayVars, roomVars
  <2>2. inbox'[b] = Tail(inbox[b]) /\ b \in accepts'
    BY <1>1, <1>4 DEF Pop, SimTypeOK
  <2>3. /\ Len(inbox'[b]) = Len(inbox[b]) - 1
        /\ \A i \in 1 .. Len(inbox'[b]) : inbox'[b][i] = inbox[b][i + 1]
    BY <1>2, <2>2, HeadTailProperties
  <2>4. ASSUME NEW i \in 1 .. Len(inbox'[b])
        PROVE  inbox'[b][i].status # "IN_GAME" /\ i + 1 \in 1 .. Len(inbox[b])
    <3>1. i + 1 \in 1 .. Len(inbox[b])
      BY <1>2, <2>3
    <3>2. inbox'[b][i] = inbox[b][i + 1]
      BY <2>3
    <3>. QED  BY <1>2, <3>1, <3>2
  <2>5. handler[b] \notin {"idle", "waiting", "verdict"}
    BY <1>1, <1>2 DEF Local, Pipe
  <2>6. handler[b] = "readycheck" => acceptReq[b] = None /\ inbox'[b] = <<>>
    <3>1. handler[b] = "readycheck" => acceptReq[b] = None /\ Len(inbox'[b]) = 0
      BY <1>1, <1>2, <2>3 DEF Local, Pipe
    <3>2. Tail(inbox[b]) \in Seq(Messages)
      BY <1>2, HeadTailProperties
    <3>. QED  BY <2>2, <3>1, <3>2, EmptySeq
  <2>7. Pipe(b)'
    BY <2>1, <2>4, <2>5, <2>6 DEF Pipe
  <2>8. Link(b)'
    BY <1>1, <1>2, <2>1, <2>3, <2>4 DEF Local, Link
  <2>9. Submission(b)'
    BY <1>1, <2>1, <2>4 DEF Local, Submission
  <2>10. ASSUME NEW m \in Rooms PROVE Member(m, b)'
    <3>1. Member(m, b)
      BY <1>1, <2>10 DEF Local
    <3>. QED  BY <1>2, <2>1, <3>1 DEF Member, Knows
  <2>. QED  BY <2>7, <2>8, <2>9, <2>10 DEF Local
<1>. QED  BY <1>3, <1>4 DEF ReadReadyCheck

\* The id in IN_GAME is that of the only session the bot is in.
LEMMA ReadInGameKeeps ==
  ASSUME SimIInv, NEW b \in Streams, ReadInGame(b)
  PROVE  Local(b)'
<1>1. IInv /\ SimTypeOK /\ Local(b)
  BY LocalOf
<1>2. /\ bot[b] = "reading" /\ inbox[b] # <<>> /\ Len(inbox[b]) = 1
      /\ inbox[b][1].status = "IN_GAME" /\ Head(inbox[b]) = inbox[b][1]
  BY HeadOnly DEF ReadInGame, Receives
<1>3. inbox[b][1].match \in sessions /\ b \in members[inbox[b][1].match]
  BY <1>1, <1>2 DEF Local, Submission
<1>4. /\ UNCHANGED <<handler, evt, acceptReq, answer, result, sessions, members, recorded>>
      /\ session'[b] = inbox[b][1].match /\ rpc'[b] = "sent" /\ bot'[b] = "submitting"
      /\ link'[b] = IF link[b] = "up" THEN "closed" ELSE link[b]
      /\ inbox'[b] = <<>> /\ UNCHANGED accepts
  BY <1>1, <1>2 DEF ReadInGame, HangUp, Goto, SimTypeOK, vars, gatewayVars, roomVars
<1>5. Len(inbox'[b]) = 0
  BY <1>4
<1>6. handler[b] \in {"leaving", "done"}
  BY <1>1, <1>2 DEF Local, Pipe, IInv, TypeOK
<1>7. Pipe(b)' /\ Link(b)'
  BY <1>1, <1>2, <1>4, <1>5, <1>6 DEF Local, Pipe, Link
<1>8. Submission(b)'
  BY <1>1, <1>2, <1>3, <1>4, <1>5, MatchmakingAssumption DEF Local, Submission, IInv, TypeOK
<1>9. ASSUME NEW m \in Rooms PROVE Member(m, b)'
  <2>1. m \in sessions /\ b \in members[m] => m = inbox[b][1].match
    <3>1. ASSUME NEW k \in Rooms, k \in sessions, b \in members[k] PROVE Keeps(k, b)
      BY <1>1, <3>1 DEF IInv, VerdictInv, Keeps, Claims
    <3>2. inbox[b][1].match \in Rooms
      BY <1>1, <1>3 DEF IInv, TypeOK
    <3>3. Keeps(inbox[b][1].match, b)
      BY <1>3, <3>1, <3>2
    <3>. QED  BY <1>1, <1>9, <3>1, <3>2, <3>3 DEF IInv, OwnerInv
  <2>2. Member(m, b)
    BY <1>1, <1>9 DEF Local
  <2>. QED  BY <1>4, <2>1, <2>2 DEF Member, Knows
<1>. QED  BY <1>7, <1>8, <1>9 DEF Local

\* The tracker knows the session, the member, and no result of it.
LEMMA SubmitKeeps ==
  ASSUME SimIInv, NEW b \in Streams, HandleSubmit(b)
  PROVE  Local(b)'
<1>1. IInv /\ SimTypeOK /\ Local(b)
  BY LocalOf
<1>2. /\ rpc[b] = "sent" /\ session[b] \in sessions /\ session[b] \in Rooms
      /\ b \in members[session[b]] /\ b \notin recorded[session[b]]
  BY <1>1 DEF HandleSubmit, Local, Submission, IInv, TypeOK
<1>3. /\ UNCHANGED <<handler, evt, acceptReq, answer, result, sessions, members, bot, link, inbox, accepts, session>>
      /\ rpc'[b] = "OK"
  BY <1>1, <1>2 DEF HandleSubmit, SimTypeOK, botVars, vars, gatewayVars, roomVars
<1>4. Pipe(b)' /\ Link(b)'
  BY <1>1, <1>3 DEF Local, Pipe, Link
<1>5. Submission(b)'
  BY <1>1, <1>2, <1>3 DEF Local, Submission
<1>6. \A m \in Rooms : Member(m, b)'
  BY <1>1, <1>3 DEF Local, Member, Knows
<1>. QED  BY <1>4, <1>5, <1>6 DEF Local

\* Whatever ends the run of a bot, its handler has said all it had to, or is not listened to.
LEMMA BotKeeps ==
  ASSUME SimIInv, NEW b \in Streams, BotStep(b)
  PROVE  Local(b)'
<1>1. IInv /\ SimTypeOK /\ Local(b)
  BY LocalOf
<1>2. CASE StartFails(b)
  <2>1. bot[b] = "new" /\ handler[b] = "idle"
    BY <1>1, <1>2 DEF StartFails, Local, Link
  <2>2. Len(inbox[b]) = 0
    BY <1>1, <2>1 DEF Local, Pipe
  <2>. QED  BY <1>2, <2>1, <2>2, FailKeeps DEF StartFails
<1>3. CASE ReadCancelled(b)
  <2>1. inbox[b] # <<>> /\ Head(inbox[b]).status = "CANCELLED" /\ Fail(b)
    BY <1>3 DEF ReadCancelled, Receives
  <2>2. \A i \in 1 .. Len(inbox[b]) : inbox[b][i].status # "IN_GAME"
    BY <2>1, HeadOnly
  <2>3. handler[b] \in {"leaving", "done"}
    BY <1>1, <2>1, HeadOnly DEF Local, Link
  <2>. QED  BY <2>1, <2>2, <2>3, FailKeeps
<1>4. CASE RecvFails(b)
  <2>1. CASE link[b] # "up"
    <3>1. link[b] = "broken"
      BY <1>1, <1>4, <2>1 DEF RecvFails, Local, Link, SimTypeOK
    <3>. QED  BY <1>4, <3>1, FailKeeps DEF RecvFails
  <2>2. CASE inbox[b] = <<>> /\ handler[b] = "done"
    <3>1. Len(inbox[b]) = 0
      BY <2>2
    <3>. QED  BY <1>4, <2>2, <3>1, FailKeeps DEF RecvFails
  <2>. QED  BY <1>4, <2>1, <2>2 DEF RecvFails
<1>5. ASSUME bot[b] = "submitting" PROVE link[b] # "up" /\ inbox[b] = <<>> /\ Len(inbox[b]) = 0
  <2>1. link[b] # "up" /\ inbox[b] = <<>>
    BY <1>1, <1>5 DEF Local, Link
  <2>. QED  BY <2>1
<1>6. CASE SubmitTimesOut(b)
  BY <1>5, <1>6, FailKeeps DEF SubmitTimesOut
<1>7. CASE ReadReply(b)
  <2>1. bot[b] = "submitting" /\ rpc[b] # "refused"
    BY <1>1, <1>7 DEF ReadReply, Local, Submission
  <2>2. /\ UNCHANGED <<handler, evt, acceptReq, answer, result, sessions, members, link, inbox, accepts, session, rpc, recorded>>
        /\ bot'[b] = "done"
    BY <1>1, <1>7, <2>1 DEF ReadReply, Goto, SimTypeOK, trackerVars, vars, gatewayVars, roomVars
  <2>3. Pipe(b)' /\ Link(b)' /\ Submission(b)'
    BY <1>1, <1>5, <2>1, <2>2 DEF Local, Pipe, Link, Submission
  <2>4. \A m \in Rooms : Member(m, b)'
    BY <1>1, <2>2 DEF Local, Member, Knows
  <2>. QED  BY <2>3, <2>4 DEF Local
<1>. QED  BY <1>2, <1>3, <1>4, <1>6, <1>7, StartKeeps, ReadReadyCheckKeeps, ReadInGameKeeps DEF BotStep

-------------------------------------------------------------------------------
(* The steps of the handler and of the network                               *)

\* A handler that was not waiting for a verdict is done with its stream.
LEMMA LeavingKeeps ==
  ASSUME SimIInv, NEW b \in Streams, handler[b] \in {"waiting", "leaving"}, handler'[b] \in {"leaving", "done"},
         UNCHANGED <<answer, result, sessions, members, botVars, trackerVars>>
  PROVE  Local(b)'
<1>1. Local(b)
  BY LocalOf
<1>2. Pipe(b)' /\ Link(b)' /\ Submission(b)'
  BY <1>1 DEF Local, Pipe, Link, Submission, botVars, trackerVars
<1>3. \A m \in Rooms : Member(m, b)'
  BY <1>1 DEF Local, Member, Knows, botVars, trackerVars
<1>. QED  BY <1>2, <1>3 DEF Local

\* What a push does to the inbox.
LEMMA Pushed ==
  ASSUME SimTypeOK, NEW b \in Streams, NEW msg \in Messages, Push(b, msg)
  PROVE  /\ UNCHANGED <<bot, link, accepts, session, trackerVars>>
         /\ link[b] # "up" => inbox'[b] = inbox[b]
         /\ link[b] = "up" =>
              /\ inbox'[b] # <<>> /\ Len(inbox[b]) \in Nat /\ Len(inbox'[b]) = Len(inbox[b]) + 1
              /\ \A i \in 1 .. Len(inbox[b]) : inbox'[b][i] = inbox[b][i]
              /\ inbox'[b][Len(inbox[b]) + 1] = msg
<1>1. inbox[b] \in Seq(Messages)
  BY DEF SimTypeOK
<1>2. Len(inbox[b]) \in Nat
  BY <1>1
<1>3. inbox'[b] = IF link[b] = "up" THEN Append(inbox[b], msg) ELSE inbox[b]
  BY DEF Push, SimTypeOK
<1>4. UNCHANGED <<bot, link, accepts, session, trackerVars>>
  BY DEF Push
<1>5. CASE link[b] = "up"
  <2>1. inbox'[b] = Append(inbox[b], msg)
    BY <1>3, <1>5
  <2>. QED  BY <1>1, <1>2, <1>4, <1>5, <2>1, AppendProperties
<1>6. CASE link[b] # "up"
  BY <1>3, <1>4, <1>6
<1>. QED  BY <1>5, <1>6

\* A handler joins once, before anything is pushed.
LEMMA JoinsKeeps ==
  ASSUME SimIInv, NEW b \in Streams, BotJoins(b)
  PROVE  Local(b)'
<1>1. IInv /\ SimTypeOK /\ Local(b)
  BY LocalOf
<1>2. /\ handler[b] = "idle" /\ handler'[b] \in {"waiting", "done"} /\ link[b] # "closed"
      /\ UNCHANGED <<evt, acceptReq, answer, result, sessions, members, botVars, trackerVars>>
  BY <1>1 DEF BotJoins, Quietly, Join, IInv, TypeOK, roomVars
<1>3. Pipe(b)' /\ Link(b)' /\ Submission(b)'
  BY <1>1, <1>2 DEF Local, Pipe, Link, Submission, botVars, trackerVars
<1>4. \A m \in Rooms : Member(m, b)'
  BY <1>1, <1>2 DEF Local, Member, Knows, botVars, trackerVars
<1>. QED  BY <1>3, <1>4 DEF Local

\* READY_CHECK finds the inbox empty, and no click under way.
LEMMA PushReadyCheckKeeps ==
  ASSUME SimIInv, NEW b \in Streams, PushReadyCheck(b)
  PROVE  Local(b)'
<1>1. IInv /\ SimTypeOK /\ Local(b)
  BY LocalOf
<1>2. /\ handler[b] = "waiting" /\ matchCh[b] \in Rooms
      /\ UNCHANGED <<acceptReq, answer, result, sessions, members>>
  BY <1>1 DEF PushReadyCheck, TakeEvent, IInv, TypeOK, roomVars
<1>3. CASE handler'[b] = "leaving" /\ UNCHANGED <<botVars, trackerVars, tallyVars>>
  BY <1>2, <1>3, LeavingKeeps
<1>4. CASE handler'[b] = "readycheck" /\ Push(b, [status |-> "READY_CHECK", match |-> matchCh[b]])
  <2> DEFINE msg == [status |-> "READY_CHECK", match |-> matchCh[b]]
  <2>1. msg \in Messages /\ msg.status = "READY_CHECK"
    BY <1>2 DEF Messages
  <2>2. inbox[b] = <<>> /\ Len(inbox[b]) = 0 /\ b \notin accepts /\ acceptReq[b] = None
    <3>1. inbox[b] = <<>> /\ b \notin accepts /\ acceptReq[b] = None
      BY <1>1, <1>2 DEF Local, Pipe
    <3>. QED  BY <3>1
  <2>3. UNCHANGED <<bot, link, accepts, session, rpc, recorded>>
    BY <1>1, <1>4, <2>1, Pushed DEF trackerVars
  <2>4. \/ inbox'[b] = <<>> /\ Len(inbox'[b]) = 0
        \/ link[b] = "up" /\ Len(inbox'[b]) = 1 /\ inbox'[b][1].status = "READY_CHECK"
    <3>1. CASE link[b] # "up"
      BY <1>1, <1>4, <2>1, <2>2, <3>1, Pushed
    <3>2. CASE link[b] = "up"
      <4>1. Len(inbox'[b]) = Len(inbox[b]) + 1 /\ inbox'[b][Len(inbox[b]) + 1] = msg
        BY <1>1, <1>4, <2>1, <3>2, Pushed
      <4>2. Len(inbox[b]) + 1 = 1
        BY <2>2
      <4>. QED  BY <2>1, <3>2, <4>1, <4>2
    <3>. QED  BY <3>1, <3>2
  <2>5. Pipe(b)'
    BY <1>2, <1>4, <2>2, <2>3, <2>4 DEF Pipe
  <2>6. Link(b)'
    BY <1>1, <1>2, <1>4, <2>3, <2>4 DEF Local, Link
  <2>7. Submission(b)'
    BY <1>1, <1>2, <2>3, <2>4 DEF Local, Submission
  <2>8. \A m \in Rooms : Member(m, b)'
    BY <1>1, <1>2, <2>2, <2>3 DEF Local, Member, Knows
  <2>. QED  BY <2>5, <2>6, <2>7, <2>8 DEF Local
<1>. QED  BY <1>3, <1>4 DEF PushReadyCheck

\* A member that declines is in no session, its answer was not yes.
LEMMA PushCancelledKeeps ==
  ASSUME SimIInv, NEW b \in Streams, PushCancelled(b)
  PROVE  Local(b)'
<1>1. IInv /\ SimTypeOK /\ Local(b)
  BY LocalOf
<1> DEFINE msg == [status |-> "CANCELLED", match |-> None]
<1>2. msg \in Messages /\ msg.status = "CANCELLED"
  BY DEF Messages
<1>3. /\ handler[b] = "readycheck" /\ handler'[b] = "leaving" /\ evt[b] \in Rooms
      /\ Respond(b, "no") /\ UNCHANGED <<result, sessions, members>>
  BY <1>1 DEF PushCancelled, DeclineRoom, IInv, TypeOK, HandlerInv, roomVars
<1>4. \A m \in Rooms : answer'[m][b] = "yes" => answer[m][b] = "yes"
  BY <1>1, <1>3 DEF Respond, IInv, TypeOK
<1>5. UNCHANGED <<bot, link, accepts, session, rpc, recorded>>
  BY <1>1, <1>2, Pushed DEF PushCancelled, trackerVars
<1>6. \A i \in 1 .. Len(inbox[b]) : inbox[b][i].status = "READY_CHECK"
  <2>1. CASE inbox[b] = <<>>
    <3>1. Len(inbox[b]) = 0
      BY <2>1
    <3>. QED  BY <3>1
  <2>2. CASE inbox[b] # <<>>
    BY <1>1, <1>3, <2>2 DEF Local, Pipe
  <2>. QED  BY <2>1, <2>2
<1>7. \A i \in 1 .. Len(inbox'[b]) : inbox'[b][i].status # "IN_GAME"
  BY <1>1, <1>2, <1>6, Pushed DEF PushCancelled
<1>8. link[b] # "up" => inbox'[b] = inbox[b]
  BY <1>1, <1>2, Pushed DEF PushCancelled
<1>9. Pipe(b)'
  BY <1>3, <1>7 DEF Pipe
<1>10. Link(b)'
  BY <1>1, <1>3, <1>5, <1>8 DEF Local, Link
<1>11. Submission(b)'
  BY <1>1, <1>3, <1>5, <1>7 DEF Local, Submission
<1>12. ASSUME NEW m \in Rooms PROVE Member(m, b)'
  <2>1. Member(m, b)
    BY <1>1, <1>12 DEF Local
  <2>2. Knows(m, b) => Knows(m, b)'
    BY <1>3, <1>5, <1>6 DEF Knows
  <2>. QED  BY <1>3, <1>4, <1>12, <2>1, <2>2 DEF Member
<1>. QED  BY <1>9, <1>10, <1>11, <1>12 DEF Local

\* A member of a session hears of it, unless its stream broke; a handler that is told
\* false was in none.
LEMMA PushVerdictKeeps ==
  ASSUME SimIInv, NEW b \in Streams, PushVerdict(b)
  PROVE  Local(b)'
<1>1. IInv /\ SimTypeOK /\ Local(b)
  BY LocalOf
<1> DEFINE msg == [status |-> "IN_GAME", match |-> evt[b]]
<1>2. /\ handler[b] = "verdict" /\ evt[b] \in Rooms /\ result[evt[b]][b] # "none"
      /\ handler'[b] = IF result[evt[b]][b] = "true" THEN "leaving" ELSE "waiting"
      /\ UNCHANGED <<evt, acceptReq, answer, result, sessions, members>>
  BY <1>1 DEF PushVerdict, LearnVerdict, IInv, TypeOK, HandlerInv, roomVars
<1>3. inbox[b] = <<>> /\ Len(inbox[b]) = 0 /\ b \notin accepts /\ acceptReq[b] = None /\ link[b] # "closed" /\ bot[b] # "new"
  <2>1. inbox[b] = <<>> /\ b \notin accepts /\ acceptReq[b] = None /\ link[b] # "closed" /\ bot[b] # "new"
    BY <1>1, <1>2 DEF Local, Pipe, Link
  <2>. QED  BY <2>1
<1>4. \A m \in Rooms : answer'[m][b] = "yes" => result'[m][b] # "none"
  BY <1>1, <1>2 DEF Local, Member
<1>5. CASE handler'[b] = "leaving" /\ Push(b, msg)
  <2>1. msg \in Messages /\ msg.status = "IN_GAME" /\ msg.match = evt[b]
    BY <1>2 DEF Messages
  <2>2. UNCHANGED <<bot, link, accepts, session, rpc, recorded>>
    BY <1>1, <1>5, <2>1, Pushed DEF trackerVars
  <2>3. evt[b] \in sessions /\ b \in members[evt[b]]
    BY <1>1, <1>2, <1>5 DEF IInv, VerdictInv
  <2>4. \/ link[b] = "broken" /\ inbox'[b] = <<>> /\ Len(inbox'[b]) = 0
        \/ link[b] = "up" /\ Len(inbox'[b]) = 1 /\ inbox'[b][1] = msg
    <3>1. CASE link[b] # "up"
      BY <1>1, <1>3, <1>5, <2>1, <3>1, Pushed DEF SimTypeOK
    <3>2. CASE link[b] = "up"
      <4>1. Len(inbox'[b]) = Len(inbox[b]) + 1 /\ inbox'[b][Len(inbox[b]) + 1] = msg
        BY <1>1, <1>5, <2>1, <3>2, Pushed
      <4>2. Len(inbox[b]) + 1 = 1
        BY <1>3
      <4>. QED  BY <3>2, <4>1, <4>2
    <3>. QED  BY <3>1, <3>2
  <2>5. Pipe(b)'
    BY <1>5, <2>4 DEF Pipe
  <2>6. Link(b)'
    BY <1>1, <1>3, <1>5, <2>1, <2>2, <2>4 DEF Local, Link
  <2>7. Submission(b)'
    BY <1>1, <1>2, <2>1, <2>2, <2>3, <2>4 DEF Local, Submission
  <2>8. ASSUME NEW m \in Rooms PROVE Member(m, b)'
    <3>1. Member(m, b)
      BY <1>1, <2>8 DEF Local
    <3>2. Knows(m, b) => Knows(m, b)'
      BY <2>1, <2>2, <2>4 DEF Knows
    <3>. QED  BY <1>2, <1>4, <2>8, <3>1, <3>2 DEF Member
  <2>. QED  BY <2>5, <2>6, <2>7, <2>8 DEF Local
<1>6. CASE handler'[b] = "waiting" /\ UNCHANGED <<botVars, trackerVars, tallyVars>>
  <2>1. evt[b] \notin sessions
    <3>1. result[evt[b]][b] \in {"none", "true", "false"}
      BY <1>1, <1>2 DEF IInv, TypeOK
    <3>2. result[evt[b]][b] = "false"
      BY <1>2, <1>6, <3>1
    <3>. QED  BY <1>1, <1>2, <3>2 DEF IInv, VerdictInv
  <2>2. Pipe(b)' /\ Link(b)' /\ Submission(b)'
    BY <1>1, <1>2, <1>3, <1>6 DEF Local, Pipe, Link, Submission, botVars, trackerVars
  <2>3. ASSUME NEW m \in Rooms PROVE Member(m, b)'
    <3>1. Member(m, b)
      BY <1>1, <2>3 DEF Local
    <3>. QED  BY <1>2, <1>4, <1>6, <2>1, <2>3, <3>1 DEF Member, Knows, botVars
  <2>. QED  BY <2>2, <2>3 DEF Local
<1>. QED  BY <1>5, <1>6 DEF PushVerdict

\* The click was for the ready check in hand, and nothing else is under way.
LEMMA AcceptKeeps ==
  ASSUME SimIInv, NEW b \in Streams, Quietly(AcceptRoom(b))
  PROVE  Local(b)'
<1>1. IInv /\ SimTypeOK /\ Local(b)
  BY LocalOf
<1>2. /\ handler[b] = "readycheck" /\ handler'[b] = "verdict" /\ evt[b] \in Rooms
      /\ acceptReq[b] # None /\ acceptReq'[b] = None /\ Respond(b, "yes")
      /\ UNCHANGED <<evt, result, sessions, members, botVars, trackerVars>>
  BY <1>1 DEF Quietly, AcceptRoom, IInv, TypeOK, HandlerInv, roomVars
<1>3. inbox[b] = <<>> /\ b \notin accepts
  BY <1>1, <1>2 DEF Local, Pipe
<1>4. \A m \in Rooms \ {evt[b]} : answer'[m][b] = answer[m][b]
  BY <1>1, <1>2 DEF Respond, IInv, TypeOK
<1>5. Pipe(b)' /\ Link(b)' /\ Submission(b)'
  BY <1>1, <1>2, <1>3 DEF Local, Pipe, Link, Submission, botVars, trackerVars
<1>6. ASSUME NEW m \in Rooms PROVE Member(m, b)'
  <2>1. Member(m, b)
    BY <1>1, <1>6 DEF Local
  <2>. QED  BY <1>2, <1>4, <1>6, <2>1 DEF Member, Knows, botVars
<1>. QED  BY <1>5, <1>6 DEF Local

\* A click that arrives is for the ready check on the screen: the handler is still in it.
LEMMA AcceptArrivesKeeps ==
  ASSUME SimIInv, NEW b \in Streams, AcceptArrives(b)
  PROVE  Local(b)'
<1>1. IInv /\ SimTypeOK /\ Local(b)
  BY LocalOf
<1>2. /\ b \in accepts /\ b \notin accepts'
      /\ UNCHANGED <<handler, evt, answer, result, sessions, members, bot, link, inbox, session, rpc, recorded>>
  BY DEF AcceptArrives, ClientAccepts, vars, gatewayVars, roomVars, trackerVars
<1>3. handler[b] \notin {"idle", "waiting", "verdict"} /\ (handler[b] = "readycheck" => inbox[b] = <<>>)
  BY <1>1, <1>2 DEF Local, Pipe
<1>4. handler[b] = "readycheck" => acceptReq'[b] \in {None, evt[b]}
  BY <1>1, <1>3 DEF AcceptArrives, ClientAccepts, vars, gatewayVars, Local, Pipe, IInv, TypeOK
<1>5. Pipe(b)'
  BY <1>1, <1>2, <1>3, <1>4 DEF Local, Pipe
<1>6. Link(b)' /\ Submission(b)'
  BY <1>1, <1>2 DEF Local, Link, Submission
<1>7. \A m \in Rooms : Member(m, b)'
  BY <1>1, <1>2 DEF Local, Member, Knows
<1>. QED  BY <1>5, <1>6, <1>7 DEF Local

\* Any step of a bot, its stream or its handler.
LEMMA OwnStepKeeps ==
  ASSUME SimIInv, NEW b \in Streams,
         BotStep(b) \/ BotJoins(b) \/ BotHandlerStep(b) \/ PushFails(b) \/ NetworkStep(b) \/ HandleSubmit(b)
  PROVE  Local(b)'
<1>1. IInv /\ SimTypeOK /\ Local(b)
  BY LocalOf
<1>2. CASE PushFails(b) \/ Quietly(ClientDone(b)) \/ Quietly(Cleanup(b))
  <2>1. /\ handler[b] \in {"waiting", "leaving"} /\ handler'[b] \in {"leaving", "done"}
        /\ UNCHANGED <<answer, result, sessions, members, botVars, trackerVars>>
    BY <1>1, <1>2 DEF PushFails, Quietly, SendFails, ClientDone, Leave, Cleanup, IInv, TypeOK, roomVars
  <2>. QED  BY <2>1, LeavingKeeps
<1>3. CASE BotHandlerStep(b)
  BY <1>2, <1>3, PushReadyCheckKeeps, PushCancelledKeeps, PushVerdictKeeps, AcceptKeeps DEF BotHandlerStep, Quietly
<1>4. CASE HandlerSeesEnd(b)
  <2>1. Same(b) /\ Apart(b)
    BY <1>1, <1>4
    DEF HandlerSeesEnd, Quietly, ClientStops, Same, Apart, botVars, trackerVars, roomVars, IInv, TypeOK
  <2>. QED  BY <1>1, <2>1, Frame
<1>5. CASE NetworkStep(b)
  BY <1>4, <1>5, BreakKeeps, AcceptArrivesKeeps DEF NetworkStep
<1>. QED  BY <1>2, <1>3, <1>5, BotKeeps, JoinsKeeps, SubmitKeeps

-------------------------------------------------------------------------------
(* The rooms' steps                                                          *)

\* A room is confirmed by the accepts of all of its members, so the handler of each waits
\* for the verdict; no other step of a room concerns the bots.
LEMMA RoomStepApart ==
  ASSUME SimIInv, NEW k \in Rooms, Quietly(TickStep(k) \/ CoordinatorStep(k)), NEW b \in Streams
  PROVE  Same(b) /\ Apart(b)
<1>1. IInv /\ SimTypeOK /\ Local(b)
  BY LocalOf
<1> USE DEF IInv, TypeOK, botVars, trackerVars, gatewayVars, roomVars
<1>2. CASE TickStep(k)
  <2>1. ASSUME NEW S, ExtractMatch(k, S) PROVE Same(b) /\ Apart(b)
    <3>1. k \notin sessions
      BY <1>1, <2>1 DEF ExtractMatch, VerdictInv
    <3>. QED  BY <1>1, <2>1, <3>1 DEF ExtractMatch, Quietly, Same, Apart
  <2>2. ASSUME NEW s, Notify(k, s) PROVE Same(b) /\ Apart(b)
    BY <1>1, <2>2 DEF Notify, Quietly, Same, Apart
  <2>3. CASE StartCoordinator(k)
    BY <1>1, <2>3 DEF StartCoordinator, Quietly, Same, Apart
  <2>. QED  BY <1>2, <2>1, <2>2, <2>3 DEF TickStep
<1>3. CASE Confirm(k)
  <2>1. /\ phase[k] = "gathering" /\ accepted[k] = members[k] /\ sessions' = sessions \cup {k}
        /\ UNCHANGED <<gatewayVars, members, answer, result>>
    BY <1>3 DEF Confirm, Decide
  <2>2. b \in members[k] => answer[k][b] = "yes" /\ result[k][b] = "none"
    <3>1. k \notin sessions /\ result[k][b] \in {"none", "true", "false"}
      BY <1>1, <2>1 DEF VerdictInv
    <3>2. result[k][b] = "none"
      BY <1>1, <2>1, <3>1 DEF VerdictInv
    <3>. QED  BY <1>1, <2>1, <3>2 DEF RoomInv
  <2>3. b \in members[k] => handler[b] = "verdict" /\ evt[b] = k
    BY <1>1, <2>2 DEF Local, Member
  <2>. QED  BY <1>1, <2>1, <2>3 DEF Quietly, Same, Apart
<1>4. CASE CoordinatorStep(k) /\ ~Confirm(k)
  <2>1. ASSUME NEW s \in Streams, SendResult(k, s) PROVE Same(b) /\ Apart(b)
    <3>1. \A m \in Rooms : result'[m][b] = "none" => result[m][b] = "none"
      BY <1>1, <2>1 DEF SendResult
    <3>. QED  BY <1>1, <2>1, <3>1 DEF SendResult, Quietly, Same, Apart
  <2>2. ASSUME NEW s \in Streams, CountAccept(k, s) \/ FastFail(k, s) \/ Requeue(k, s) PROVE Same(b) /\ Apart(b)
    BY <1>1, <2>2 DEF CountAccept, FastFail, Decide, Requeue, Quietly, Same, Apart
  <2>3. CASE RoomTimeout(k) \/ ResultsSent(k) \/ CloseRoom(k)
    BY <1>1, <2>3 DEF RoomTimeout, Decide, ResultsSent, CloseRoom, Quietly, Same, Apart
  <2>. QED  BY <1>4, <2>1, <2>2, <2>3 DEF CoordinatorStep
<1>. QED  BY <1>2, <1>3, <1>4 DEF Quietly

-------------------------------------------------------------------------------
(* Theorems                                                                  *)

\* No bot has a stream yet, and nothing is in the pipe.
LEMMA SimIInvInit == SimInit => SimIInv
<1> SUFFICES ASSUME SimInit PROVE SimIInv
  OBVIOUS
<1>1. IInv /\ SimTypeOK
  BY IInvInit, SimTypeInit DEF SimInit
<1>2. \A b \in Streams : inbox[b] = <<>> /\ Len(inbox[b]) = 0
  BY DEF SimInit
<1>3. PipeInv /\ LinkInv /\ SessionInv /\ MemberInv
  BY <1>2 DEF SimInit, Init, PipeInv, Pipe, LinkInv, Link, SessionInv, Submission, MemberInv, Member
<1>. QED  BY <1>1, <1>3 DEF SimIInv

\* Each step leaves every bot's part of the invariant standing: its own, and those of the
\* others.
LEMMA SimIInvStep == SimIInv /\ [SimNext]_simVars => SimIInv'
<1> SUFFICES ASSUME SimIInv, [SimNext]_simVars PROVE SimIInv'
  OBVIOUS
<1>1. IInv' /\ SimTypeOK'
  BY StepOfCore, IInvStep, SimTypeStep DEF SimIInv
<1>2. ASSUME NEW b \in Streams PROVE Local(b)'
  <2>1. IInv /\ SimTypeOK /\ Local(b)
    BY LocalOf
  <2>2. ASSUME NEW c \in Streams,
               BotStep(c) \/ BotJoins(c) \/ BotHandlerStep(c) \/ PushFails(c) \/ NetworkStep(c) \/ HandleSubmit(c)
        PROVE  Local(b)'
    <3>1. CASE b = c
      BY <2>2, <3>1, OwnStepKeeps
    <3>2. CASE b # c
      BY <2>1, <2>2, <3>2, Alone, Frame
    <3>. QED  BY <3>1, <3>2
  <2>3. ASSUME NEW k \in Rooms, Quietly(TickStep(k) \/ CoordinatorStep(k)) PROVE Local(b)'
    BY <2>1, <2>3, RoomStepApart, Frame
  <2>4. CASE Summarize \/ UNCHANGED simVars
    <3>1. Same(b) /\ Apart(b)
      BY <2>1, <2>4 DEF Summarize, simVars, vars, botVars, trackerVars, gatewayVars, roomVars, Same, Apart, IInv, TypeOK
    <3>. QED  BY <2>1, <3>1, Frame
  <2>. QED  BY <2>2, <2>3, <2>4 DEF SimNext
<1>. QED  BY <1>1, <1>2 DEF SimIInv, PipeInv, LinkInv, SessionInv, MemberInv, Local

\* The pipe between a handler and its bot, and what each may know of the other.
THEOREM SimInvariance == SimSpec => []SimIInv
  BY SimIInvInit, SimIInvStep, PTL DEF SimSpec

\* No result that a bot submits is refused: it knows the id of the session that it is in,
\* and submits once.
THEOREM SubmissionsAreWelcome == SimSpec => []SubmissionsWelcome
<1>1. SimIInv => SubmissionsWelcome
  BY DEF SimIInv, SessionInv, Submission, SubmissionsWelcome
<1>. QED  BY <1>1, SimInvariance, PTL

\* The server leaves no bot behind in a session that the bot never hears of, while its
\* stream stands.
THEOREM MembersHearOfIt == SimSpec => []MembersAreMatched
<1>1. SimIInv => MembersAreMatched
  <2> SUFFICES ASSUME SimIInv, NEW m \in sessions, NEW b \in members[m], bot[b] = "done", link[b] # "broken"
               PROVE  session[b] = m
    BY DEF MembersAreMatched
  <2>1. m \in Rooms /\ b \in Streams
    BY DEF SimIInv, IInv, TypeOK
  <2>2. IInv /\ SimTypeOK /\ Local(b)
    BY <2>1, LocalOf
  <2>3. Knows(m, b)
    BY <2>1, <2>2 DEF Local, Member
  <2>4. link[b] = "closed" /\ inbox[b] = <<>>
    BY <2>1, <2>2 DEF Local, Link, SimTypeOK
  <2>5. handler[b] # "verdict" /\ Len(inbox[b]) = 0
    BY <2>2, <2>4 DEF Local, Link
  <2>. QED  BY <2>3, <2>4, <2>5 DEF Knows
<1>. QED  BY <1>1, SimInvariance, PTL

\* A bot's click waits at the server only in the ready check it was made for.
THEOREM ClicksAreForThisRoom == SimSpec => []ClicksMeanThisRoom
<1>1. SimIInv => ClicksMeanThisRoom
  BY DEF SimIInv, PipeInv, Pipe, ClicksMeanThisRoom
<1>. QED  BY <1>1, SimInvariance, PTL

-------------------------------------------------------------------------------
(* The summary                                                               *)

Done == {b \in Streams : bot[b] = "done"}
Matched == {b \in Streams : session[b] # None}
Handled == {b \in Streams : bot[b] = "done" /\ rpc[b] = "OK"}
Recorded == {b \in Streams : \E m \in Rooms : b \in recorded[m]}

\* The counters count bots: those that are done, that know a session, and at most those
\* whose submission was acknowledged before they were.
CountInv ==
  /\ results + failed = Cardinality(Done)
  /\ matched = Cardinality(Matched)
  /\ results <= Cardinality(Handled)
  /\ \A b \in Streams : bot[b] \in {"new", "reading"} => session[b] = None
  /\ \A b \in Streams : rpc[b] = "OK" => b \in Recorded

\* The counters of a bot that moves on without being counted.
LEMMA Uncounted ==
  ASSUME IsFiniteSet(Streams), CountInv, UNCHANGED <<matched, failed, results>>,
         Done' = Done, Matched' = Matched, Handled \subseteq Handled',
         \A b \in Streams : bot'[b] \in {"new", "reading"} => session'[b] = None,
         \A b \in Streams : rpc'[b] = "OK" => b \in Recorded', SimTypeOK
  PROVE  CountInv'
<1>1. IsFiniteSet(Handled') /\ Handled' \subseteq Streams
  BY FS_Subset DEF Handled
<1>2. Cardinality(Handled) <= Cardinality(Handled')
  BY <1>1, FS_Subset
<1>3. Cardinality(Handled) \in Nat /\ Cardinality(Handled') \in Nat
  BY <1>1, FS_Subset, FS_CardinalityType
<1>. QED  BY <1>2, <1>3 DEF CountInv, SimTypeOK

\* An early return is counted once.
LEMMA FailCounts ==
  ASSUME IsFiniteSet(Streams), SimTypeOK, CountInv, NEW b \in Streams, Fail(b), bot[b] # "done"
  PROVE  CountInv'
<1>1. /\ bot' = [bot EXCEPT ![b] = "done"] /\ failed' = failed + 1
      /\ UNCHANGED <<session, rpc, recorded, matched, results>>
  BY DEF Fail, Goto, trackerVars
<1>2. Done' = Done \cup {b} /\ b \notin Done /\ IsFiniteSet(Done)
  BY <1>1, FS_Subset DEF Done, SimTypeOK
<1>3. Cardinality(Done') = Cardinality(Done) + 1
  BY <1>2, FS_AddElement
<1>4. Handled \subseteq Handled' /\ Handled' \subseteq Streams
  BY <1>1 DEF Handled, SimTypeOK
<1>5. /\ Cardinality(Handled) <= Cardinality(Handled')
      /\ Cardinality(Handled) \in Nat /\ Cardinality(Handled') \in Nat /\ Cardinality(Done) \in Nat
  <2>1. IsFiniteSet(Handled')
    BY <1>4, FS_Subset
  <2>. QED  BY <1>2, <1>4, <2>1, FS_Subset, FS_CardinalityType
<1>6. results' + failed' = Cardinality(Done')
  BY <1>1, <1>3, <1>5 DEF CountInv, SimTypeOK
<1>7. results' <= Cardinality(Handled')
  BY <1>1, <1>5 DEF CountInv, SimTypeOK
<1>8. Matched' = Matched /\ Recorded' = Recorded
  BY <1>1 DEF Matched, Recorded
<1>9. \A c \in Streams : bot'[c] \in {"new", "reading"} => bot[c] \in {"new", "reading"}
  BY <1>1 DEF SimTypeOK
<1>. QED  BY <1>1, <1>6, <1>7, <1>8, <1>9 DEF CountInv

\* A bot is matched once, by its first session.
LEMMA MatchCounts ==
  ASSUME IsFiniteSet(Streams), SimTypeOK, CountInv, NEW b \in Streams, ReadInGame(b)
  PROVE  CountInv'
<1>1. Head(inbox[b]).match \in Rooms
  <2>1. inbox[b] \in Seq(Messages) /\ inbox[b] # <<>>
    BY DEF ReadInGame, Receives, SimTypeOK
  <2>2. Head(inbox[b]) \in Messages /\ Head(inbox[b]).status = "IN_GAME"
    BY <2>1 DEF ReadInGame, Receives
  <2>. QED  BY <2>2 DEF Messages
<1>2. /\ bot[b] = "reading" /\ bot' = [bot EXCEPT ![b] = "submitting"] /\ rpc' = [rpc EXCEPT ![b] = "sent"]
      /\ session' = [session EXCEPT ![b] = Head(inbox[b]).match] /\ matched' = matched + 1
      /\ UNCHANGED <<recorded, failed, results>>
  BY DEF ReadInGame, Receives, Goto
<1>3. Matched' = Matched \cup {b} /\ b \notin Matched /\ IsFiniteSet(Matched)
  <2>1. session'[b] # None /\ session[b] = None /\ \A c \in Streams \ {b} : session'[c] = session[c]
    BY <1>1, <1>2, MatchmakingAssumption DEF CountInv, SimTypeOK
  <2>. QED  BY <2>1, FS_Subset DEF Matched
<1>4. Cardinality(Matched') = Cardinality(Matched) + 1
  BY <1>3, FS_AddElement
<1>5. Done' = Done /\ Handled' = Handled /\ Recorded' = Recorded
  BY <1>2 DEF Done, Handled, Recorded, SimTypeOK
<1>6. \A c \in Streams : bot'[c] \in {"new", "reading"} => c # b /\ bot[c] \in {"new", "reading"}
  BY <1>2 DEF SimTypeOK
<1>7. \A c \in Streams : rpc'[c] = "OK" => rpc[c] = "OK"
  BY <1>2 DEF SimTypeOK
<1>8. \A c \in Streams : bot'[c] \in {"new", "reading"} => session'[c] = None
  BY <1>2, <1>6 DEF CountInv, SimTypeOK
<1>. QED  BY <1>2, <1>4, <1>5, <1>7, <1>8 DEF CountInv

\* A result is counted for an acknowledgement that the bot has read.
LEMMA ReplyCounts ==
  ASSUME IsFiniteSet(Streams), SimTypeOK, CountInv, NEW b \in Streams, ReadReply(b)
  PROVE  CountInv'
<1>1. bot[b] = "submitting"
  BY DEF ReadReply
<1>2. CASE Fail(b)
  BY <1>1, <1>2, FailCounts
<1>3. CASE /\ rpc[b] = "OK" /\ Goto(b, "done") /\ results' = results + 1
           /\ UNCHANGED <<vars, link, inbox, accepts, session, trackerVars, matched, failed, main>>
  <2>1. Done' = Done \cup {b} /\ b \notin Done /\ IsFiniteSet(Done)
    BY <1>1, <1>3, FS_Subset DEF Done, Goto, SimTypeOK
  <2>2. Handled' = Handled \cup {b} /\ b \notin Handled /\ IsFiniteSet(Handled)
    BY <1>1, <1>3, FS_Subset DEF Handled, Goto, SimTypeOK, trackerVars
  <2>3. /\ Cardinality(Done') = Cardinality(Done) + 1 /\ Cardinality(Handled') = Cardinality(Handled) + 1
        /\ Cardinality(Done) \in Nat /\ Cardinality(Handled) \in Nat
    BY <2>1, <2>2, FS_AddElement, FS_CardinalityType
  <2>4. results' + failed' = Cardinality(Done') /\ results' <= Cardinality(Handled')
    BY <1>3, <2>3 DEF CountInv, SimTypeOK
  <2>5. Matched' = Matched /\ Recorded' = Recorded
    BY <1>3 DEF Matched, Recorded, trackerVars
  <2>6. \A c \in Streams : bot'[c] \in {"new", "reading"} => bot[c] \in {"new", "reading"}
    BY <1>3 DEF Goto, SimTypeOK
  <2>. QED  BY <1>3, <2>4, <2>5, <2>6 DEF CountInv, trackerVars
<1>. QED  BY <1>2, <1>3 DEF ReadReply

\* An acknowledged submission has been recorded.
LEMMA SubmitCounts ==
  ASSUME IsFiniteSet(Streams), IInv, SimTypeOK, CountInv, NEW b \in Streams, HandleSubmit(b)
  PROVE  CountInv'
<1>1. rpc[b] = "sent" /\ UNCHANGED <<bot, session, matched, failed, results>>
  BY DEF HandleSubmit, botVars, tallyVars
<1>2. CASE \E m \in Rooms : recorded' = [recorded EXCEPT ![m] = @ \cup {b}] /\ rpc' = [rpc EXCEPT ![b] = "OK"]
  <2>1. PICK m \in Rooms : recorded' = [recorded EXCEPT ![m] = @ \cup {b}] /\ rpc' = [rpc EXCEPT ![b] = "OK"]
    BY <1>2
  <2>2. b \in recorded'[m] /\ \A k \in Rooms : recorded[k] \subseteq recorded'[k]
    BY <2>1 DEF SimTypeOK
  <2>3. b \in Recorded' /\ Recorded \subseteq Recorded'
    BY <2>2 DEF Recorded
  <2>4. \A c \in Streams : rpc'[c] = "OK" => c = b \/ rpc[c] = "OK"
    BY <2>1 DEF SimTypeOK
  <2>5. Done' = Done /\ Matched' = Matched /\ Handled \subseteq Handled'
    BY <1>1, <2>1 DEF Done, Matched, Handled, SimTypeOK
  <2>6. \A c \in Streams : rpc'[c] = "OK" => c \in Recorded'
    BY <2>3, <2>4 DEF CountInv
  <2>. QED  BY <1>1, <2>5, <2>6, Uncounted DEF CountInv
<1>3. CASE UNCHANGED recorded /\ rpc' = [rpc EXCEPT ![b] = "refused"]
  <2>1. \A c \in Streams : (rpc'[c] = "OK" <=> rpc[c] = "OK")
    BY <1>1, <1>3 DEF SimTypeOK
  <2>2. Done' = Done /\ Matched' = Matched /\ Handled' = Handled /\ Recorded' = Recorded
    BY <1>1, <1>3, <2>1 DEF Done, Matched, Handled, Recorded
  <2>. QED  BY <1>1, <2>1, <2>2, Uncounted DEF CountInv
<1>. QED  BY <1>2, <1>3 DEF HandleSubmit, IInv, TypeOK

\* The rest of the simulation is not counted.
LEMMA CountStep ==
  ASSUME IsFiniteSet(Streams), IInv, SimTypeOK, CountInv, [SimNext]_simVars
  PROVE  CountInv'
<1>1. ASSUME UNCHANGED <<bot, session, rpc, recorded, matched, failed, results>> PROVE CountInv'
  BY <1>1 DEF CountInv, Done, Matched, Handled, Recorded
<1>2. ASSUME NEW b \in Streams, BotStep(b) PROVE CountInv'
  <2>1. CASE Start(b)
    <3>1. /\ bot[b] = "new" /\ bot' = [bot EXCEPT ![b] = "reading"]
          /\ UNCHANGED <<session, rpc, recorded, matched, failed, results>>
      BY <2>1 DEF Start, Goto, trackerVars, tallyVars
    <3>2. Done' = Done /\ Handled' = Handled /\ Matched' = Matched /\ Recorded' = Recorded
      BY <3>1 DEF Done, Handled, Matched, Recorded, SimTypeOK
    <3>3. \A c \in Streams : bot'[c] \in {"new", "reading"} => bot[c] \in {"new", "reading"}
      BY <3>1 DEF SimTypeOK
    <3>. QED  BY <3>1, <3>2, <3>3 DEF CountInv
  <2>2. CASE bot[b] # "done" /\ Fail(b)
    BY <2>2, FailCounts
  <2>3. CASE ReadReadyCheck(b)
    BY <1>1, <2>2, <2>3 DEF ReadReadyCheck, Receives, trackerVars, tallyVars
  <2>. QED
    BY <1>2, <2>1, <2>2, <2>3, MatchCounts, ReplyCounts
    DEF BotStep, StartFails, ReadCancelled, Receives, RecvFails, SubmitTimesOut
<1>3. ASSUME NEW b \in Streams, BotJoins(b) \/ BotHandlerStep(b) \/ PushFails(b) PROVE CountInv'
  BY <1>1, <1>3
  DEF BotJoins, BotHandlerStep, PushFails, Quietly, PushReadyCheck, PushCancelled, PushVerdict, Push,
      botVars, trackerVars, tallyVars
<1>4. ASSUME NEW b \in Streams, NetworkStep(b) PROVE CountInv'
  BY <1>1, <1>4 DEF NetworkStep, Break, AcceptArrives, HandlerSeesEnd, Quietly, botVars, trackerVars, tallyVars
<1>5. CASE \E m \in Rooms : Quietly(TickStep(m) \/ CoordinatorStep(m))
  BY <1>1, <1>5 DEF Quietly, botVars, trackerVars, tallyVars
<1>6. CASE Summarize \/ UNCHANGED simVars
  BY <1>1, <1>6 DEF Summarize, simVars, botVars, trackerVars, tallyVars
<1>. QED  BY <1>2, <1>3, <1>4, <1>5, <1>6, SubmitCounts DEF SimNext

\* The summary accounts for every bot, and does not claim a result the tracker does not
\* have, for any finite number of bots.
THEOREM SummaryAddsUp == ASSUME IsFiniteSet(Streams) PROVE SimSpec => []TallyAddsUp
<1>1. SimInit => CountInv
  <2> SUFFICES ASSUME SimInit PROVE CountInv
    OBVIOUS
  <2>1. Done = {} /\ Matched = {} /\ Handled = {}
    BY DEF SimInit, Done, Matched, Handled
  <2>. QED  BY <2>1, FS_EmptySet DEF SimInit, CountInv
<1>2. SimIInv /\ CountInv /\ [SimNext]_simVars => CountInv'
  BY CountStep DEF SimIInv
<1>3. SimIInv /\ CountInv => TallyAddsUp
  <2> SUFFICES ASSUME SimIInv, CountInv PROVE TallyAddsUp
    OBVIOUS
  <2>1. Handled \subseteq Recorded /\ IsFiniteSet(Recorded)
    BY FS_Subset DEF CountInv, Handled, Recorded
  <2>2. Cardinality(Handled) <= Cardinality(Recorded) /\ Cardinality(Recorded) \in Nat /\ Cardinality(Handled) \in Nat
    BY <2>1, FS_Subset, FS_CardinalityType
  <2>3. results <= Cardinality(Recorded)
    BY <2>2 DEF CountInv, SimIInv, SimTypeOK
  <2>. QED  BY <2>3 DEF CountInv, TallyAddsUp, Done, Matched, Recorded
<1>. QED  BY <1>1, <1>2, <1>3, SimInvariance, PTL DEF SimSpec

===============================================================================
