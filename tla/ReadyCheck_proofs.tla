--------------------------- MODULE ReadyCheck_proofs ---------------------------
(***************************************************************************)
(* Proofs about ReadyCheck, for rooms of any size: the inductive invariant *)
(* of the coordinator and its fan-in goroutines, that the channel between  *)
(* them never fills, and that the call does what RoomVerdict promises.     *)
(***************************************************************************)
EXTENDS ReadyCheck, FiniteSetTheorems, SequenceTheorems, TLAPS

-------------------------------------------------------------------------------
(* Types                                                                     *)

Entry == [idx : Members, accepted : BOOLEAN]

\* Nothing is answered or counted in the initial state.
LEMMA RInvInit == Init => RInv
<1> SUFFICES ASSUME Init PROVE RInv
  OBVIOUS
<1>1. Len(fanInCh) = 0 /\ fanInCh \in Seq([idx : Members, accepted : BOOLEAN])
  BY DEF Init
<1>2. Cardinality(accepted) = 0
  BY FS_EmptySet DEF Init
<1>3. TypeOK
  BY <1>1 DEF Init, TypeOK
<1>4. ResponseInv
  BY <1>1 DEF Init, ResponseInv
<1>5. CoordInv
  BY <1>2 DEF Init, CoordInv, Over
<1>. QED  BY <1>3, <1>4, <1>5 DEF Init, RInv, CancelledForAReason

\* What FanInSends does to the channel.
LEMMA SendsOne ==
  ASSUME TypeOK, NEW s \in Members, FanInSends(s)
  PROVE  /\ fanInCh' \in Seq(Entry) /\ Len(fanInCh) \in Nat /\ Len(fanInCh') = Len(fanInCh) + 1
         /\ \A i \in 1 .. Len(fanInCh) : fanInCh'[i] = fanInCh[i]
         /\ fanInCh'[Len(fanInCh) + 1].idx = s
         /\ fanInCh'[Len(fanInCh) + 1].accepted <=> fanIn[s] = "yes"
<1> DEFINE e == [idx |-> s, accepted |-> fanIn[s] = "yes"]
<1>1. e \in Entry /\ e.idx = s /\ (e.accepted <=> fanIn[s] = "yes")
  BY DEF Entry
<1>2. fanInCh \in Seq(Entry) /\ fanInCh' = Append(fanInCh, e)
  BY DEF TypeOK, Entry, FanInSends
<1>3. Len(fanInCh) \in Nat
  BY <1>2
<1> HIDE DEF e
<1>. QED  BY <1>1, <1>2, <1>3, AppendProperties

\* What Receive does to the channel.
LEMMA ReceivesOne ==
  ASSUME TypeOK, Receive
  PROVE  /\ fanInCh' \in Seq(Entry) /\ Len(fanInCh) \in Nat \ {0} /\ Len(fanInCh') = Len(fanInCh) - 1
         /\ \A i \in 1 .. Len(fanInCh') : i + 1 \in 1 .. Len(fanInCh) /\ fanInCh'[i] = fanInCh[i + 1]
         /\ Head(fanInCh) = fanInCh[1] /\ fanInCh[1] \in Entry
<1>1. fanInCh \in Seq(Entry) /\ fanInCh # <<>> /\ fanInCh' = Tail(fanInCh)
  BY DEF TypeOK, Entry, Receive
<1>2. Len(fanInCh) \in Nat \ {0}
  BY <1>1, EmptySeq
<1>3. Tail(fanInCh) \in Seq(Entry) /\ Len(Tail(fanInCh)) = Len(fanInCh) - 1
      /\ \A i \in 1 .. Len(Tail(fanInCh)) : Tail(fanInCh)[i] = fanInCh[i + 1]
  BY <1>1, HeadTailProperties
<1>4. Head(fanInCh) = fanInCh[1] /\ fanInCh[1] \in Entry
  BY <1>1, <1>2
<1>. QED  BY <1>1, <1>2, <1>3, <1>4

\* Every channel and control state keeps its type.
LEMMA TypeStep == TypeOK /\ [Next]_vars => TypeOK'
<1> SUFFICES ASSUME TypeOK, [Next]_vars PROVE TypeOK'
  OBVIOUS
<1>1. ASSUME NEW s \in Members, FanInSends(s) PROVE TypeOK'
  BY <1>1, SendsOne DEF FanInSends, TypeOK, Entry
<1>2. ASSUME NEW s \in Members, FanInTakes(s) \/ FanInGivesUp(s) PROVE TypeOK'
  BY <1>2 DEF FanInTakes, FanInGivesUp, TypeOK
<1>3. ASSUME NEW s \in Members, NEW a \in {"yes", "no"}, Answer(s, a) PROVE TypeOK'
  BY <1>3 DEF Answer, TypeOK
<1>4. CASE Expire
  BY <1>4 DEF Expire, TypeOK
<1>5. CASE Receive
  <2>1. Head(fanInCh).idx \in Members
    BY <1>5, ReceivesOne DEF Entry
  <2>2. fanInCh' \in Seq([idx : Members, accepted : BOOLEAN])
    BY <1>5, ReceivesOne DEF Entry
  <2>. QED  BY <1>5, <2>1, <2>2 DEF Receive, Decide, TypeOK
<1>6. CASE GiveUp \/ Confirm \/ ResultsSent \/ Return
  BY <1>6 DEF GiveUp, Confirm, Decide, ResultsSent, Return, TypeOK
<1>7. ASSUME NEW s \in Members, SendResult(s) \/ Requeue(s) PROVE TypeOK'
  BY <1>7 DEF SendResult, Requeue, TypeOK
<1>8. CASE UNCHANGED vars
  BY <1>8 DEF vars, TypeOK
<1>. QED  BY <1>1, <1>2, <1>3, <1>4, <1>5, <1>6, <1>7, <1>8 DEF Next, FanInStep, CoordinatorStep

-------------------------------------------------------------------------------
(* The way of a response                                                     *)

\* Every entry of the channel names a member.
LEMMA EntryType ==
  ASSUME TypeOK, NEW i \in 1 .. Len(fanInCh)
  PROVE  fanInCh[i].idx \in Members /\ fanInCh[i].accepted \in BOOLEAN
<1>1. fanInCh \in Seq(Entry)
  BY DEF TypeOK, Entry
<1>2. fanInCh[i] \in Entry
  BY <1>1
<1>. QED  BY <1>2 DEF Entry

\* An answer goes to a channel that is still empty, and stays what it is.
LEMMA AnswerResponse ==
  ASSUME RInv, NEW s \in Members, NEW a \in {"yes", "no"}, Answer(s, a)
  PROVE  ResponseInv'
<1>1. /\ answer[s] = "none" /\ answer'[s] = a /\ responseCh'[s] = a
      /\ \A t \in Members \ {s} : answer'[t] = answer[t] /\ responseCh'[t] = responseCh[t]
      /\ UNCHANGED <<ctx, fanIn, fanInCh, accepted>>
  BY DEF RInv, TypeOK, Answer
<1>2. \A t \in Members : answer[t] # "none" => answer'[t] = answer[t]
  BY <1>1
<1>3. \A i \in 1 .. Len(fanInCh) : fanInCh[i].idx \in Members
  BY EntryType DEF RInv
<1>. QED  BY <1>1, <1>2, <1>3 DEF RInv, ResponseInv

\* A response moves to the hand of the goroutine, or the goroutine makes up a false.
LEMMA TakesResponse ==
  ASSUME RInv, NEW s \in Members, FanInTakes(s) \/ FanInGivesUp(s)
  PROVE  ResponseInv'
<1>1. /\ fanIn[s] = "listening"
      /\ \/ fanIn'[s] = answer[s]
         \/ fanIn'[s] = "no" /\ ctx # "live"
      /\ \A t \in Members \ {s} : fanIn'[t] = fanIn[t]
      /\ \A t \in Members : responseCh'[t] \in {"none", responseCh[t]}
      /\ UNCHANGED <<answer, ctx, fanInCh, accepted>>
  BY DEF RInv, TypeOK, ResponseInv, FanInTakes, FanInGivesUp
<1>2. \A i \in 1 .. Len(fanInCh) : fanInCh[i].idx \in Members
  BY EntryType DEF RInv
<1>. QED  BY <1>1, <1>2 DEF RInv, ResponseInv

\* The goroutine sends once: it is neither counted nor in the channel already.
LEMMA SendsResponse ==
  ASSUME RInv, NEW s \in Members, FanInSends(s)
  PROVE  ResponseInv'
<1> DEFINE n == Len(fanInCh) + 1
<1>1. /\ fanIn[s] \in {"yes", "no"} /\ fanIn'[s] = "ended"
      /\ \A t \in Members \ {s} : fanIn'[t] = fanIn[t]
      /\ UNCHANGED <<answer, responseCh, ctx, accepted>>
  BY DEF RInv, TypeOK, FanInSends
<1>2. /\ Len(fanInCh) \in Nat /\ Len(fanInCh') = n
      /\ \A i \in 1 .. Len(fanInCh) : fanInCh'[i] = fanInCh[i]
      /\ fanInCh'[n].idx = s /\ (fanInCh'[n].accepted <=> fanIn[s] = "yes")
  BY SendsOne DEF RInv
<1>3. \A i \in 1 .. n : i = n \/ i \in 1 .. Len(fanInCh)
  BY <1>2
<1>4. \A i \in 1 .. Len(fanInCh) : fanInCh[i].idx \in Members /\ fanInCh[i].idx # s
  BY <1>1, EntryType DEF RInv, ResponseInv
<1>5. s \notin accepted
  BY <1>1 DEF RInv, ResponseInv
<1> HIDE DEF n
<1>6. \A t \in Members :
        /\ responseCh'[t] \in {"none", answer'[t]}
        /\ fanIn'[t] = "yes" => answer'[t] = "yes"
        /\ fanIn'[t] = "no" => answer'[t] = "no" \/ ctx' # "live"
        /\ t \in accepted' => answer'[t] = "yes" /\ fanIn'[t] = "ended"
  BY <1>1, <1>5 DEF RInv, ResponseInv
<1>7. ASSUME NEW i \in 1 .. n
      PROVE  /\ fanIn'[fanInCh'[i].idx] = "ended"
             /\ fanInCh'[i].idx \notin accepted'
             /\ fanInCh'[i].accepted => answer'[fanInCh'[i].idx] = "yes"
             /\ ~fanInCh'[i].accepted => answer'[fanInCh'[i].idx] = "no" \/ ctx' # "live"
  <2>1. CASE i = n
    BY <1>1, <1>2, <1>5, <2>1 DEF RInv, ResponseInv
  <2>2. CASE i \in 1 .. Len(fanInCh)
    BY <1>1, <1>2, <1>4, <2>2 DEF RInv, ResponseInv
  <2>. QED  BY <1>3, <2>1, <2>2
<1>8. \A i, j \in 1 .. n : fanInCh'[i].idx = fanInCh'[j].idx => i = j
  BY <1>2, <1>3, <1>4 DEF RInv, ResponseInv
<1>. QED  BY <1>2, <1>6, <1>7, <1>8 DEF ResponseInv

\* The head of the channel is counted for the first time.
LEMMA ReceiveResponse ==
  ASSUME RInv, Receive
  PROVE  ResponseInv'
<1> DEFINE p == fanInCh[1].idx
<1>1. /\ Len(fanInCh) \in Nat \ {0} /\ Len(fanInCh') = Len(fanInCh) - 1 /\ Head(fanInCh) = fanInCh[1]
      /\ \A i \in 1 .. Len(fanInCh') : i + 1 \in 1 .. Len(fanInCh) /\ fanInCh'[i] = fanInCh[i + 1]
  BY ReceivesOne DEF RInv
<1>2. 1 \in 1 .. Len(fanInCh)
  BY <1>1
<1>3. /\ p \in Members /\ p \notin accepted /\ fanIn[p] = "ended"
      /\ fanInCh[1].accepted => answer[p] = "yes"
  BY <1>2, EntryType DEF RInv, ResponseInv
<1>4. /\ \A t \in accepted' : t \in accepted \/ (t = p /\ fanInCh[1].accepted)
      /\ UNCHANGED <<answer, responseCh, fanIn>> /\ (ctx # "live" => ctx' # "live")
  BY <1>1 DEF Receive, Decide
<1>5. \A i \in 1 .. Len(fanInCh') : i \in Nat /\ fanInCh'[i].idx # p
  BY <1>1, <1>2 DEF RInv, ResponseInv
<1> HIDE DEF p
<1>6. \A t \in Members :
        /\ responseCh'[t] \in {"none", answer'[t]}
        /\ fanIn'[t] = "yes" => answer'[t] = "yes"
        /\ fanIn'[t] = "no" => answer'[t] = "no" \/ ctx' # "live"
        /\ t \in accepted' => answer'[t] = "yes" /\ fanIn'[t] = "ended"
  BY <1>3, <1>4 DEF RInv, ResponseInv
<1>7. ASSUME NEW i \in 1 .. Len(fanInCh')
      PROVE  /\ fanIn'[fanInCh'[i].idx] = "ended"
             /\ fanInCh'[i].idx \notin accepted'
             /\ fanInCh'[i].accepted => answer'[fanInCh'[i].idx] = "yes"
             /\ ~fanInCh'[i].accepted => answer'[fanInCh'[i].idx] = "no" \/ ctx' # "live"
  <2>1. i + 1 \in 1 .. Len(fanInCh) /\ fanInCh'[i] = fanInCh[i + 1] /\ fanInCh'[i].idx # p
    BY <1>1, <1>5, <1>7
  <2>. QED  BY <1>4, <2>1 DEF RInv, ResponseInv
<1>8. \A i, j \in 1 .. Len(fanInCh') : fanInCh'[i].idx = fanInCh'[j].idx => i = j
  <2>. SUFFICES ASSUME NEW i \in 1 .. Len(fanInCh'), NEW j \in 1 .. Len(fanInCh'), fanInCh'[i].idx = fanInCh'[j].idx
                PROVE  i = j
    OBVIOUS
  <2>1. /\ i + 1 \in 1 .. Len(fanInCh) /\ fanInCh'[i] = fanInCh[i + 1]
        /\ j + 1 \in 1 .. Len(fanInCh) /\ fanInCh'[j] = fanInCh[j + 1]
    BY <1>1
  <2>2. i + 1 = j + 1
    BY <2>1 DEF RInv, ResponseInv
  <2>. QED  BY <1>5, <2>2
<1>. QED  BY <1>6, <1>7, <1>8 DEF ResponseInv

\* The other steps leave the responses where they are.
LEMMA OtherResponse ==
  ASSUME RInv, UNCHANGED <<answer, responseCh, fanIn, fanInCh, accepted>>, ctx # "live" => ctx' # "live"
  PROVE  ResponseInv'
  BY DEF RInv, ResponseInv

\* Whatever the step, a response is in one place.
LEMMA ResponseStep == RInv /\ [Next]_vars => ResponseInv'
<1> SUFFICES ASSUME RInv, [Next]_vars PROVE ResponseInv'
  OBVIOUS
<1>1. CASE Expire
  BY <1>1, OtherResponse DEF Expire
<1>2. CASE GiveUp \/ Confirm \/ ResultsSent \/ Return
  BY <1>2, OtherResponse DEF GiveUp, Confirm, Decide, ResultsSent, Return
<1>3. ASSUME NEW s \in Members, SendResult(s) \/ Requeue(s) PROVE ResponseInv'
  BY <1>3, OtherResponse DEF SendResult, Requeue
<1>4. CASE UNCHANGED vars
  BY <1>4, OtherResponse DEF vars
<1>. QED
  BY <1>1, <1>2, <1>3, <1>4, AnswerResponse, TakesResponse, SendsResponse, ReceiveResponse
  DEF Next, FanInStep, CoordinatorStep

-------------------------------------------------------------------------------
(* The verdict                                                               *)

Reasoned == CoordInv /\ CancelledForAReason

\* The handlers and goroutines do not touch the verdict; an answer is never withdrawn and
\* the context never becomes live again.
LEMMA OthersReason ==
  ASSUME RInv, UNCHANGED <<coord, received, accepted, resultCh, todo>>,
         \A s \in Members : answer[s] = "no" => answer'[s] = "no",
         ctx' = ctx \/ (ctx = "live" /\ ctx' = "expired")
  PROVE  Reasoned'
  BY DEF RInv, CoordInv, CancelledForAReason, Over, Reasoned

\* The count is that of the members counted, each once.
LEMMA ReceiveReasons ==
  ASSUME RInv, Receive
  PROVE  Reasoned'
<1> DEFINE p == fanInCh[1].idx
<1>1. 1 \in 1 .. Len(fanInCh) /\ Head(fanInCh) = fanInCh[1]
  BY ReceivesOne DEF RInv
<1>2. /\ p \in Members /\ p \notin accepted
      /\ ~fanInCh[1].accepted => answer[p] = "no" \/ ctx # "live"
  BY <1>1, EntryType DEF RInv, ResponseInv
<1>3. /\ coord = "gathering" /\ received = Cardinality(accepted) /\ ctx \in {"live", "expired"} /\ todo = {}
      /\ \A s \in Members : resultCh[s] = "none"
      /\ UNCHANGED <<answer, resultCh>> /\ received' = received + 1
  BY DEF RInv, TypeOK, CoordInv, Receive, Gathering
<1>4. CASE accepted' = accepted \cup {p} /\ UNCHANGED <<ctx, coord, todo>>
  <2>1. Cardinality(accepted \cup {p}) = Cardinality(accepted) + 1
    <3>1. IsFiniteSet(accepted)
      BY ReadyCheckAssumption, FS_Subset DEF RInv, TypeOK
    <3>. QED  BY <1>2, <3>1, FS_AddElement
  <2>2. received' = Cardinality(accepted')
    BY <1>3, <1>4, <2>1
  <2>. QED  BY <1>3, <1>4, <2>2 DEF CoordInv, CancelledForAReason, Over, Reasoned
<1>5. CASE ~fanInCh[1].accepted /\ accepted' = accepted \ {p} /\ Decide("cancelling")
  <2>1. ctx' = "expired" \/ answer[p] = "no"
    BY <1>2, <1>3, <1>5 DEF Decide
  <2>2. accepted' # Members /\ todo' = Members /\ coord' = "cancelling"
    BY <1>2, <1>5 DEF Decide
  <2>3. CancelledForAReason'
    BY <1>2, <1>3, <2>1 DEF CancelledForAReason
  <2>4. CoordInv'
    BY <1>3, <2>2 DEF CoordInv, Over
  <2>. QED  BY <2>3, <2>4 DEF Reasoned
<1>. QED  BY <1>1, <1>4, <1>5 DEF Receive

\* Fewer than all have been counted when the context ends the loop.
LEMMA GiveUpReasons ==
  ASSUME RInv, GiveUp
  PROVE  Reasoned'
<1>1. /\ coord = "gathering" /\ received = Cardinality(accepted) /\ received < N /\ ctx = "expired"
      /\ \A s \in Members : resultCh[s] = "none"
      /\ UNCHANGED <<answer, resultCh, accepted>> /\ coord' = "cancelling" /\ ctx' = "expired" /\ todo' = Members
  BY DEF RInv, TypeOK, CoordInv, GiveUp, Gathering, Decide
<1>2. N \in Nat
  BY ReadyCheckAssumption, FS_CardinalityType DEF N
<1>3. accepted # Members
  BY <1>1, <1>2 DEF N
<1>. QED  BY <1>1, <1>3 DEF CoordInv, CancelledForAReason, Over, Reasoned

\* As many as there are members means all of them.
LEMMA ConfirmReasons ==
  ASSUME RInv, Confirm
  PROVE  Reasoned'
<1>1. /\ coord = "gathering" /\ Cardinality(accepted) = Cardinality(Members) /\ accepted \subseteq Members
      /\ \A s \in Members : resultCh[s] = "none"
      /\ UNCHANGED <<resultCh, accepted>> /\ coord' = "confirming" /\ todo' = Members
  BY DEF RInv, TypeOK, CoordInv, Confirm, Decide, N
<1>2. accepted = Members
  BY <1>1, ReadyCheckAssumption, FS_Subset
<1>. QED  BY <1>1, <1>2 DEF CoordInv, CancelledForAReason, Over, Reasoned

\* The loops over the players.
LEMMA LoopsReason ==
  ASSUME RInv, NEW s \in Members, SendResult(s) \/ Requeue(s)
  PROVE  Reasoned'
<1>1. UNCHANGED <<answer, ctx, coord, accepted>> /\ todo' = todo \ {s} /\ coord # "gathering" /\ s \in todo
  BY DEF SendResult, Requeue
<1>2. CancelledForAReason'
  BY <1>1 DEF RInv, CancelledForAReason
<1>3. CASE SendResult(s)
  <2>1. /\ coord \in {"confirming", "cancelling"} /\ resultCh'[s] # "none"
        /\ \A t \in Members \ {s} : resultCh'[t] = resultCh[t]
    BY <1>3 DEF SendResult, RInv, TypeOK
  <2>2. CoordInv'
    BY <1>1, <2>1 DEF RInv, CoordInv, Over
  <2>. QED  BY <1>2, <2>2 DEF Reasoned
<1>4. CASE Requeue(s)
  <2>1. coord = "requeuing" /\ UNCHANGED resultCh
    BY <1>4 DEF Requeue
  <2>2. CoordInv'
    BY <1>1, <2>1 DEF RInv, CoordInv, Over
  <2>. QED  BY <1>2, <2>2 DEF Reasoned
<1>. QED  BY <1>3, <1>4

\* The ends of the loops.
LEMMA EndsReason ==
  ASSUME RInv, ResultsSent \/ Return
  PROVE  Reasoned'
<1>1. CASE ResultsSent
  BY <1>1 DEF ResultsSent, RInv, CoordInv, CancelledForAReason, Over, Reasoned
<1>2. CASE Return
  BY <1>2 DEF Return, RInv, CoordInv, CancelledForAReason, Over, Reasoned
<1>. QED  BY <1>1, <1>2

\* The coordinator's own state is consistent after every step.
LEMMA ReasonStep == RInv /\ [Next]_vars => Reasoned'
<1> SUFFICES ASSUME RInv, [Next]_vars PROVE Reasoned'
  OBVIOUS
<1>1. ASSUME NEW s \in Members, NEW a \in {"yes", "no"}, Answer(s, a) PROVE Reasoned'
  <2>1. \A t \in Members : answer[t] = "no" => answer'[t] = "no"
    BY <1>1 DEF Answer, RInv, TypeOK
  <2>. QED  BY <1>1, <2>1, OthersReason DEF Answer
<1>2. ASSUME NEW s \in Members, FanInStep(s) PROVE Reasoned'
  BY <1>2, OthersReason DEF FanInStep, FanInTakes, FanInGivesUp, FanInSends
<1>3. CASE Expire
  BY <1>3, OthersReason DEF Expire
<1>4. CASE UNCHANGED vars
  BY <1>4, OthersReason DEF vars
<1>. QED
  BY <1>1, <1>2, <1>3, <1>4, ReceiveReasons, GiveUpReasons, ConfirmReasons, LoopsReason, EndsReason
  DEF Next, CoordinatorStep

-------------------------------------------------------------------------------
(* Safety                                                                    *)

\* Every response is in one place, the verdict follows from those that were counted, and a
\* cancellation has a reason outside the coordinator: for rooms of any size.
THEOREM CoordinatorIsSound == Spec => []RInv
<1>1. RInv /\ [Next]_vars => RInv'
  BY TypeStep, ResponseStep, ReasonStep DEF RInv, Reasoned
<1>. QED  BY <1>1, RInvInit, PTL DEF Spec

\* The buffer of one place per player is enough: the entries are of different players, and
\* the one that is about to send is not among them.
THEOREM FanInHasRoom == Spec => []FanInNeverBlocks
<1>1. RInv => FanInNeverBlocks
  <2> SUFFICES ASSUME RInv, NEW s \in Members, fanIn[s] \in {"yes", "no"}, ~(Len(fanInCh) < Capacity)
               PROVE  FALSE
    BY DEF FanInNeverBlocks
  <2> DEFINE f == [i \in 1 .. Len(fanInCh) |-> fanInCh[i].idx]
             T == Members \ {s}
  <2>1. Len(fanInCh) \in Nat
    BY DEF RInv, TypeOK
  <2>2. N \in Nat /\ IsFiniteSet(T) /\ Cardinality(T) = N - 1
    BY ReadyCheckAssumption, FS_CardinalityType, FS_RemoveElement DEF N
  <2>3. IsFiniteSet(1 .. Len(fanInCh)) /\ Cardinality(1 .. Len(fanInCh)) = Len(fanInCh)
    <3>1. 1 \in Int /\ Len(fanInCh) \in Int
      BY <2>1
    <3>2. /\ IsFiniteSet(1 .. Len(fanInCh))
          /\ Cardinality(1 .. Len(fanInCh)) = IF 1 > Len(fanInCh) THEN 0 ELSE Len(fanInCh) - 1 + 1
      BY <3>1, FS_Interval
    <3>. QED  BY <2>1, <3>2
  <2>4. \A i \in 1 .. Len(fanInCh) : fanInCh[i].idx \in T
    BY EntryType DEF RInv, ResponseInv
  <2>5. f \in [1 .. Len(fanInCh) -> T]
    BY <2>4
  <2>6. Cardinality(T) < Cardinality(1 .. Len(fanInCh))
    BY <2>1, <2>2, <2>3 DEF Capacity
  <2>7. \A i, j \in 1 .. Len(fanInCh) : f[i] = f[j] => i = j
    BY DEF RInv, ResponseInv
  <2> HIDE DEF f, T
  <2>8. \E i, j \in 1 .. Len(fanInCh) : i # j /\ f[i] = f[j]
    BY <2>2, <2>3, <2>5, <2>6, FS_PigeonHole
  <2>. QED  BY <2>7, <2>8
<1>. QED  BY <1>1, CoordinatorIsSound, PTL

-------------------------------------------------------------------------------
(* Simulation                                                                *)

\* The view of RoomVerdict: the one room, variable by variable.
VerdictOf ==
  IF coord = "gathering" THEN "none"
  ELSE IF coord \in {"confirming", "confirmed"} THEN "confirmed" ELSE "cancelled"

Counted == IF coord \in {"cancelling", "requeuing", "cancelled"} THEN accepted ELSE {}

Told == {s \in Members : resultCh[s] # "none"}

Back == IF coord \in {"requeuing", "cancelled"} THEN accepted \ todo ELSE {}

\* What is seen of the room does not change.
LEMMA Unseen ==
  ASSUME UNCHANGED <<answer, VerdictOf, Counted, Told, Back>>
  PROVE  UNCHANGED Ready!vars
  BY DEF Ready!vars, VerdictOf, Counted, Told, Back

\* A handler's answer.
LEMMA AnswerSeen ==
  ASSUME RInv, NEW s \in Members, NEW a \in {"yes", "no"}, Answer(s, a)
  PROVE  Ready!Next
<1>1. answer[s] = "none" /\ answer' = [answer EXCEPT ![s] = a] /\ UNCHANGED <<coord, accepted, resultCh, todo>>
  BY DEF Answer
<1>2. Ready!Answer(Room, s, a)
  BY <1>1 DEF Ready!Answer
<1>. QED  BY <1>2 DEF Ready!Next

\* A verdict of false: a member is missing among those counted.
LEMMA CancelSeen ==
  ASSUME RInv, RInv', coord = "gathering", coord' = "cancelling", UNCHANGED <<answer, resultCh>>
  PROVE  Ready!Next
<1>1. accepted' \subseteq Members /\ accepted' # Members /\ \A s \in accepted' : answer[s] = "yes"
  BY DEF RInv, TypeOK, ResponseInv, CoordInv, Over
<1>2. Ready!Cancel(Room, accepted')
  BY <1>1 DEF Ready!Cancel
<1>. QED  BY <1>1, <1>2 DEF Ready!Next

\* A verdict of true: every member was counted, so every member said yes.
LEMMA ConfirmSeen ==
  ASSUME RInv, RInv', Confirm
  PROVE  Ready!Next
<1>1. /\ coord = "gathering" /\ coord' = "confirming" /\ UNCHANGED <<answer, accepted, resultCh>>
      /\ accepted' = Members
  BY DEF Confirm, Decide, RInv, CoordInv
<1>2. \A s \in Members : answer[s] = "yes"
  BY <1>1 DEF RInv, ResponseInv
<1>3. Ready!Confirm(Room)
  BY <1>1, <1>2, ReadyCheckAssumption DEF Ready!Confirm
<1>. QED  BY <1>3 DEF Ready!Next

\* A result that is sent is the first to its player.
LEMMA ResultSeen ==
  ASSUME RInv, NEW s \in Members, SendResult(s)
  PROVE  Ready!Next
<1>1. /\ coord \in {"confirming", "cancelling"} /\ resultCh[s] = "none" /\ resultCh'[s] # "none"
      /\ \A t \in Members \ {s} : resultCh'[t] = resultCh[t]
      /\ UNCHANGED <<answer, coord, accepted>>
  BY DEF SendResult, RInv, TypeOK, CoordInv
<1>2. Told' = Told \cup {s} /\ s \in Members \ Told
  BY <1>1 DEF Told
<1>3. Ready!Tell(Room, s)
  BY <1>1, <1>2 DEF Ready!Tell, Told
<1>. QED  BY <1>3 DEF Ready!Next

\* A counted player is given back after all have their results.
LEMMA RequeueSeen ==
  ASSUME RInv, NEW s \in Members, Requeue(s)
  PROVE  Ready!Next
<1>1. /\ coord = "requeuing" /\ s \in todo /\ todo' = todo \ {s} /\ s \in accepted
      /\ UNCHANGED <<answer, coord, accepted, resultCh>>
  BY DEF Requeue, RInv, CoordInv
<1>2. Told = Members
  BY <1>1 DEF RInv, CoordInv, Told
<1>3. Back' = Back \cup {s} /\ s \in Counted \ Back
  BY <1>1 DEF Back, Counted
<1>4. Ready!GiveBack(Room, s)
  BY <1>1, <1>2, <1>3 DEF Ready!GiveBack, Told, Back, Counted
<1>. QED  BY <1>4 DEF Ready!Next

\* Each step is one of the promise, or none of its business.
LEMMA ReadySimulation == RInv /\ RInv' /\ [Next]_vars => [Ready!Next]_(Ready!vars)
<1> SUFFICES ASSUME RInv, RInv', [Next]_vars PROVE Ready!Next \/ UNCHANGED Ready!vars
  OBVIOUS
<1>1. ASSUME UNCHANGED <<answer, coord, accepted, resultCh, todo>> PROVE UNCHANGED Ready!vars
  BY <1>1, Unseen DEF VerdictOf, Counted, Told, Back
<1>2. ASSUME NEW s \in Members, FanInStep(s) PROVE UNCHANGED Ready!vars
  BY <1>1, <1>2 DEF FanInStep, FanInTakes, FanInGivesUp, FanInSends
<1>3. CASE Expire \/ UNCHANGED vars
  BY <1>1, <1>3 DEF Expire, vars
<1>4. CASE Receive
  <2>1. CASE coord' = "cancelling"
    BY <1>4, <2>1, CancelSeen DEF Receive, Gathering
  <2>2. CASE UNCHANGED coord
    BY <1>4, <2>2, Unseen DEF Receive, Gathering, VerdictOf, Counted, Told, Back
  <2>. QED  BY <1>4, <2>1, <2>2 DEF Receive, Decide
<1>5. CASE GiveUp
  BY <1>5, CancelSeen DEF GiveUp, Gathering, Decide
<1>6. CASE ResultsSent
  <2>1. CASE coord = "confirming"
    BY <1>6, <2>1, Unseen DEF ResultsSent, VerdictOf, Counted, Told, Back
  <2>2. CASE coord = "cancelling"
    <3>1. coord' = "requeuing" /\ todo' = accepted /\ UNCHANGED <<answer, accepted, resultCh>>
      BY <1>6, <2>2 DEF ResultsSent
    <3>. QED  BY <2>2, <3>1, Unseen DEF VerdictOf, Counted, Told, Back
  <2>. QED  BY <1>6, <2>1, <2>2 DEF ResultsSent
<1>7. CASE Return
  BY <1>7, Unseen DEF Return, VerdictOf, Counted, Told, Back
<1>. QED
  BY <1>2, <1>3, <1>4, <1>5, <1>6, <1>7, AnswerSeen, ConfirmSeen, ResultSeen, RequeueSeen
  DEF Next, CoordinatorStep

\* The coordinator keeps its promise, with the fan-in hop that Matchmaking leaves out.
THEOREM ReadyCheckImplementsVerdict == Spec => ReadySpec
<1>1. Init => Ready!Init
  BY DEF Init, Ready!Init
<1>. QED  BY <1>1, CoordinatorIsSound, ReadySimulation, PTL DEF Spec, ReadySpec, Ready!Spec

===============================================================================
