---------------------------- MODULE Sessions_proofs ----------------------------
(***************************************************************************)
(* Proofs about Sessions, for any number of sessions, players, submissions *)
(* and readers: what SubmitResult acknowledges is what the store has, and  *)
(* what GetSession shows stays true.                                       *)
(***************************************************************************)
EXTENDS Sessions, FiniteSetTheorems, TLAPS

-------------------------------------------------------------------------------
(* The inductive invariant                                                   *)

\* The store is empty in the beginning, and no room is.
LEMMA SInvInit == Init => SInv
<1> SUFFICES ASSUME Init PROVE SInv
  OBVIOUS
<1>1. \A m \in SessionIDs : Recorded(m) = {} /\ RoomOf[m] # {}
  BY SessionsAssumption DEF Init, Recorded
<1>2. \A c \in Calls : call[c].code = None /\ call[c].code \notin Codes
  BY SessionsAssumption DEF Init
<1>3. TypeOK
  BY DEF Init, TypeOK
<1>4. StoreInv /\ AckInv /\ FinalizedWhenComplete
  BY <1>1, <1>2 DEF Init, StoreInv, AckInv, FinalizedWhenComplete, Codes
<1>5. AckedExactlyOnce
  BY <1>2 DEF Init, AckedExactlyOnce, Acked, Codes
<1>6. ReadInv /\ SummaryEntriesStand
  BY DEF Init, ReadInv, SummaryEntriesStand
<1>. QED  BY <1>3, <1>4, <1>5, <1>6 DEF SInv

-------------------------------------------------------------------------------
(* Submissions                                                               *)

\* A refused call changes nothing but its own reply.
LEMMA RefuseKeeps ==
  ASSUME SInv, NEW c \in Calls, NEW q \in Requests, NEW code \in Codes, code # "OK",
         call[c].code = None, Refuse(c, q, code),
         code = "AlreadyExists" => results[q.session][q.player] # None
  PROVE  SInv'
<1> USE DEF SInv
<1>1. /\ call' = [call EXCEPT ![c] = [req |-> q, code |-> code]]
      /\ UNCHANGED <<created, results, finalized, read, crashed>>
  BY DEF Refuse, Reply
<1>2. /\ call'[c] = [req |-> q, code |-> code] /\ \A d \in Calls \ {c} : call'[d] = call[d]
      /\ call'[c].req = q /\ call'[c].code = code
  BY <1>1 DEF TypeOK
<1>3. \A m \in SessionIDs : Recorded(m)' = Recorded(m)
  BY <1>1 DEF Recorded
<1>4. TypeOK'
  BY <1>1 DEF TypeOK
<1>5. StoreInv' /\ FinalizedWhenComplete' /\ ReadInv' /\ SummaryEntriesStand'
  BY <1>1, <1>2, <1>3 DEF StoreInv, FinalizedWhenComplete, ReadInv, SummaryEntriesStand
<1>6. \A d \in Calls : call'[d].code = "OK" <=> call[d].code = "OK"
  BY <1>2, SessionsAssumption DEF Codes
<1>7. \A d \in Calls : call'[d].code = "OK" => d # c /\ call'[d] = call[d]
  BY <1>2
<1>8. AckInv'
  BY <1>1, <1>6, <1>7 DEF AckInv
<1>9. \A d \in Calls, m \in SessionIDs, p \in Players : Acked(d, m, p)' <=> Acked(d, m, p)
  BY <1>6, <1>7 DEF Acked
<1>10. q.session \in SessionIDs /\ q.player \in Players
  BY DEF Requests
<1>11. ASSUME NEW d \in Calls, call'[d].code = "AlreadyExists"
       PROVE  \E e \in Calls : Acked(e, call[d].req.session, call[d].req.player)'
  <2>1. CASE d = c
    <3>1. PICK e \in Calls : Acked(e, q.session, q.player)
      <4>1. results[q.session][q.player] # None
        BY <1>2, <1>11, <2>1
      <4>. QED  BY <1>10, <4>1 DEF AckedExactlyOnce
    <3>2. call'[e] = call[e]
      BY <1>6, <1>7, <3>1 DEF Acked
    <3>. QED  BY <1>2, <2>1, <3>1, <3>2 DEF Acked
  <2>2. CASE d # c
    <3>1. call'[d] = call[d] /\ call[d].req \in Requests
      BY <1>2, <1>11, <2>2, SessionsAssumption DEF StoreInv, Codes
    <3>2. PICK e \in Calls : Acked(e, call[d].req.session, call[d].req.player)
      BY <1>11, <3>1 DEF AckedExactlyOnce
    <3>3. call'[e] = call[e]
      BY <1>6, <1>7, <3>2 DEF Acked
    <3>. QED  BY <3>1, <3>2, <3>3 DEF Acked
  <2>. QED  BY <2>1, <2>2
<1>12. \A m \in SessionIDs, p \in Players : results'[m][p] # None =>
          \E d \in Calls : Acked(d, m, p)' /\ call'[d].req.result = results'[m][p]
  <2> SUFFICES ASSUME NEW m \in SessionIDs, NEW p \in Players, results[m][p] # None
               PROVE  \E d \in Calls : Acked(d, m, p)' /\ call'[d].req.result = results[m][p]
    BY <1>1
  <2>1. PICK d \in Calls : Acked(d, m, p) /\ call[d].req.result = results[m][p]
    BY DEF AckedExactlyOnce
  <2>2. Acked(d, m, p)' /\ call'[d] = call[d]
    BY <1>6, <1>7, <1>9, <2>1 DEF Acked
  <2>. QED  BY <2>1, <2>2
<1>13. \A d, e \in Calls : \A m \in SessionIDs, p \in Players : Acked(d, m, p)' /\ Acked(e, m, p)' => d = e
  BY <1>9 DEF AckedExactlyOnce
<1>14. AckedExactlyOnce'
  BY <1>11, <1>12, <1>13 DEF AckedExactlyOnce
<1>. QED  BY <1>4, <1>5, <1>8, <1>14

\* The write adds the one player to those recorded, and completes the session exactly when
\* the count says so.
LEMMA RecordStores ==
  ASSUME SInv, NEW c \in Calls, NEW q \in Requests, q.result # UNSPECIFIED, Record(c, q)
  PROVE  /\ q.session \in SessionIDs /\ q.player \in RoomOf[q.session] /\ q.player \in Players
         /\ results[q.session][q.player] = None /\ q.result \in Results
         /\ results'[q.session][q.player] = q.result
         /\ \A m \in SessionIDs, p \in Players :
              m # q.session \/ p # q.player => results'[m][p] = results[m][p]
         /\ results' \in [SessionIDs -> [Players -> Results \cup {None}]]
         /\ \A m \in SessionIDs : Recorded(m)' = IF m = q.session THEN Recorded(m) \cup {q.player} ELSE Recorded(m)
         /\ FinalizedWhenComplete'
<1>1. q.session \in SessionIDs /\ q.player \in Players
  BY DEF Requests
<1>2. q.player \in RoomOf[q.session] /\ results[q.session][q.player] = None /\ q.result \in Results
  BY SessionsAssumption DEF Record, Rejection, Codes
<1>3. results' = [results EXCEPT ![q.session][q.player] = q.result]
  BY DEF Record, Store
<1>4. /\ results'[q.session][q.player] = q.result
      /\ \A m \in SessionIDs, p \in Players :
           m # q.session \/ p # q.player => results'[m][p] = results[m][p]
      /\ results' \in [SessionIDs -> [Players -> Results \cup {None}]]
  BY <1>1, <1>2, <1>3 DEF SInv, TypeOK
<1>5. \A m \in SessionIDs : Recorded(m)' = IF m = q.session THEN Recorded(m) \cup {q.player} ELSE Recorded(m)
  BY <1>1, <1>2, <1>4, SessionsAssumption DEF Recorded
<1>6. FinalizedWhenComplete'
  <2> SUFFICES ASSUME NEW m \in SessionIDs PROVE finalized'[m] <=> Recorded(m)' = RoomOf[m]
    BY DEF FinalizedWhenComplete
  <2>1. CASE m # q.session
    <3>1. finalized'[m] = finalized[m]
      BY <1>1, <2>1 DEF Record, Store, SInv, TypeOK
    <3>. QED  BY <1>5, <2>1, <3>1 DEF SInv, FinalizedWhenComplete
  <2>2. CASE m = q.session
    <3>1. finalized'[m] <=> finalized[m] \/ Cardinality(Recorded(m) \cup {q.player}) = Cardinality(RoomOf[m])
      BY <2>2 DEF Record, Store, SInv, TypeOK
    <3>2. ~finalized[m]
      BY <1>1, <1>2, <2>2 DEF SInv, FinalizedWhenComplete, Recorded
    <3>3. Recorded(m) \cup {q.player} \subseteq RoomOf[m] /\ IsFiniteSet(RoomOf[m])
      BY <1>2, <2>2, SessionsAssumption DEF SInv, StoreInv
    <3>4. Cardinality(Recorded(m) \cup {q.player}) = Cardinality(RoomOf[m]) <=> Recorded(m) \cup {q.player} = RoomOf[m]
      BY <3>3, FS_Subset
    <3>. QED  BY <1>5, <2>2, <3>1, <3>2, <3>4
  <2>. QED  BY <2>1, <2>2
<1>. QED  BY <1>1, <1>2, <1>4, <1>5, <1>6

\* An acknowledged call is the first for its player.
LEMMA RecordKeeps ==
  ASSUME SInv, NEW c \in Calls, NEW q \in Requests, call[c].code = None, q.result # UNSPECIFIED, Record(c, q)
  PROVE  SInv'
<1> USE DEF SInv
<1>1. /\ q.session \in SessionIDs /\ q.player \in RoomOf[q.session] /\ q.player \in Players
      /\ results[q.session][q.player] = None /\ q.result \in Results
      /\ results'[q.session][q.player] = q.result
      /\ \A m \in SessionIDs, p \in Players : m # q.session \/ p # q.player => results'[m][p] = results[m][p]
      /\ results' \in [SessionIDs -> [Players -> Results \cup {None}]]
      /\ \A m \in SessionIDs : Recorded(m)' = IF m = q.session THEN Recorded(m) \cup {q.player} ELSE Recorded(m)
      /\ FinalizedWhenComplete'
  BY RecordStores
<1>2. /\ call' = [call EXCEPT ![c] = [req |-> q, code |-> "OK"]]
      /\ crashed' \in BOOLEAN /\ UNCHANGED <<created, read>>
  BY DEF Record, Reply
<1>3. /\ call'[c] = [req |-> q, code |-> "OK"] /\ \A d \in Calls \ {c} : call'[d] = call[d]
      /\ call'[c].req = q /\ call'[c].code = "OK"
  BY <1>2 DEF TypeOK
<1>4. TypeOK'
  <2>1. finalized' \in [SessionIDs -> BOOLEAN]
    BY DEF Record, Store, TypeOK
  <2>2. call' \in [Calls -> [req : Requests \cup {None}, code : Codes \cup {None}]]
    BY <1>2 DEF TypeOK, Codes
  <2>. QED  BY <1>1, <1>2, <2>1, <2>2 DEF TypeOK
<1>5. StoreInv'
  BY <1>1, <1>3 DEF StoreInv
<1>6. \A d \in Calls \ {c} : call[d].code = "OK" =>
        /\ call[d].req.session \in SessionIDs /\ call[d].req.player \in Players /\ call[d].req.result # None
        /\ call[d].req.session # q.session \/ call[d].req.player # q.player
  <2> SUFFICES ASSUME NEW d \in Calls \ {c}, call[d].code = "OK"
               PROVE  /\ call[d].req.session \in SessionIDs /\ call[d].req.player \in Players /\ call[d].req.result # None
                      /\ call[d].req.session # q.session \/ call[d].req.player # q.player
    OBVIOUS
  <2>1. call[d].req \in Requests
    BY SessionsAssumption DEF StoreInv, Codes
  <2>2. call[d].req.session \in SessionIDs /\ call[d].req.player \in Players
    BY <2>1 DEF Requests
  <2>3. Acked(d, call[d].req.session, call[d].req.player)
    BY DEF Acked
  <2>4. results[call[d].req.session][call[d].req.player] = call[d].req.result
    BY DEF AckInv
  <2>5. call[d].req.result # None
    BY SessionsAssumption DEF AckInv
  <2>. QED  BY <1>1, <2>2, <2>4, <2>5
<1>7. AckInv'
  BY <1>1, <1>3, <1>6 DEF AckInv
<1>8. ReadInv'
  BY <1>2 DEF ReadInv
<1>9. SummaryEntriesStand'
  <2> SUFFICES ASSUME NEW r \in Reads, NEW e \in read[r].entries
               PROVE  results'[read[r].session][e[1]] = e[2]
    BY <1>2 DEF SummaryEntriesStand
  <2>1. e \in Players \X Results
    BY DEF TypeOK
  <2>2. e[1] \in Players /\ e[2] # None
    BY <2>1, SessionsAssumption
  <2>3. read[r].session \in SessionIDs /\ results[read[r].session][e[1]] = e[2]
    BY DEF ReadInv, SummaryEntriesStand
  <2>. QED  BY <1>1, <2>2, <2>3
<1>10. \A d \in Calls : \A m \in SessionIDs, p \in Players :
         Acked(d, m, p)' <=> (IF d = c THEN m = q.session /\ p = q.player ELSE Acked(d, m, p))
  BY <1>1, <1>3 DEF Acked
<1>11. AckedExactlyOnce'
  <2>1. ASSUME NEW m \in SessionIDs, NEW p \in Players, results'[m][p] # None
        PROVE  \E d \in Calls : Acked(d, m, p)' /\ call'[d].req.result = results'[m][p]
    <3>1. CASE m = q.session /\ p = q.player
      BY <1>1, <1>3, <1>10, <3>1
    <3>2. CASE m # q.session \/ p # q.player
      <4>1. results[m][p] # None /\ results'[m][p] = results[m][p]
        BY <1>1, <2>1, <3>2
      <4>2. PICK d \in Calls : Acked(d, m, p) /\ call[d].req.result = results[m][p]
        BY <4>1 DEF AckedExactlyOnce
      <4>3. d # c
        BY <4>2, SessionsAssumption DEF Acked, Codes
      <4>. QED  BY <1>3, <1>10, <4>1, <4>2, <4>3
    <3>. QED  BY <3>1, <3>2
  <2>2. ASSUME NEW d \in Calls, NEW e \in Calls, NEW m \in SessionIDs, NEW p \in Players,
               Acked(d, m, p)', Acked(e, m, p)'
        PROVE  d = e
    <3>1. CASE m = q.session /\ p = q.player
      <4>1. \A k \in Calls \ {c} : ~Acked(k, m, p)
        BY <1>6, <3>1 DEF Acked
      <4>. QED  BY <1>10, <2>2, <4>1
    <3>2. CASE m # q.session \/ p # q.player
      BY <1>10, <2>2, <3>2 DEF AckedExactlyOnce
    <3>. QED  BY <3>1, <3>2
  <2>3. ASSUME NEW d \in Calls, call'[d].code = "AlreadyExists"
        PROVE  \E e \in Calls : Acked(e, call[d].req.session, call[d].req.player)'
    <3>1. d # c /\ call'[d] = call[d]
      BY <1>3, <2>3
    <3>2. PICK e \in Calls : Acked(e, call[d].req.session, call[d].req.player)
      BY <2>3, <3>1 DEF AckedExactlyOnce
    <3>3. e # c
      BY <3>2, SessionsAssumption DEF Acked, Codes
    <3>. QED  BY <1>3, <3>1, <3>2, <3>3 DEF Acked
  <2>. QED  BY <2>1, <2>2, <2>3 DEF AckedExactlyOnce
<1>. QED  BY <1>1, <1>4, <1>5, <1>7, <1>8, <1>9, <1>11

\* SubmitResult is answered as its checks say.
LEMMA SubmitKeeps ==
  ASSUME SInv, NEW c \in Calls, NEW q \in Requests, SubmitResult(c, q)
  PROVE  SInv'
<1>1. call[c].code = None
  BY DEF SubmitResult
<1>2. CASE Refuse(c, q, "InvalidArgument") \/ Refuse(c, q, "DeadlineExceeded")
  BY <1>1, <1>2, RefuseKeeps DEF Codes
<1>3. CASE Rejection(q) # None /\ Refuse(c, q, Rejection(q))
  <2>1. PICK code \in Codes \ {"OK"} : code = Rejection(q)
    <3>1. Rejection(q) \in Codes \ {"OK"}
      BY <1>3 DEF Rejection, Codes
    <3>. QED  BY <3>1
  <2>2. code = "AlreadyExists" => results[q.session][q.player] # None
    BY <2>1, SessionsAssumption DEF Rejection, Codes
  <2>. QED  BY <1>1, <1>3, <2>1, <2>2, RefuseKeeps
<1>4. CASE q.result # UNSPECIFIED /\ Record(c, q)
  BY <1>1, <1>4, RecordKeeps
<1>. QED  BY <1>2, <1>3, <1>4 DEF SubmitResult

-------------------------------------------------------------------------------
(* The other calls                                                           *)

\* Readers and coordinators leave results and replies alone.
LEMMA StoreFrame ==
  ASSUME SInv, UNCHANGED <<results, finalized, call>>
  PROVE  StoreInv' /\ AckInv' /\ FinalizedWhenComplete' /\ AckedExactlyOnce'
<1>1. \A m \in SessionIDs : Recorded(m)' = Recorded(m)
  BY DEF Recorded
<1>2. StoreInv' /\ AckInv' /\ FinalizedWhenComplete'
  BY <1>1 DEF SInv, StoreInv, AckInv, FinalizedWhenComplete
<1>3. AckedExactlyOnce'
  <2>1. \A c \in Calls : \A m \in SessionIDs : \A p \in Players : Acked(c, m, p)' <=> Acked(c, m, p)
    BY DEF Acked
  <2>2. \A c, d \in Calls : Acked(d, call[c].req.session, call[c].req.player)' <=> Acked(d, call[c].req.session, call[c].req.player)
    BY DEF Acked
  <2>. QED  BY <2>1, <2>2 DEF SInv, AckedExactlyOnce
<1>. QED  BY <1>2, <1>3

ReadStates ==
  [at : {"idle", "ranging", "building", "done", "notfound"},
   session : SessionIDs \cup {None}, due : SUBSET Players,
   entries : SUBSET (Players \X Results), finalized : BOOLEAN]

\* An entry is read from the session that was opened.
LEMMA ReadsKeep ==
  ASSUME SInv, NEW r \in Reads,
         (\E m \in SessionIDs : OpenSession(r, m)) \/ (\E p \in Players : ReadEntry(r, p)) \/ EndRange(r) \/ Summarize(r)
  PROVE  SInv'
<1> USE DEF SInv
<1>1. UNCHANGED <<created, results, finalized, call, crashed>>
  BY DEF OpenSession, ReadEntry, EndRange, Summarize
<1>2. \A k \in Reads \ {r} : read'[k] = read[k]
  BY DEF OpenSession, ReadEntry, EndRange, Summarize, TypeOK
<1>3. ASSUME read' \in [Reads -> ReadStates],
             read'[r].at # "idle", read'[r].session \in SessionIDs,
             \A e \in read'[r].entries : results[read'[r].session][e[1]] = e[2]
      PROVE  SInv'
  <2>1. TypeOK'
    BY <1>1, <1>3 DEF TypeOK, ReadStates
  <2>2. ReadInv' /\ SummaryEntriesStand'
    BY <1>1, <1>2, <1>3 DEF ReadInv, SummaryEntriesStand
  <2>. QED  BY <1>1, <2>1, <2>2, StoreFrame
<1>4. ASSUME NEW m \in SessionIDs, OpenSession(r, m) PROVE SInv'
  <2>1. read[r].at = "idle" /\ read[r].entries = {}
    BY <1>4 DEF OpenSession, ReadInv
  <2>2. \E at \in {"ranging", "notfound"}, due \in SUBSET Players :
          read' = [read EXCEPT ![r].at = at, ![r].session = m, ![r].due = due]
    <3>1. Recorded(m) \in SUBSET Players /\ {} \in SUBSET Players
      BY DEF Recorded
    <3>2. CASE m \in created
      BY <1>4, <3>1, <3>2 DEF OpenSession
    <3>3. CASE m \notin created
      BY <1>4, <3>1, <3>3 DEF OpenSession
    <3>. QED  BY <3>2, <3>3
  <2>3. PICK at \in {"ranging", "notfound"}, due \in SUBSET Players :
          read' = [read EXCEPT ![r].at = at, ![r].session = m, ![r].due = due]
    BY <2>2
  <2>4. read'[r].at = at /\ read'[r].session = m /\ read'[r].entries = {}
    BY <2>1, <2>3 DEF TypeOK
  <2>5. read' \in [Reads -> ReadStates]
    <3>1. read[r] \in ReadStates /\ read \in [Reads -> ReadStates]
      BY DEF TypeOK, ReadStates
    <3>2. [read[r] EXCEPT !.at = at, !.session = m, !.due = due] \in ReadStates
      BY <3>1 DEF ReadStates
    <3>. QED  BY <2>3, <3>1, <3>2
  <2>. QED  BY <1>3, <2>4, <2>5
<1>5. ASSUME NEW p \in Players, ReadEntry(r, p) PROVE SInv'
  <2>1. read[r].at = "ranging" /\ read[r].session \in SessionIDs /\ p \in Recorded(read[r].session)
    BY <1>5 DEF ReadEntry, ReadInv
  <2>2. PICK v \in Results : v = results[read[r].session][p]
    BY <2>1 DEF Recorded, TypeOK
  <2>3. read' = [read EXCEPT ![r].entries = @ \cup {<<p, v>>}]
    BY <1>5, <2>2 DEF ReadEntry
  <2>4. read'[r].at = "ranging" /\ read'[r].session = read[r].session /\ read'[r].entries = read[r].entries \cup {<<p, v>>}
    BY <2>1, <2>3 DEF TypeOK
  <2>5. <<p, v>> \in Players \X Results
    BY <2>2
  <2>6. read' \in [Reads -> ReadStates]
    <3>1. read[r] \in ReadStates /\ read \in [Reads -> ReadStates]
      BY DEF TypeOK, ReadStates
    <3>2. read[r].entries \cup {<<p, v>>} \in SUBSET (Players \X Results)
      BY <2>5, <3>1 DEF ReadStates
    <3>3. [read[r] EXCEPT !.entries = read[r].entries \cup {<<p, v>>}] \in ReadStates
      BY <3>1, <3>2 DEF ReadStates
    <3>. QED  BY <2>3, <3>1, <3>3
  <2>7. \A e \in read'[r].entries : results[read'[r].session][e[1]] = e[2]
    BY <2>2, <2>4 DEF SummaryEntriesStand
  <2>. QED  BY <1>3, <2>1, <2>4, <2>6, <2>7
<1>6. CASE EndRange(r)
  <2>1. read' = [read EXCEPT ![r].at = "building"] /\ read[r].at = "ranging" /\ read[r].session \in SessionIDs
    BY <1>6 DEF EndRange, ReadInv
  <2>2. read[r] \in ReadStates /\ read \in [Reads -> ReadStates]
    BY DEF TypeOK, ReadStates
  <2>3. [read[r] EXCEPT !.at = "building"] \in ReadStates
    BY <2>2 DEF ReadStates
  <2>4. read' \in [Reads -> ReadStates]
    BY <2>1, <2>2, <2>3
  <2>5. read'[r].at = "building" /\ read'[r].session = read[r].session /\ read'[r].entries = read[r].entries
    BY <2>1, <2>2 DEF ReadStates
  <2>6. \A e \in read'[r].entries : results[read'[r].session][e[1]] = e[2]
    BY <2>5 DEF SummaryEntriesStand
  <2>. QED  BY <1>3, <2>1, <2>4, <2>5, <2>6
<1>7. CASE Summarize(r)
  <2>1. read[r].at = "building" /\ read[r].session \in SessionIDs
    BY <1>7 DEF Summarize, ReadInv
  <2>2. read' = [read EXCEPT ![r].at = "done", ![r].finalized = finalized[read[r].session]]
    BY <1>7 DEF Summarize
  <2>3. finalized[read[r].session] \in BOOLEAN
    BY <2>1 DEF TypeOK
  <2>4. read[r] \in ReadStates /\ read \in [Reads -> ReadStates]
    BY DEF TypeOK, ReadStates
  <2>5. [read[r] EXCEPT !.at = "done", !.finalized = finalized[read[r].session]] \in ReadStates
    BY <2>3, <2>4 DEF ReadStates
  <2>6. read' \in [Reads -> ReadStates]
    BY <2>2, <2>4, <2>5
  <2>7. read'[r].at = "done" /\ read'[r].session = read[r].session /\ read'[r].entries = read[r].entries
    BY <2>2, <2>4 DEF ReadStates
  <2>8. \A e \in read'[r].entries : results[read'[r].session][e[1]] = e[2]
    BY <2>7 DEF SummaryEntriesStand
  <2>. QED  BY <1>3, <2>1, <2>6, <2>7, <2>8
<1>. QED  BY ONLY <1>4, <1>5, <1>6, <1>7, (\E m \in SessionIDs : OpenSession(r, m)) \/ (\E p \in Players : ReadEntry(r, p)) \/ EndRange(r) \/ Summarize(r)

\* Every step keeps store, replies and summaries in agreement.
LEMMA SInvStep == SInv /\ [Next]_vars => SInv'
<1> SUFFICES ASSUME SInv, [Next]_vars PROVE SInv'
  OBVIOUS
<1>1. ASSUME NEW m \in SessionIDs, CreateSession(m) PROVE SInv'
  <2>1. created' = created \cup {m} /\ UNCHANGED <<results, finalized, call, read, crashed>>
    BY <1>1 DEF CreateSession
  <2>2. TypeOK' /\ ReadInv' /\ SummaryEntriesStand'
    BY <2>1 DEF SInv, TypeOK, ReadInv, SummaryEntriesStand
  <2>. QED  BY <2>1, <2>2, StoreFrame DEF SInv
<1>2. CASE UNCHANGED vars
  <2>1. TypeOK' /\ ReadInv' /\ SummaryEntriesStand'
    BY <1>2 DEF vars, SInv, TypeOK, ReadInv, SummaryEntriesStand
  <2>. QED  BY <1>2, <2>1, StoreFrame DEF SInv, vars
<1>. QED  BY <1>1, <1>2, SubmitKeeps, ReadsKeep DEF Next

-------------------------------------------------------------------------------
(* Theorems                                                                  *)

\* What the tracker stores, what it has answered and what it has shown agree.
THEOREM StoreIsConsistent == Spec => []SInv
  BY SInvInit, SInvStep, PTL DEF Spec

\* Submissions, refusals and retries in any order finalize a session with its last result,
\* not earlier and not never.
THEOREM FinalizedByTheLast == Spec => []FinalizedWhenComplete
  BY StoreIsConsistent, PTL DEF SInv

\* One call per player hears OK; every other is refused, and may rely on it.
THEOREM ResultsAckedOnce == Spec => []AckedExactlyOnce
  BY StoreIsConsistent, PTL DEF SInv

\* No later submission changes what a reader has seen.
THEOREM SummariesStand == Spec => []SummaryEntriesStand
  BY StoreIsConsistent, PTL DEF SInv

===============================================================================
