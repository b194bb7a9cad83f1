------------------------------- MODULE Sessions -------------------------------
(***************************************************************************)
(* internal/state/session.go and internal/services/tracker.go: sessions    *)
(* are created by ready-check coordinators, results are submitted by       *)
(* unary calls that may be retried, and GetSession calls read a session    *)
(* through the pointer that SessionStore.GetSession returns.  The methods  *)
(* of SessionStore hold its mutex for their whole body; the GetSession     *)
(* handler reads the session after the mutex is released, entry by entry.  *)
(***************************************************************************)
EXTENDS Naturals, FiniteSets

CONSTANTS
  SessionIDs,   \* uuids, each used by one CreateSession
  Players,
  RoomOf,       \* the PlayerIDs a session is created with
  Calls,        \* SubmitResult calls; bounds their number
  Reads,        \* GetSession calls; bounds their number
  None

WIN == 1
LOSS == 2
DRAW == 3
UNSPECIFIED == 0
UNKNOWN == 4    \* a number that the enum does not name; protobuf passes it on
Results == {WIN, LOSS, DRAW}

Codes == {"OK", "InvalidArgument", "NotFound", "PermissionDenied", "AlreadyExists",
          "Internal", "DeadlineExceeded"}

ASSUME SessionsAssumption ==
  /\ RoomOf \in [SessionIDs -> (SUBSET Players) \ {{}}]
  /\ \A m \in SessionIDs : IsFiniteSet(RoomOf[m])
  /\ None \notin SessionIDs \cup Players
  /\ None \notin Results /\ None \notin Codes

VARIABLES
  created,    \* sessions in the store
  results,    \* session -> player -> recorded result, or None
  finalized,  \* Session.Finalized
  call,       \* the request and reply of each SubmitResult call
  read,       \* the state of each GetSession call and the summary it builds
  crashed     \* the runtime has thrown: concurrent map iteration and map write

vars == <<created, results, finalized, call, read, crashed>>

Requests == [session : SessionIDs, player : Players, result : Results \cup {UNSPECIFIED, UNKNOWN}]

Recorded(m) == {p \in Players : results[m][p] # None}

Init ==
  /\ created = {}
  /\ results = [m \in SessionIDs |-> [p \in Players |-> None]]
  /\ finalized = [m \in SessionIDs |-> FALSE]
  /\ call = [c \in Calls |-> [req |-> None, code |-> None]]
  /\ read = [r \in Reads |-> [at |-> "idle", session |-> None, due |-> {},
                          entries |-> {}, finalized |-> FALSE]]
  /\ crashed = FALSE

\* A coordinator confirms its room.
CreateSession(m) ==
  /\ ~crashed
  /\ m \notin created
  /\ created' = created \cup {m}
  /\ UNCHANGED <<results, finalized, call, read, crashed>>

-------------------------------------------------------------------------------
(* SubmitResult                                                              *)

Reply(c, req, code) == call' = [call EXCEPT ![c] = [req |-> req, code |-> code]]

Refuse(c, req, code) ==
  /\ Reply(c, req, code)
  /\ UNCHANGED <<created, results, finalized, read, crashed>>

\* Seeded fault: RecordResult without the duplicate check.
RejectionAllowingDuplicates(q) ==
  IF q.session \notin created THEN "NotFound"
  ELSE IF q.player \notin RoomOf[q.session] THEN "PermissionDenied"
  ELSE IF q.result \notin Results THEN "Internal"
  ELSE None

\* Seeded fault: RecordResult without the default case of its switch.
RejectionUnvalidated(q) ==
  IF q.session \notin created THEN "NotFound"
  ELSE IF q.player \notin RoomOf[q.session] THEN "PermissionDenied"
  ELSE IF results[q.session][q.player] # None THEN "AlreadyExists"
  ELSE None

\* The checks of RecordResult in their order, as SubmitResult maps them to codes.
Rejection(q) ==
  IF q.session \notin created THEN "NotFound"
  ELSE IF q.player \notin RoomOf[q.session] THEN "PermissionDenied"
  ELSE IF results[q.session][q.player] # None THEN "AlreadyExists"
  ELSE IF q.result \notin Results THEN "Internal"
  ELSE None

\* GetSession calls that are in the middle of ranging over the results of m.
Ranging(m) == {r \in Reads : read[r].at = "ranging" /\ read[r].session = m}

\* Seeded fault: the session is finalized one submission early.
StoreEarly(m, p, v) ==
  /\ results' = [results EXCEPT ![m][p] = v]
  /\ finalized' = [finalized EXCEPT ![m] = @ \/ Cardinality(Recorded(m)) + 2 >= Cardinality(RoomOf[m])]

\* The last submission finalizes the session.
Store(m, p, v) ==
  /\ results' = [results EXCEPT ![m][p] = v]
  /\ finalized' = [finalized EXCEPT ![m] = @ \/ Cardinality(Recorded(m) \cup {p}) = Cardinality(RoomOf[m])]

\* The write to the results map races with every range over it: the runtime may or
\* may not notice, and UnaryPanicRecovery cannot recover from the throw.
Record(c, q) ==
  /\ Rejection(q) = None
  /\ Store(q.session, q.player, q.result)
  /\ Reply(c, q, "OK")
  /\ crashed' \in IF Ranging(q.session) = {} THEN {FALSE} ELSE BOOLEAN
  /\ UNCHANGED <<created, read>>

\* Validation and the deadline check come before RecordResult.
SubmitResult(c, q) ==
  /\ ~crashed
  /\ call[c].code = None
  /\ \/ q.result = UNSPECIFIED /\ Refuse(c, q, "InvalidArgument")
     \/ q.result # UNSPECIFIED /\ Refuse(c, q, "DeadlineExceeded")
     \/ q.result # UNSPECIFIED /\ Rejection(q) # None /\ Refuse(c, q, Rejection(q))
     \/ q.result # UNSPECIFIED /\ Record(c, q)

-------------------------------------------------------------------------------
(* GetSession                                                                *)

\* SessionStore.GetSession under the read lock; the pointer outlives it.
OpenSession(r, m) ==
  /\ ~crashed
  /\ read[r].at = "idle"
  /\ read' = [read EXCEPT ![r].at = IF m \in created THEN "ranging" ELSE "notfound",
                          ![r].session = m,
                          ![r].due = IF m \in created THEN Recorded(m) ELSE {}]
  /\ UNCHANGED <<created, results, finalized, call, crashed>>

\* One iteration of the range; entries come in any order.
ReadEntry(r, p) ==
  /\ ~crashed
  /\ read[r].at = "ranging"
  /\ p \in Recorded(read[r].session)
  /\ read' = [read EXCEPT ![r].entries = @ \cup {<<p, results[read[r].session][p]>>}]
  /\ UNCHANGED <<created, results, finalized, call, crashed>>

\* The range covers the entries it found, not necessarily those added while it ran.
EndRange(r) ==
  /\ ~crashed
  /\ read[r].at = "ranging"
  /\ \A p \in read[r].due : \E e \in read[r].entries : e[1] = p
  /\ read' = [read EXCEPT ![r].at = "building"]
  /\ UNCHANGED <<created, results, finalized, call, crashed>>

\* The summary takes Finalized from the live session.
Summarize(r) ==
  /\ ~crashed
  /\ read[r].at = "building"
  /\ read' = [read EXCEPT ![r].at = "done", ![r].finalized = finalized[read[r].session]]
  /\ UNCHANGED <<created, results, finalized, call, crashed>>

-------------------------------------------------------------------------------
Next ==
  \/ \E m \in SessionIDs : CreateSession(m)
  \/ \E c \in Calls, q \in Requests : SubmitResult(c, q)
  \/ \E r \in Reads :
       \/ \E m \in SessionIDs : OpenSession(r, m)
       \/ \E p \in Players : ReadEntry(r, p)
       \/ EndRange(r)
       \/ Summarize(r)

Spec == Init /\ [][Next]_vars

-------------------------------------------------------------------------------
(* Correctness                                                               *)

TypeOK ==
  /\ created \subseteq SessionIDs
  /\ results \in [SessionIDs -> [Players -> Results \cup {None}]]
  /\ finalized \in [SessionIDs -> BOOLEAN]
  /\ call \in [Calls -> [req : Requests \cup {None}, code : Codes \cup {None}]]
  /\ read \in [Reads -> [at : {"idle", "ranging", "building", "done", "notfound"},
                         session : SessionIDs \cup {None}, due : SUBSET Players,
                         entries : SUBSET (Players \X Results), finalized : BOOLEAN]]
  /\ crashed \in BOOLEAN

\* A session is finalized exactly when every player of its room has a result, in
\* whatever order the submissions, refusals and retries came.
FinalizedWhenComplete ==
  \A m \in SessionIDs : finalized[m] <=> Recorded(m) = RoomOf[m]

\* A recorded result was acknowledged to exactly one call, with the value of that call;
\* a retry that hears AlreadyExists may rely on it.
Acked(c, m, p) == call[c].code = "OK" /\ call[c].req.session = m /\ call[c].req.player = p

AckedExactlyOnce ==
  /\ \A m \in SessionIDs, p \in Players : results[m][p] # None =>
       \E c \in Calls : Acked(c, m, p) /\ call[c].req.result = results[m][p]
  /\ \A c, d \in Calls : \A m \in SessionIDs, p \in Players : Acked(c, m, p) /\ Acked(d, m, p) => c = d
  /\ \A c \in Calls : call[c].code = "AlreadyExists" =>
       \E d \in Calls : Acked(d, call[c].req.session, call[c].req.player)

\* What a GetSession reply showed of a player stays the truth about that player.
SummaryEntriesStand ==
  \A r \in Reads : \A e \in read[r].entries : results[read[r].session][e[1]] = e[2]

\* Only members have results; a call that has a reply has a request.
StoreInv ==
  /\ \A m \in SessionIDs : Recorded(m) \subseteq RoomOf[m]
  /\ \A c \in Calls : call[c].code # None => call[c].req \in Requests

\* An acknowledged call put the result there: with the write's own check for an earlier
\* result this makes acknowledgements unique.
AckInv ==
  \A c \in Calls : call[c].code = "OK" =>
    /\ call[c].req.result \in Results
    /\ results[call[c].req.session][call[c].req.player] = call[c].req.result

\* A summary is only built for the session that was opened.
ReadInv ==
  \A r \in Reads :
    /\ read[r].at = "idle" => read[r].entries = {}
    /\ read[r].at # "idle" => read[r].session \in SessionIDs

\* The inductive invariant of the tracker: what it stores, what it has answered and what
\* readers have seen, in any interleaving of submissions, retries and range loops.
SInv == TypeOK /\ StoreInv /\ AckInv /\ FinalizedWhenComplete /\ AckedExactlyOnce /\ ReadInv /\ SummaryEntriesStand

\* "GetSession returns a read-only snapshot of a session": a summary that says finalized
\* has the result of every player.
SummaryIsSnapshot ==
  \A r \in Reads : read[r].at = "done" /\ read[r].finalized =>
    \A p \in RoomOf[read[r].session] : \E e \in read[r].entries : e[1] = p

\* "Thread-safe ... zero race conditions": a GetSession beside submissions neither stops
\* the server nor returns anything but a snapshot.
GetSessionIsThreadSafe == ~crashed /\ SummaryIsSnapshot
===============================================================================
