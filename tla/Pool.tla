--------------------------------- MODULE Pool ---------------------------------
(***************************************************************************)
(* internal/state/pool.go: the player index, the MMR brackets and the      *)
(* weighted sliding window that picks a room.  Every exported method holds *)
(* Pool.mu from its first line to its last, so each is one action.  What   *)
(* the callers do with tickets between calls is the environment: a stream  *)
(* enqueues its ticket once, a coordinator gives an extracted ticket back  *)
(* or lets it go.                                                          *)
(***************************************************************************)
EXTENDS Integers, FiniteSets, Sequences, FiniteSetsExt, SequencesExt

CONSTANTS
  PlayerIDs,            \* keys of the index
  Tickets,              \* QueuedPlayer structs; bounds the number of joins
  PlayerOf,             \* QueuedPlayer.PlayerID
  MMR,                  \* QueuedPlayer.MMR
  BracketSize,          \* MMR range of one bracket
  MaxMMR,               \* EnterMatchmaking accepts ratings of 0 .. MaxMMR
  Brackets,             \* keys the brackets map can have
  PlayersPerMatch,
  MaxBracketExpansion,
  WaitWeight,           \* MMR points per second of average wait
  MaxNow,               \* bound on the clock
  None

ASSUME PoolAssumption ==
  /\ PlayerOf \in [Tickets -> PlayerIDs]
  /\ MaxMMR \in Nat
  /\ MMR \in [Tickets -> 0 .. MaxMMR]
  /\ Brackets \subseteq Nat
  /\ BracketSize \in Nat \ {0}
  /\ PlayersPerMatch \in Nat \ {0}
  /\ MaxBracketExpansion \in Nat
  /\ WaitWeight \in Nat
  /\ MaxNow \in Nat
  /\ None \notin Tickets

VARIABLES
  players,     \* player id -> queued ticket, or None
  brackets,    \* bracket key -> tickets, ascending MMR; an absent key is <<>>
  closed,      \* tickets whose MatchCh is closed
  enqueuedAt,  \* QueuedPlayer.EnqueuedAt, in seconds
  now,         \* the clock
  joined,      \* tickets whose stream has called Enqueue
  held         \* tickets that callers of ExtractMatch still hold

vars == <<players, brackets, closed, enqueuedAt, now, joined, held>>

-------------------------------------------------------------------------------
(* Slices and brackets                                                       *)

bracketKey(mmr) == IF mmr < 0 THEN 0 ELSE mmr \div BracketSize

ASSUME BracketsAssumption == \A t \in Tickets : bracketKey(MMR[t]) \in Brackets

\* Seeded fault: the insertion ignores the order of the slice.
insertAppends(s, t) == Append(s, t)

\* Before the first rating that is not lower.
insertSorted(s, t) ==
  LET i == SelectInSeq(s, LAMBDA u : MMR[u] >= MMR[t])
  IN  IF i = 0 THEN Append(s, t) ELSE InsertAt(s, i, t)

Ascending(s) == \A i, j \in DOMAIN s : i < j => MMR[s[i]] <= MMR[s[j]]

\* Drops the first ticket of the player.
removeFromSlice(s, id) ==
  LET i == SelectInSeq(s, LAMBDA u : PlayerOf[u] = id)
  IN  IF i = 0 THEN s ELSE RemoveAt(s, i)

InsertBracket(t) ==
  LET bk == bracketKey(MMR[t])
  IN  brackets' = [brackets EXCEPT ![bk] = insertSorted(@, t)]

RemoveTicket(b, t) ==
  LET bk == bracketKey(MMR[t])
  IN  [b EXCEPT ![bk] = removeFromSlice(@, PlayerOf[t])]

-------------------------------------------------------------------------------
(* The sliding window                                                        *)

Lowest(S) == Min({MMR[t] : t \in S})
Highest(S) == Max({MMR[t] : t \in S})
Spread(S) == Highest(S) - Lowest(S)
TotalWait(S) == MapThenSumSet(LAMBDA t : now - enqueuedAt[t], S)

\* PlayersPerMatch times the code's score, so that the average wait is exact.
Score(S) == PlayersPerMatch * Spread(S) - WaitWeight * TotalWait(S)

\* Brackets with the most players; map iteration order picks one of them.
FullestBrackets ==
  {bk \in Brackets : brackets[bk] # <<>> /\ \A k \in Brackets : Len(brackets[k]) <= Len(brackets[bk])}

Candidates(bk) ==
  UNION {ToSet(brackets[k]) : k \in Brackets \cap (bk - MaxBracketExpansion .. bk + MaxBracketExpansion)}

\* What sort.Slice may leave: ascending MMR, equal ratings in any order.
Sortings(C) == {c \in SetToSeqs(C) : Ascending(c)}

Starts(c) == 1 .. Len(c) - PlayersPerMatch + 1
Window(c, i) == SubSeq(c, i, i + PlayersPerMatch - 1)

\* Seeded fault: the window with the smallest spread, whatever its wait.
SelectedTightest(c) ==
  LET best == {i \in Starts(c) : \A j \in Starts(c) : Spread(ToSet(Window(c, i))) <= Spread(ToSet(Window(c, j)))}
  IN  Window(c, Min(best))

\* The bestScore the loop starts from, "impossibly high".
Sentinel == PlayersPerMatch * (MaxMMR + 1) * 10

\* The first window with the lowest score below the sentinel, else the first window.
Selected(c) ==
  LET score(i) == Score(ToSet(Window(c, i)))
      best == {i \in Starts(c) : score(i) < Sentinel /\ \A j \in Starts(c) : score(i) <= score(j)}
  IN  Window(c, IF best = {} THEN 1 ELSE Min(best))

-------------------------------------------------------------------------------
Init ==
  /\ players = [id \in PlayerIDs |-> None]
  /\ brackets = [bk \in Brackets |-> <<>>]
  /\ closed = {}
  /\ enqueuedAt = [t \in Tickets |-> 0]
  /\ now = 0
  /\ joined = {}
  /\ held = {}

\* Refused when the player id is queued.
Enqueue(t) ==
  /\ t \notin joined
  /\ joined' = joined \cup {t}
  /\ \/ /\ players[PlayerOf[t]] # None
        /\ UNCHANGED <<players, brackets, enqueuedAt>>
     \/ /\ players[PlayerOf[t]] = None
        /\ players' = [players EXCEPT ![PlayerOf[t]] = t]
        /\ InsertBracket(t)
        /\ enqueuedAt' = [enqueuedAt EXCEPT ![t] = now]
  /\ UNCHANGED <<closed, now, held>>

\* Seeded fault: ReEnqueue without its exists check.
ReEnqueueUnchecked(t) ==
  /\ t \in held
  /\ held' = held \ {t}
  /\ players' = [players EXCEPT ![PlayerOf[t]] = t]
  /\ InsertBracket(t)
  /\ UNCHANGED <<closed, enqueuedAt, now, joined>>

\* The same struct goes back with its EnqueuedAt, or is dropped when the id is queued.
ReEnqueue(t) ==
  /\ t \in held
  /\ held' = held \ {t}
  /\ \/ /\ players[PlayerOf[t]] # None
        /\ UNCHANGED <<players, brackets>>
     \/ /\ players[PlayerOf[t]] = None
        /\ players' = [players EXCEPT ![PlayerOf[t]] = t]
        /\ InsertBracket(t)
  /\ UNCHANGED <<closed, enqueuedAt, now, joined>>

\* Seeded fault: the entry is deleted before its channel is looked up.
DequeueDeletesFirst(id) ==
  /\ players[id] # None
  /\ brackets' = RemoveTicket(brackets, players[id])
  /\ players' = [players EXCEPT ![id] = None]
  /\ closed' = closed \cup {players'[id]}
  /\ UNCHANGED <<enqueuedAt, now, joined, held>>

\* Closes the channel of whatever ticket is queued under the id.
Dequeue(id) ==
  /\ players[id] # None
  /\ brackets' = RemoveTicket(brackets, players[id])
  /\ closed' = closed \cup {players[id]}
  /\ players' = [players EXCEPT ![id] = None]
  /\ UNCHANGED <<enqueuedAt, now, joined, held>>

\* Removes the selected players from their brackets and from the index, in order.
TakeOut(w) ==
  /\ brackets' = FoldLeft(RemoveTicket, brackets, w)
  /\ players' = [id \in PlayerIDs |-> IF \E t \in ToSet(w) : PlayerOf[t] = id THEN None ELSE players[id]]

ExtractMatch ==
  \E bk \in FullestBrackets :
    /\ Cardinality(Candidates(bk)) >= PlayersPerMatch
    /\ \E c \in Sortings(Candidates(bk)) :
         TakeOut(Selected(c)) /\ held' = held \cup ToSet(Selected(c))
    /\ UNCHANGED <<closed, enqueuedAt, now, joined>>

\* A coordinator confirms its room, or did not count the member.
LetGo(t) ==
  /\ t \in held
  /\ held' = held \ {t}
  /\ UNCHANGED <<players, brackets, closed, enqueuedAt, now, joined>>

Tick ==
  /\ now < MaxNow
  /\ now' = now + 1
  /\ UNCHANGED <<players, brackets, closed, enqueuedAt, joined, held>>

Next ==
  \/ \E t \in Tickets : Enqueue(t) \/ ReEnqueue(t) \/ LetGo(t)
  \/ \E id \in PlayerIDs : Dequeue(id)
  \/ ExtractMatch
  \/ Tick

Spec == Init /\ [][Next]_vars

-------------------------------------------------------------------------------
(* Correctness                                                               *)

TypeOK ==
  /\ players \in [PlayerIDs -> Tickets \cup {None}]
  /\ brackets \in [Brackets -> Seq(Tickets)]
  /\ closed \subseteq Tickets
  /\ enqueuedAt \in [Tickets -> 0 .. MaxNow]
  /\ now \in 0 .. MaxNow
  /\ joined \subseteq Tickets
  /\ held \subseteq Tickets

Queued == {t \in Tickets : players[PlayerOf[t]] = t}

\* "every player in players appears in exactly one bracket slice", the one of its
\* rating, once; the slices hold nothing else and stay sorted by MMR, through insertions,
\* removals and re-insertions in any order.
IndexMatchesBrackets ==
  \A bk \in Brackets :
    /\ ToSet(brackets[bk]) = {t \in Queued : bracketKey(MMR[t]) = bk}
    /\ Len(brackets[bk]) = Cardinality(ToSet(brackets[bk]))
    /\ Ascending(brackets[bk])

\* An entry is filed under its own player id, a ticket is queued or held but not both,
\* only after its stream has joined, and nobody has joined in the future.
IndexInv ==
  /\ \A id \in PlayerIDs : players[id] # None => PlayerOf[players[id]] = id
  /\ held \cap Queued = {}
  /\ held \cup Queued \subseteq joined
  /\ \A t \in Tickets : enqueuedAt[t] <= now

\* The inductive invariant of the pool: nothing a caller does between two calls can make
\* index, slices and extracted tickets disagree.
PInv == TypeOK /\ IndexInv /\ IndexMatchesBrackets

\* The rooms that a set of candidates could form.
Rooms(C) == {W \in SUBSET C : Cardinality(W) = PlayersPerMatch}

\* No room of consecutive ratings would have scored better: long waiters are passed
\* over only for a room that is tighter by more than their wait is worth.
Consecutive(W, C) == \A t \in C \ W : MMR[t] < Lowest(W) \/ MMR[t] > Highest(W)

BestRoom(S) ==
  \E bk \in FullestBrackets :
    /\ S \in Rooms(Candidates(bk))
    /\ \A W \in Rooms(Candidates(bk)) : Consecutive(W, Candidates(bk)) => Score(S) <= Score(W)

NoBetterRoom == [][held' \ held # {} => BestRoom(held' \ held)]_vars

\* "preventing indefinite starvation": a candidate is passed over only while its wait is
\* worth less than the width of the room it could have had, plus the waits of those who
\* are taken.  However often fresh players replace each other in a tighter room, they
\* cannot pass it any more once it has waited that long.
OvertakenFairly(S) ==
  \E bk \in FullestBrackets :
    /\ S \in Rooms(Candidates(bk))
    /\ \A W \in Rooms(Candidates(bk)) : Consecutive(W, Candidates(bk)) =>
         \A t \in W \ S : WaitWeight * (now - enqueuedAt[t])
                            <= PlayersPerMatch * Spread(W) + WaitWeight * TotalWait(S)

NoEndlessOvertaking == [][held' \ held # {} => OvertakenFairly(held' \ held)]_vars

\* The pool keeps the promise the matchmaking core relies on.
Queue == INSTANCE MatchQueue

QueueSpec == Queue!Spec
===============================================================================
