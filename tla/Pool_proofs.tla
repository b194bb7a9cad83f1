----------------------------- MODULE Pool_proofs -----------------------------
(***************************************************************************)
(* Proofs about Pool, for any tickets, players, ratings, bracket size and  *)
(* room size: the index and the brackets never disagree, no room of        *)
(* neighbouring ratings beats the one that is taken, nobody is passed over *)
(* without bound, and the pool is a MatchQueue.                            *)
(*                                                                         *)
(* An induction is a least counterexample (MinOfNaturals); a fold is a     *)
(* function on subsets that SubsetRecursion shows to be well defined.      *)
(***************************************************************************)
EXTENDS Pool, FiniteSetTheorems, SequenceTheorems, TLAPS

-------------------------------------------------------------------------------
(* Slice operations                                                          *)

\* The least element of a set of naturals: every induction below goes through it.
LEMMA MinOfNaturals ==
  ASSUME NEW T \in SUBSET Nat, T # {}
  PROVE  Min(T) \in T /\ \A y \in T : Min(T) <= y
<1> DEFINE R == {ss \in Nat \X Nat : ss[1] < ss[2]}
<1>1. OpToRel(<, Nat) = R
  BY DEF OpToRel
<1>2. IsWellFoundedOn(R, Nat)
  BY <1>1, NatLessThanWellFounded
<1>3. PICK x \in T : \A y \in T : ~(<<y, x>> \in R)
  <2> HIDE DEF R
  <2>. QED  BY <1>2, WFMin
<1>4. ASSUME NEW y \in T PROVE x <= y
  <2>1. y \in Nat /\ x \in Nat /\ <<y, x>> \notin R
    BY <1>3
  <2>2. <<y, x>>[1] = y /\ <<y, x>>[2] = x
    OBVIOUS
  <2>. QED  BY <2>1, <2>2
<1>. QED  BY <1>3, <1>4 DEF Min

\* insertSorted appends, or inserts before the first rating that is not lower.
LEMMA InsertSortedAt ==
  ASSUME NEW s \in Seq(Tickets), NEW t \in Tickets
  PROVE  \/ /\ insertSorted(s, t) = Append(s, t)
            /\ \A j \in 1 .. Len(s) : ~ (MMR[s[j]] >= MMR[t])
         \/ \E i \in 1 .. Len(s) :
              /\ insertSorted(s, t) = InsertAt(s, i, t)
              /\ MMR[s[i]] >= MMR[t]
              /\ \A j \in 1 .. i - 1 : ~ (MMR[s[j]] >= MMR[t])
<1> DEFINE I == {j \in 1 .. Len(s) : MMR[s[j]] >= MMR[t]}
           i == IF I # {} THEN Min(I) ELSE 0
<1>1. insertSorted(s, t) = IF i = 0 THEN Append(s, t) ELSE InsertAt(s, i, t)
  BY DEF insertSorted, SelectInSeq
<1>2. Len(s) \in Nat /\ I \in SUBSET Nat
  OBVIOUS
<1>3. I # {} => Min(I) \in I /\ \A y \in I : Min(I) <= y
  BY <1>2, MinOfNaturals
<1>4. CASE I = {}
  BY <1>1, <1>4
<1>5. CASE I # {}
  <2>1. i \in 1 .. Len(s) /\ MMR[s[i]] >= MMR[t] /\ i # 0
    BY <1>3, <1>5
  <2>2. \A j \in 1 .. i - 1 : ~ (MMR[s[j]] >= MMR[t])
    BY <1>2, <1>3, <1>5
  <2> HIDE DEF i
  <2>. QED  BY <1>1, <2>1, <2>2
<1>. QED  BY <1>4, <1>5

\* removeFromSlice drops one ticket of the player, or the slice lists none.
LEMMA RemoveFromSliceAt ==
  ASSUME NEW s \in Seq(Tickets), NEW id
  PROVE  \/ removeFromSlice(s, id) = s /\ \A j \in 1 .. Len(s) : PlayerOf[s[j]] # id
         \/ \E i \in 1 .. Len(s) : removeFromSlice(s, id) = RemoveAt(s, i) /\ PlayerOf[s[i]] = id
<1> DEFINE I == {j \in 1 .. Len(s) : PlayerOf[s[j]] = id}
           i == IF I # {} THEN Min(I) ELSE 0
<1>1. removeFromSlice(s, id) = IF i = 0 THEN s ELSE RemoveAt(s, i)
  BY DEF removeFromSlice, SelectInSeq
<1>2. Len(s) \in Nat /\ I \in SUBSET Nat
  OBVIOUS
<1>3. I # {} => Min(I) \in I
  BY <1>2, MinOfNaturals
<1>4. CASE I = {}
  BY <1>1, <1>4
<1>5. CASE I # {}
  <2>1. i \in 1 .. Len(s) /\ PlayerOf[s[i]] = id /\ i # 0
    BY <1>3, <1>5
  <2> HIDE DEF i
  <2>. QED  BY <1>1, <2>1
<1>. QED  BY <1>4, <1>5

\* The places of a sequence after an insertion.
LEMMA InsertAtProperties ==
  ASSUME NEW S, NEW s \in Seq(S), NEW i \in 1 .. Len(s), NEW e \in S
  PROVE  /\ InsertAt(s, i, e) \in Seq(S)
         /\ Len(InsertAt(s, i, e)) = Len(s) + 1
         /\ \A j \in 1 .. Len(s) + 1 :
              InsertAt(s, i, e)[j] = IF j < i THEN s[j] ELSE IF j = i THEN e ELSE s[j - 1]
<1> DEFINE a == SubSeq(s, 1, i - 1)
           b == SubSeq(s, i, Len(s))
           u == <<e>>
           au == a \o u
<1>1. Len(s) \in Nat /\ \A j \in 1 .. Len(s) : s[j] \in S
  OBVIOUS
<1>2. a \in Seq(S) /\ Len(a) = i - 1 /\ \A j \in 1 .. i - 1 : a[j] = s[j]
  <2>1. 1 \in Int /\ i - 1 \in Int /\ \A j \in 1 .. i - 1 : s[j] \in S
    BY <1>1
  <2>2. /\ a \in Seq(S)
        /\ Len(a) = IF 1 <= i - 1 THEN (i - 1) - 1 + 1 ELSE 0
        /\ \A j \in 1 .. (i - 1) - 1 + 1 : a[j] = s[1 + j - 1]
    BY <2>1, SubSeqProperties
  <2>. QED  BY <2>2
<1>3. b \in Seq(S) /\ Len(b) = Len(s) - i + 1 /\ \A j \in 1 .. Len(s) - i + 1 : b[j] = s[i + j - 1]
  <2>1. i \in Int /\ Len(s) \in Int /\ \A j \in i .. Len(s) : s[j] \in S
    BY <1>1
  <2>. QED  BY <1>1, <2>1, SubSeqProperties
<1>4. u \in Seq(S) /\ Len(u) = 1 /\ u[1] = e
  OBVIOUS
<1>7. InsertAt(s, i, e) = au \o b
  BY DEF InsertAt
<1> HIDE DEF a, b, u
<1>5. au \in Seq(S) /\ Len(au) = i /\ \A j \in 1 .. i : au[j] = IF j < i THEN s[j] ELSE e
  <2>1. /\ au \in Seq(S) /\ Len(au) = Len(a) + Len(u)
        /\ \A j \in 1 .. Len(a) + Len(u) : au[j] = IF j <= Len(a) THEN a[j] ELSE u[j - Len(a)]
    BY ONLY <1>2, <1>4, ConcatProperties
  <2>2. Len(a) + Len(u) = i
    BY <1>2, <1>4
  <2>3. ASSUME NEW j \in 1 .. i PROVE au[j] = IF j < i THEN s[j] ELSE e
    <3> HIDE DEF au
    <3>1. CASE j < i
      BY <1>2, <2>1, <2>2, <3>1
    <3>2. CASE j = i
      BY <1>2, <1>4, <2>1, <2>2, <3>2
    <3>. QED  BY <3>1, <3>2
  <2> HIDE DEF au
  <2>. QED  BY <2>1, <2>2, <2>3
<1> HIDE DEF au
<1>6. /\ au \o b \in Seq(S) /\ Len(au \o b) = Len(s) + 1
      /\ \A j \in 1 .. Len(s) + 1 : (au \o b)[j] = IF j <= i THEN au[j] ELSE b[j - i]
  <2>1. /\ au \o b \in Seq(S) /\ Len(au \o b) = Len(au) + Len(b)
        /\ \A j \in 1 .. Len(au) + Len(b) : (au \o b)[j] = IF j <= Len(au) THEN au[j] ELSE b[j - Len(au)]
    BY ONLY <1>3, <1>5, ConcatProperties
  <2>2. Len(au) + Len(b) = Len(s) + 1 /\ Len(au) = i
    BY <1>1, <1>3, <1>5
  <2>. QED  BY <2>1, <2>2
<1> DEFINE r == au \o b
<1> HIDE DEF r
<1>8. ASSUME NEW j \in 1 .. Len(s) + 1
      PROVE  r[j] = IF j < i THEN s[j] ELSE IF j = i THEN e ELSE s[j - 1]
  <2>1. CASE j <= i
    BY <1>5, <1>6, <2>1 DEF r
  <2>2. CASE j > i
    <3>1. j - i \in 1 .. Len(s) - i + 1 /\ i + (j - i) - 1 = j - 1
      BY <1>1, <2>2
    <3>2. r[j] = b[j - i]
      BY <1>6, <2>2 DEF r
    <3>3. b[j - i] = s[j - 1]
      BY <1>3, <3>1
    <3>. QED  BY <2>2, <3>2, <3>3
  <2>. QED  BY <1>1, <2>1, <2>2
<1>. QED  BY <1>6, <1>7, <1>8 DEF r

\* The places of a sequence after a removal.
LEMMA RemoveAtProperties ==
  ASSUME NEW S, NEW s \in Seq(S), NEW i \in 1 .. Len(s)
  PROVE  /\ RemoveAt(s, i) \in Seq(S)
         /\ Len(RemoveAt(s, i)) = Len(s) - 1
         /\ \A j \in 1 .. Len(s) - 1 : RemoveAt(s, i)[j] = IF j < i THEN s[j] ELSE s[j + 1]
<1> DEFINE a == SubSeq(s, 1, i - 1)
           b == SubSeq(s, i + 1, Len(s))
<1>1. Len(s) \in Nat /\ \A j \in 1 .. Len(s) : s[j] \in S
  OBVIOUS
<1>2. a \in Seq(S) /\ Len(a) = i - 1 /\ \A j \in 1 .. i - 1 : a[j] = s[j]
  <2>1. 1 \in Int /\ i - 1 \in Int /\ \A j \in 1 .. i - 1 : s[j] \in S
    BY <1>1
  <2>2. /\ a \in Seq(S)
        /\ Len(a) = IF 1 <= i - 1 THEN (i - 1) - 1 + 1 ELSE 0
        /\ \A j \in 1 .. (i - 1) - 1 + 1 : a[j] = s[1 + j - 1]
    BY <2>1, SubSeqProperties
  <2>. QED  BY <2>2
<1>3. b \in Seq(S) /\ Len(b) = Len(s) - i /\ \A j \in 1 .. Len(s) - i : b[j] = s[i + j]
  <2>1. i + 1 \in Int /\ Len(s) \in Int /\ \A j \in i + 1 .. Len(s) : s[j] \in S
    BY <1>1
  <2>2. /\ b \in Seq(S)
        /\ Len(b) = IF i + 1 <= Len(s) THEN Len(s) - (i + 1) + 1 ELSE 0
        /\ \A j \in 1 .. Len(s) - (i + 1) + 1 : b[j] = s[(i + 1) + j - 1]
    BY <2>1, SubSeqProperties
  <2>3. Len(b) = Len(s) - i
    BY <1>1, <2>2
  <2>4. ASSUME NEW j \in 1 .. Len(s) - i PROVE b[j] = s[i + j]
    <3>1. j \in 1 .. Len(s) - (i + 1) + 1 /\ (i + 1) + j - 1 = i + j
      BY <1>1
    <3>. QED  BY <2>2, <3>1
  <2>. QED  BY <2>2, <2>3, <2>4
<1> HIDE DEF a, b
<1>4. /\ a \o b \in Seq(S) /\ Len(a \o b) = Len(s) - 1
      /\ \A j \in 1 .. Len(s) - 1 : (a \o b)[j] = IF j <= i - 1 THEN a[j] ELSE b[j - (i - 1)]
  <2>1. /\ a \o b \in Seq(S) /\ Len(a \o b) = Len(a) + Len(b)
        /\ \A j \in 1 .. Len(a) + Len(b) : (a \o b)[j] = IF j <= Len(a) THEN a[j] ELSE b[j - Len(a)]
    BY ONLY <1>2, <1>3, ConcatProperties
  <2>2. Len(a) + Len(b) = Len(s) - 1 /\ Len(a) = i - 1
    BY <1>1, <1>2, <1>3
  <2>. QED  BY <2>1, <2>2
<1>5. RemoveAt(s, i) = a \o b
  BY DEF RemoveAt, a, b
<1> DEFINE r == a \o b
<1> HIDE DEF r
<1>6. ASSUME NEW j \in 1 .. Len(s) - 1
      PROVE  r[j] = IF j < i THEN s[j] ELSE s[j + 1]
  <2>1. CASE j < i
    BY <1>1, <1>2, <1>4, <2>1 DEF r
  <2>2. CASE j >= i
    <3>1. j - (i - 1) \in 1 .. Len(s) - i /\ i + (j - (i - 1)) = j + 1
      BY <1>1, <2>2
    <3>2. r[j] = b[j - (i - 1)]
      BY <1>4, <2>2 DEF r
    <3>3. b[j - (i - 1)] = s[j + 1]
      BY <1>3, <3>1
    <3>. QED  BY <2>2, <3>2, <3>3
  <2>. QED  BY <1>1, <2>1, <2>2
<1>. QED  BY <1>4, <1>5, <1>6 DEF r

-------------------------------------------------------------------------------
(* Slices                                                                    *)

\* A slice names no ticket twice.
NoDuplicates(s) == Len(s) = Cardinality(ToSet(s))

\* A slice lists finitely many tickets, each once exactly when no two places agree.
LEMMA SliceCounts ==
  ASSUME NEW S, NEW s \in Seq(S)
  PROVE  /\ IsFiniteSet(ToSet(s)) /\ ToSet(s) \subseteq S
         /\ ToSet(s) = {s[i] : i \in 1 .. Len(s)}
         /\ NoDuplicates(s) <=> \A i, j \in 1 .. Len(s) : s[i] = s[j] => i = j
<1>1. Len(s) \in Nat /\ DOMAIN s = 1 .. Len(s) /\ s \in [1 .. Len(s) -> S]
  OBVIOUS
<1>2. ToSet(s) = {s[i] : i \in 1 .. Len(s)} /\ ToSet(s) \subseteq S
  BY <1>1 DEF ToSet
<1>3. s \in [1 .. Len(s) -> ToSet(s)]
  BY <1>1, <1>2
<1>4. s \in Surjection(1 .. Len(s), ToSet(s))
  BY <1>2, <1>3 DEF Surjection
<1>5. IsFiniteSet(1 .. Len(s)) /\ Cardinality(1 .. Len(s)) = Len(s)
  BY <1>1, FS_Interval
<1>6. /\ IsFiniteSet(ToSet(s))
      /\ Cardinality(ToSet(s)) = Cardinality(1 .. Len(s)) <=> s \in Injection(1 .. Len(s), ToSet(s))
  BY <1>4, <1>5, FS_Surjection
<1>7. s \in Injection(1 .. Len(s), ToSet(s)) <=> \A i, j \in 1 .. Len(s) : s[i] = s[j] => i = j
  BY <1>1, <1>3 DEF Injection, IsInjective
<1>. QED  BY <1>2, <1>5, <1>6, <1>7 DEF NoDuplicates

\* The place where insertSorted puts a ticket: after the lower ratings, before the others.
LEMMA InsertSortedPlace ==
  ASSUME NEW s \in Seq(Tickets), NEW t \in Tickets
  PROVE  /\ insertSorted(s, t) \in Seq(Tickets)
         /\ Len(insertSorted(s, t)) = Len(s) + 1
         /\ \E i \in 1 .. Len(s) + 1 :
              /\ \A j \in 1 .. Len(s) + 1 :
                   insertSorted(s, t)[j] = IF j < i THEN s[j] ELSE IF j = i THEN t ELSE s[j - 1]
              /\ \A j \in 1 .. i - 1 : ~ (MMR[s[j]] >= MMR[t])
              /\ i <= Len(s) => MMR[s[i]] >= MMR[t]
<1>1. Len(s) \in Nat
  OBVIOUS
<1>2. CASE insertSorted(s, t) = Append(s, t) /\ \A j \in 1 .. Len(s) : ~ (MMR[s[j]] >= MMR[t])
  <2>1. /\ Append(s, t) \in Seq(Tickets) /\ Len(Append(s, t)) = Len(s) + 1
        /\ \A j \in 1 .. Len(s) : Append(s, t)[j] = s[j]
        /\ Append(s, t)[Len(s) + 1] = t
    BY AppendProperties
  <2>2. Len(s) + 1 \in 1 .. Len(s) + 1 /\ (Len(s) + 1) - 1 = Len(s) /\ ~(Len(s) + 1 <= Len(s))
    BY <1>1
  <2>3. \A j \in 1 .. Len(s) + 1 : j < Len(s) + 1 \/ j = Len(s) + 1
    BY <1>1
  <2>4. \A j \in 1 .. Len(s) + 1 : j < Len(s) + 1 => j \in 1 .. Len(s)
    BY <1>1
  <2>. QED  BY <1>2, <2>1, <2>2, <2>3, <2>4
<1>3. ASSUME NEW i \in 1 .. Len(s), insertSorted(s, t) = InsertAt(s, i, t), MMR[s[i]] >= MMR[t],
             \A j \in 1 .. i - 1 : ~ (MMR[s[j]] >= MMR[t])
      PROVE  /\ insertSorted(s, t) \in Seq(Tickets)
             /\ Len(insertSorted(s, t)) = Len(s) + 1
             /\ \E k \in 1 .. Len(s) + 1 :
                  /\ \A j \in 1 .. Len(s) + 1 :
                       insertSorted(s, t)[j] = IF j < k THEN s[j] ELSE IF j = k THEN t ELSE s[j - 1]
                  /\ \A j \in 1 .. k - 1 : ~ (MMR[s[j]] >= MMR[t])
                  /\ k <= Len(s) => MMR[s[k]] >= MMR[t]
  <2>1. i \in 1 .. Len(s) + 1
    BY <1>1
  <2>2. /\ InsertAt(s, i, t) \in Seq(Tickets)
        /\ Len(InsertAt(s, i, t)) = Len(s) + 1
        /\ \A j \in 1 .. Len(s) + 1 :
             InsertAt(s, i, t)[j] = IF j < i THEN s[j] ELSE IF j = i THEN t ELSE s[j - 1]
    BY ONLY s \in Seq(Tickets), t \in Tickets, i \in 1 .. Len(s), InsertAtProperties
  <2>. QED  BY ONLY <1>3, <2>1, <2>2
<1>. QED  BY <1>2, <1>3, InsertSortedAt

\* Inserting a new ticket adds it, once, and keeps the order.
LEMMA InsertSortedKeeps ==
  ASSUME NEW s \in Seq(Tickets), NEW t \in Tickets, t \notin ToSet(s),
         NoDuplicates(s), Ascending(s)
  PROVE  /\ insertSorted(s, t) \in Seq(Tickets)
         /\ ToSet(insertSorted(s, t)) = ToSet(s) \cup {t}
         /\ NoDuplicates(insertSorted(s, t))
         /\ Ascending(insertSorted(s, t))
<1> DEFINE r == insertSorted(s, t)
<1>1. Len(s) \in Nat /\ r \in Seq(Tickets) /\ Len(r) = Len(s) + 1
  BY InsertSortedPlace
<1>2. PICK i \in 1 .. Len(s) + 1 :
        /\ \A j \in 1 .. Len(s) + 1 : r[j] = IF j < i THEN s[j] ELSE IF j = i THEN t ELSE s[j - 1]
        /\ \A j \in 1 .. i - 1 : ~ (MMR[s[j]] >= MMR[t])
        /\ i <= Len(s) => MMR[s[i]] >= MMR[t]
  BY InsertSortedPlace
<1> HIDE DEF r
<1>3. /\ ToSet(s) = {s[j] : j \in 1 .. Len(s)} /\ ToSet(r) = {r[j] : j \in 1 .. Len(r)}
      /\ IsFiniteSet(ToSet(s)) /\ ToSet(s) \subseteq Tickets
  <2>1. s \in Seq(Tickets) /\ r \in Seq(Tickets)
    BY <1>1
  <2>. QED  BY ONLY <2>1, SliceCounts
<1>4. ToSet(r) = ToSet(s) \cup {t}
  <2>1. ASSUME NEW j \in 1 .. Len(s) + 1 PROVE r[j] \in ToSet(s) \cup {t}
    BY <1>1, <1>2, <1>3
  <2>2. r[i] = t /\ i \in 1 .. Len(r)
    BY <1>1, <1>2
  <2>3. ASSUME NEW j \in 1 .. Len(s) PROVE s[j] \in ToSet(r)
    <3>1. CASE j < i
      <4>1. j \in 1 .. Len(r) /\ r[j] = s[j]
        BY <1>1, <1>2, <3>1
      <4>. QED  BY <1>3, <4>1
    <3>2. CASE j >= i
      <4>1. j + 1 \in 1 .. Len(r) /\ r[j + 1] = s[j]
        BY <1>1, <1>2, <3>2
      <4>. QED  BY <1>3, <4>1
    <3>. QED  BY <3>1, <3>2
  <2>. QED  BY <1>1, <1>3, <2>1, <2>2, <2>3
<1>5. NoDuplicates(r)
  <2>1. Cardinality(ToSet(s) \cup {t}) = Cardinality(ToSet(s)) + 1
    BY <1>3, FS_AddElement
  <2>. QED  BY <1>1, <1>4, <2>1 DEF NoDuplicates
<1>6. Ascending(r)
  <2>1. \A j \in 1 .. Len(s) : s[j] \in Tickets /\ MMR[s[j]] \in Int
    BY PoolAssumption
  <2>2. MMR[t] \in Int
    BY PoolAssumption
  <2>3. \A j, k \in 1 .. Len(s) : j < k => MMR[s[j]] <= MMR[s[k]]
    BY DEF Ascending
  <2>4. \A j \in 1 .. Len(s) : j >= i => MMR[t] <= MMR[s[j]]
    BY <1>1, <1>2, <2>1, <2>2, <2>3
  <2>5. ASSUME NEW j \in 1 .. Len(s) + 1, NEW k \in 1 .. Len(s) + 1, j < k
        PROVE  MMR[r[j]] <= MMR[r[k]]
    <3>1. CASE k < i
      <4>1. j \in 1 .. Len(s) /\ k \in 1 .. Len(s) /\ r[j] = s[j] /\ r[k] = s[k]
        BY <1>1, <1>2, <2>5, <3>1
      <4>. QED  BY <2>3, <2>5, <4>1
    <3>2. CASE k = i
      <4>1. j \in 1 .. Len(s) /\ j \in 1 .. i - 1 /\ r[j] = s[j] /\ r[k] = t
        BY <1>1, <1>2, <2>5, <3>2
      <4>. QED  BY <1>2, <2>1, <2>2, <4>1
    <3>3. CASE k > i /\ j = i
      <4>1. k - 1 \in 1 .. Len(s) /\ k - 1 >= i /\ r[j] = t /\ r[k] = s[k - 1]
        BY <1>1, <1>2, <3>3
      <4>. QED  BY <2>4, <4>1
    <3>4. CASE k > i /\ j < i
      <4>1. /\ j \in 1 .. Len(s) /\ k - 1 \in 1 .. Len(s) /\ (j < k - 1 \/ j = k - 1)
            /\ r[j] = s[j] /\ r[k] = s[k - 1]
        BY <1>1, <1>2, <2>5, <3>4
      <4>2. j \in 1 .. Len(s) /\ k - 1 \in 1 .. Len(s)
        BY <1>1, <3>4
      <4>. QED  BY <2>1, <2>3, <4>1, <4>2
    <3>5. CASE k > i /\ j > i
      <4>1. j - 1 \in 1 .. Len(s) /\ k - 1 \in 1 .. Len(s) /\ j - 1 < k - 1 /\ r[j] = s[j - 1] /\ r[k] = s[k - 1]
        BY <1>1, <1>2, <2>5, <3>5
      <4>. QED  BY <2>3, <4>1
    <3>. QED  BY <3>1, <3>2, <3>3, <3>4, <3>5
  <2>6. DOMAIN r = 1 .. Len(s) + 1
    BY <1>1
  <2>. QED  BY <2>5, <2>6 DEF Ascending
<1>. QED  BY <1>1, <1>4, <1>5, <1>6 DEF r

\* Removing the only ticket of a player takes that ticket out and keeps the order.
LEMMA RemoveFromSliceKeeps ==
  ASSUME NEW s \in Seq(Tickets), NEW t \in ToSet(s),
         \A u \in ToSet(s) : PlayerOf[u] = PlayerOf[t] => u = t,
         NoDuplicates(s), Ascending(s)
  PROVE  LET r == removeFromSlice(s, PlayerOf[t])
         IN  /\ r \in Seq(Tickets)
             /\ ToSet(r) = ToSet(s) \ {t}
             /\ NoDuplicates(r)
             /\ Ascending(r)
<1> DEFINE r == removeFromSlice(s, PlayerOf[t])
<1>1. /\ Len(s) \in Nat /\ ToSet(s) = {s[j] : j \in 1 .. Len(s)} /\ IsFiniteSet(ToSet(s))
      /\ \A j, k \in 1 .. Len(s) : s[j] = s[k] => j = k
  BY SliceCounts
<1>2. PICK i \in 1 .. Len(s) : r = RemoveAt(s, i) /\ PlayerOf[s[i]] = PlayerOf[t]
  <2>1. \E j \in 1 .. Len(s) : PlayerOf[s[j]] = PlayerOf[t]
    BY <1>1
  <2>. QED  BY <2>1, RemoveFromSliceAt
<1>3. s[i] = t
  BY <1>1, <1>2
<1>4. /\ r \in Seq(Tickets) /\ Len(r) = Len(s) - 1
      /\ \A j \in 1 .. Len(s) - 1 : r[j] = IF j < i THEN s[j] ELSE s[j + 1]
  BY <1>2, RemoveAtProperties
<1> HIDE DEF r
<1>5. ToSet(r) = {r[j] : j \in 1 .. Len(r)}
  BY <1>4, SliceCounts
<1>6. ToSet(r) = ToSet(s) \ {t}
  <2>1. ASSUME NEW j \in 1 .. Len(s) - 1 PROVE r[j] \in ToSet(s) /\ r[j] # t
    <3>1. CASE j < i
      <4>1. j \in 1 .. Len(s) /\ j # i /\ r[j] = s[j]
        BY <1>1, <1>4, <3>1
      <4>. QED  BY <1>1, <1>3, <4>1
    <3>2. CASE j >= i
      <4>1. j + 1 \in 1 .. Len(s) /\ j + 1 # i /\ r[j] = s[j + 1]
        BY <1>1, <1>4, <3>2
      <4>. QED  BY <1>1, <1>3, <4>1
    <3>. QED  BY <1>1, <3>1, <3>2
  <2>2. ASSUME NEW j \in 1 .. Len(s), s[j] # t PROVE s[j] \in ToSet(r)
    <3>1. CASE j < i
      <4>1. j \in 1 .. Len(r) /\ r[j] = s[j]
        BY <1>1, <1>4, <3>1
      <4>. QED  BY <1>5, <4>1
    <3>2. CASE j > i
      <4>1. j - 1 \in 1 .. Len(r) /\ r[j - 1] = s[j]
        BY <1>1, <1>4, <3>2
      <4>. QED  BY <1>5, <4>1
    <3>3. j < i \/ j > i
      BY <1>1, <1>3, <2>2
    <3>. QED  BY <3>1, <3>2, <3>3
  <2>3. Len(r) = Len(s) - 1
    BY <1>4
  <2>4. ASSUME NEW u \in ToSet(r) PROVE u \in ToSet(s) \ {t}
    BY <1>5, <2>1, <2>3
  <2>5. ASSUME NEW u \in ToSet(s) \ {t} PROVE u \in ToSet(r)
    BY <1>1, <2>2
  <2>. QED  BY <2>4, <2>5
<1>7. NoDuplicates(r)
  <2>1. Cardinality(ToSet(s) \ {t}) = Cardinality(ToSet(s)) - 1
    BY <1>1, FS_RemoveElement
  <2>2. Len(s) = Cardinality(ToSet(s)) /\ Len(r) = Len(s) - 1
    BY <1>1, <1>4 DEF NoDuplicates
  <2>3. Len(r) = Cardinality(ToSet(r))
    BY ONLY <1>6, <2>1, <2>2
  <2>. QED  BY <2>3 DEF NoDuplicates
<1>8. Ascending(r)
  <2>1. \A j, k \in 1 .. Len(s) : j < k => MMR[s[j]] <= MMR[s[k]]
    BY DEF Ascending
  <2>2. ASSUME NEW j \in 1 .. Len(s) - 1, NEW k \in 1 .. Len(s) - 1, j < k
        PROVE  MMR[r[j]] <= MMR[r[k]]
    <3>1. PICK a \in 1 .. Len(s) : r[j] = s[a] /\ a = IF j < i THEN j ELSE j + 1
      BY <1>1, <1>4
    <3>2. PICK b \in 1 .. Len(s) : r[k] = s[b] /\ b = IF k < i THEN k ELSE k + 1
      BY <1>1, <1>4
    <3>3. a < b
      BY <1>1, <2>2, <3>1, <3>2
    <3>. QED  BY <2>1, <3>1, <3>2, <3>3
  <2>3. DOMAIN r = 1 .. Len(s) - 1
    BY <1>1, <1>4
  <2>. QED  BY <2>2, <2>3 DEF Ascending
<1>. QED  BY <1>4, <1>6, <1>7, <1>8 DEF r

-------------------------------------------------------------------------------
(* Folds                                                                     *)

\* A function on the subsets of a finite set may be defined from its value on the subset
\* without one chosen element: this is what the folds of the model rest on.
Chooses(c, D) == \A s \in SUBSET D : s # {} => c[s] \in s
Recursive(f, D, base, F, c) ==
  \A s \in SUBSET D : f[s] = IF s = {} THEN base ELSE F[<<s, f[s \ {c[s]}]>>]

\* Such a function exists, whatever the order in which the elements are chosen.
LEMMA SubsetRecursion ==
  ASSUME NEW D, IsFiniteSet(D), NEW V, NEW base \in V, NEW F \in [(SUBSET D) \X V -> V],
         NEW c, Chooses(c, D)
  PROVE  \E f \in [SUBSET D -> V] : Recursive(f, D, base, F, c)
<1> DEFINE Step(f, s) == IF s = {} THEN base ELSE F[<<s, f[s \ {c[s]}]>>]
           Upto(k) == \E f \in [SUBSET D -> V] : \A s \in SUBSET D : Cardinality(s) <= k => f[s] = Step(f, s)
           Bad == {k \in Nat : ~Upto(k)}
<1>1. \A s \in SUBSET D : IsFiniteSet(s) /\ Cardinality(s) \in Nat /\ Cardinality(s) <= Cardinality(D)
  BY FS_Subset, FS_CardinalityType
<1>2. ASSUME NEW f \in [SUBSET D -> V], NEW s \in SUBSET D PROVE Step(f, s) \in V
  <2>1. s \ {c[s]} \in SUBSET D
    OBVIOUS
  <2>2. f[s \ {c[s]}] \in V
    BY <2>1
  <2>3. <<s, f[s \ {c[s]}]>> \in (SUBSET D) \X V
    BY <2>2
  <2>. QED  BY <2>3
<1> HIDE DEF Step
<1>3. Upto(0)
  <2> DEFINE f == [s \in SUBSET D |-> base]
  <2>1. f \in [SUBSET D -> V]
    OBVIOUS
  <2>2. ASSUME NEW s \in SUBSET D, Cardinality(s) <= 0 PROVE f[s] = Step(f, s)
    <3>1. s = {}
      BY <1>1, <2>2, FS_EmptySet
    <3>. QED  BY <3>1 DEF Step
  <2>. QED  BY <2>1, <2>2
<1>4. ASSUME NEW k \in Nat, k # 0, Upto(k - 1) PROVE Upto(k)
  <2>1. PICK f \in [SUBSET D -> V] : \A s \in SUBSET D : Cardinality(s) <= k - 1 => f[s] = Step(f, s)
    BY <1>4
  <2> DEFINE h == [s \in SUBSET D |-> Step(f, s)]
  <2>2. h \in [SUBSET D -> V] /\ \A s \in SUBSET D : h[s] = Step(f, s)
    BY <1>2
  <2> HIDE DEF h
  <2>3. ASSUME NEW s \in SUBSET D, Cardinality(s) <= k PROVE h[s] = Step(h, s)
    <3>1. CASE s = {}
      BY <2>2, <3>1 DEF Step
    <3>2. CASE s # {}
      <4>1. c[s] \in s /\ s \ {c[s]} \in SUBSET D
        BY <3>2 DEF Chooses
      <4>2. Cardinality(s \ {c[s]}) = Cardinality(s) - 1
        BY <1>1, <4>1, FS_RemoveElement
      <4>3. Cardinality(s \ {c[s]}) <= k - 1
        BY <1>1, <2>3, <4>2
      <4>4. h[s \ {c[s]}] = f[s \ {c[s]}]
        BY <2>1, <2>2, <4>1, <4>3
      <4>. QED  BY <2>2, <4>4 DEF Step
    <3>. QED  BY <3>1, <3>2
  <2>. QED  BY <2>2, <2>3
<1>5. Bad = {}
  <2>1. SUFFICES ASSUME Bad # {} PROVE FALSE
    OBVIOUS
  <2>2. Bad \in SUBSET Nat
    OBVIOUS
  <2>3. Min(Bad) \in Bad /\ \A k \in Bad : Min(Bad) <= k
    BY ONLY <2>1, <2>2, MinOfNaturals
  <2>4. PICK k \in Nat : ~Upto(k) /\ \A j \in Nat : ~Upto(j) => k <= j
    BY <2>3
  <2> HIDE DEF Upto
  <2>5. k # 0 /\ k - 1 \in Nat
    BY <1>3, <2>4
  <2>6. ~Upto(k - 1)
    BY <1>4, <2>4, <2>5
  <2>. QED  BY <2>4, <2>5, <2>6
<1>6. Upto(Cardinality(D))
  <2>1. Cardinality(D) \in Nat
    BY <1>1
  <2> HIDE DEF Upto
  <2>. QED  BY <1>5, <2>1
<1>7. PICK f \in [SUBSET D -> V] : \A s \in SUBSET D : Cardinality(s) <= Cardinality(D) => f[s] = Step(f, s)
  BY <1>6
<1>8. Recursive(f, D, base, F, c)
  BY <1>1, <1>7 DEF Recursive, Step
<1>. QED  BY <1>8

-------------------------------------------------------------------------------
(* Brackets                                                                  *)

Slices == [Brackets -> Seq(Tickets)]

\* The brackets list exactly the tickets of Q, each in the slice of its rating.
Lists(b, Q) ==
  \A bk \in Brackets :
    /\ ToSet(b[bk]) = {t \in Q : bracketKey(MMR[t]) = bk}
    /\ NoDuplicates(b[bk])
    /\ Ascending(b[bk])

\* Tickets of different players.
OnePerPlayer(Q) == \A t, u \in Q : PlayerOf[t] = PlayerOf[u] => t = u

\* Inserting a ticket that no slice lists.
LEMMA InsertLists ==
  ASSUME NEW b \in Slices, NEW Q \in SUBSET Tickets, Lists(b, Q), NEW t \in Tickets, t \notin Q
  PROVE  LET bk == bracketKey(MMR[t])
             c == [b EXCEPT ![bk] = insertSorted(@, t)]
         IN  c \in Slices /\ Lists(c, Q \cup {t})
<1> DEFINE k == bracketKey(MMR[t])
           c == [b EXCEPT ![k] = insertSorted(b[k], t)]
<1>1. k \in Brackets
  BY BracketsAssumption
<1> HIDE DEF k
<1>2. b[k] \in Seq(Tickets) /\ NoDuplicates(b[k]) /\ Ascending(b[k]) /\ t \notin ToSet(b[k])
  BY <1>1 DEF Slices, Lists
<1>3. /\ insertSorted(b[k], t) \in Seq(Tickets)
      /\ ToSet(insertSorted(b[k], t)) = ToSet(b[k]) \cup {t}
      /\ NoDuplicates(insertSorted(b[k], t))
      /\ Ascending(insertSorted(b[k], t))
  BY <1>2, InsertSortedKeeps
<1>4. c \in Slices /\ c[k] = insertSorted(b[k], t) /\ \A j \in Brackets \ {k} : c[j] = b[j]
  BY <1>1, <1>3 DEF Slices
<1> HIDE DEF c
<1>5. ASSUME NEW j \in Brackets
      PROVE  /\ ToSet(c[j]) = {u \in Q \cup {t} : bracketKey(MMR[u]) = j}
             /\ NoDuplicates(c[j]) /\ Ascending(c[j])
  <2>1. CASE j = k
    <3>1. ToSet(b[k]) = {u \in Q : bracketKey(MMR[u]) = k}
      BY <1>1 DEF Lists
    <3>2. {u \in Q \cup {t} : bracketKey(MMR[u]) = k} = ToSet(b[k]) \cup {t}
      BY <3>1 DEF k
    <3>. QED  BY <1>3, <1>4, <2>1, <3>2
  <2>2. CASE j # k
    <3>1. c[j] = b[j] /\ bracketKey(MMR[t]) # j
      BY <1>4, <2>2 DEF k
    <3>2. {u \in Q \cup {t} : bracketKey(MMR[u]) = j} = {u \in Q : bracketKey(MMR[u]) = j}
      BY <3>1
    <3>. QED  BY <3>1, <3>2 DEF Lists
  <2>. QED  BY <2>1, <2>2
<1>6. Lists(c, Q \cup {t})
  BY <1>5 DEF Lists
<1>. QED  BY <1>4, <1>6 DEF c, k

\* Removing the ticket of a player who has no other in the brackets.
LEMMA RemoveLists ==
  ASSUME NEW b \in Slices, NEW Q \in SUBSET Tickets, Lists(b, Q), OnePerPlayer(Q), NEW t \in Q
  PROVE  RemoveTicket(b, t) \in Slices /\ Lists(RemoveTicket(b, t), Q \ {t})
<1> DEFINE k == bracketKey(MMR[t])
           r == removeFromSlice(b[k], PlayerOf[t])
           c == [b EXCEPT ![k] = r]
<1>1. k \in Brackets
  BY BracketsAssumption
<1>2. RemoveTicket(b, t) = c
  BY DEF RemoveTicket
<1> HIDE DEF k
<1>3. /\ b[k] \in Seq(Tickets) /\ NoDuplicates(b[k]) /\ Ascending(b[k])
      /\ ToSet(b[k]) = {u \in Q : bracketKey(MMR[u]) = k}
  BY <1>1 DEF Slices, Lists
<1>4. t \in ToSet(b[k]) /\ \A u \in ToSet(b[k]) : PlayerOf[u] = PlayerOf[t] => u = t
  BY <1>3 DEF OnePerPlayer, k
<1>5. r \in Seq(Tickets) /\ ToSet(r) = ToSet(b[k]) \ {t} /\ NoDuplicates(r) /\ Ascending(r)
  BY <1>3, <1>4, RemoveFromSliceKeeps
<1> HIDE DEF r
<1>6. c \in Slices /\ c[k] = r /\ \A j \in Brackets \ {k} : c[j] = b[j]
  BY <1>1, <1>5 DEF Slices
<1> HIDE DEF c
<1>7. ASSUME NEW j \in Brackets
      PROVE  /\ ToSet(c[j]) = {u \in Q \ {t} : bracketKey(MMR[u]) = j}
             /\ NoDuplicates(c[j]) /\ Ascending(c[j])
  <2>1. CASE j = k
    <3>1. {u \in Q \ {t} : bracketKey(MMR[u]) = k} = ToSet(b[k]) \ {t}
      BY <1>3
    <3>. QED  BY <1>5, <1>6, <2>1, <3>1
  <2>2. CASE j # k
    <3>1. c[j] = b[j] /\ bracketKey(MMR[t]) # j
      BY <1>6, <2>2 DEF k
    <3>2. {u \in Q \ {t} : bracketKey(MMR[u]) = j} = {u \in Q : bracketKey(MMR[u]) = j}
      BY <3>1
    <3>. QED  BY <3>1, <3>2 DEF Lists
  <2>. QED  BY <2>1, <2>2
<1>8. Lists(c, Q \ {t})
  BY <1>7 DEF Lists
<1>. QED  BY <1>2, <1>6, <1>8

\* The removal loop of ExtractMatch as a function of the places it has been through.
Removals(b, w) ==
  CHOOSE f : f = [s \in SUBSET (DOMAIN w) |->
                    IF s = {} THEN b ELSE RemoveTicket(f[s \ {Max(s)}], w[Max(s)])]

\* A largest place among finitely many.
LEMMA MaxOfPlaces ==
  ASSUME NEW n \in Nat, NEW s \in SUBSET (1 .. n), s # {}
  PROVE  Max(s) \in s /\ \A i \in s : i <= Max(s)
<1> DEFINE M == {n - i : i \in s}
<1>1. M \in SUBSET Nat /\ M # {}
  OBVIOUS
<1>2. Min(M) \in M /\ \A j \in M : Min(M) <= j
  BY <1>1, MinOfNaturals
<1>3. PICK m \in s : n - m = Min(M)
  BY <1>2
<1>4. ASSUME NEW i \in s PROVE m >= i
  <2>1. n - i \in M
    OBVIOUS
  <2>2. n - m <= n - i
    BY <1>2, <1>3, <2>1
  <2>. QED  BY <2>2
<1>. QED  BY <1>4 DEF Max

\* A ticket can always be removed, listed or not.
LEMMA RemoveTicketType ==
  ASSUME NEW b \in Slices, NEW t \in Tickets
  PROVE  RemoveTicket(b, t) \in Slices
<1> DEFINE k == bracketKey(MMR[t])
           r == removeFromSlice(b[k], PlayerOf[t])
<1>1. k \in Brackets /\ b[k] \in Seq(Tickets)
  BY BracketsAssumption DEF Slices
<1>2. r \in Seq(Tickets)
  BY <1>1, RemoveFromSliceAt, RemoveAtProperties
<1>3. RemoveTicket(b, t) = [b EXCEPT ![k] = r]
  BY DEF RemoveTicket
<1> HIDE DEF k, r
<1>. QED  BY <1>1, <1>2, <1>3 DEF Slices

\* The loop is well defined, and goes through the places of w from the first to the last.
LEMMA RemovalsUnroll ==
  ASSUME NEW b \in Slices, NEW w \in Seq(Tickets)
  PROVE  /\ FoldLeft(RemoveTicket, b, w) = Removals(b, w)[1 .. Len(w)]
         /\ Removals(b, w)[{}] = b
         /\ \A k \in 1 .. Len(w) : Removals(b, w)[1 .. k] = RemoveTicket(Removals(b, w)[1 .. k - 1], w[k])
<1> DEFINE D == 1 .. Len(w)
           Step(f, s) == IF s = {} THEN b ELSE RemoveTicket(f[s \ {Max(s)}], w[Max(s)])
           F == [p \in (SUBSET D) \X Slices |-> IF p[1] = {} THEN p[2] ELSE RemoveTicket(p[2], w[Max(p[1])])]
           c == [s \in SUBSET D |-> Max(s)]
           R == Removals(b, w)
<1>1. Len(w) \in Nat /\ DOMAIN w = D /\ \A i \in D : w[i] \in Tickets
  OBVIOUS
<1>2. IsFiniteSet(D)
  BY <1>1, FS_Interval
<1>3. \A s \in SUBSET D : s # {} => c[s] = Max(s) /\ Max(s) \in s
  BY <1>1, MaxOfPlaces
<1>4. F \in [(SUBSET D) \X Slices -> Slices]
  <2>1. ASSUME NEW p \in (SUBSET D) \X Slices, p[1] # {} PROVE RemoveTicket(p[2], w[Max(p[1])]) \in Slices
    <3>1. p[1] \in SUBSET D /\ p[2] \in Slices
      OBVIOUS
    <3>2. w[Max(p[1])] \in Tickets
      BY <1>1, <1>3, <2>1, <3>1
    <3>. QED  BY <3>1, <3>2, RemoveTicketType
  <2>. QED  BY <2>1
<1>5. \A s \in SUBSET D, v \in Slices : s # {} => F[<<s, v>>] = RemoveTicket(v, w[Max(s)])
  OBVIOUS
<1> HIDE DEF c, F
<1>6. PICK f \in [SUBSET D -> Slices] : Recursive(f, D, b, F, c)
  <2> HIDE DEF D
  <2>1. Chooses(c, D)
    BY <1>3 DEF Chooses
  <2>2. \E f \in [SUBSET D -> Slices] : Recursive(f, D, b, F, c)
    BY ONLY <1>2, <1>4, <2>1, b \in Slices, SubsetRecursion
  <2>. QED  BY <2>2
<1>7. ASSUME NEW s \in SUBSET D PROVE f[s] = Step(f, s)
  <2>1. CASE s = {}
    BY <1>6, <2>1 DEF Recursive
  <2>2. CASE s # {}
    <3>1. s \ {c[s]} \in SUBSET D
      OBVIOUS
    <3>2. f[s \ {c[s]}] \in Slices
      BY <3>1
    <3>3. f[s] = F[<<s, f[s \ {c[s]}]>>]
      BY <1>6, <2>2 DEF Recursive
    <3>4. c[s] = Max(s) /\ f[s \ {Max(s)}] \in Slices
      BY <1>3, <2>2, <3>2
    <3>5. F[<<s, f[s \ {Max(s)}]>>] = RemoveTicket(f[s \ {Max(s)}], w[Max(s)])
      BY <1>5, <2>2, <3>4
    <3>. QED  BY <2>2, <3>3, <3>4, <3>5
  <2>. QED  BY <2>1, <2>2
<1> HIDE DEF Step
<1>8. f = [s \in SUBSET D |-> Step(f, s)]
  BY <1>7
<1>9. R = [s \in SUBSET D |-> Step(R, s)]
  BY <1>1, <1>8 DEF Removals, Step
<1> HIDE DEF R
<1>10. \A s \in SUBSET D : R[s] = Step(R, s)
  BY <1>9
<1>11. FoldLeft(RemoveTicket, b, w) = R[D]
  <2>1. FoldLeft(RemoveTicket, b, w) = Removals(b, w)[DOMAIN w]
    BY DEF FoldLeft, MapThenFoldSet, Removals
  <2>. QED  BY <1>1, <2>1 DEF R
<1>12. R[{}] = b
  <2>1. {} \in SUBSET D
    OBVIOUS
  <2>. QED  BY <1>10, <2>1 DEF Step
<1>13. ASSUME NEW k \in D PROVE R[1 .. k] = RemoveTicket(R[1 .. k - 1], w[k])
  <2>1. 1 .. k \in SUBSET D /\ 1 .. k # {}
    BY <1>1
  <2>2. Max(1 .. k) = k
    <3>1. Max(1 .. k) \in 1 .. k /\ \A i \in 1 .. k : i <= Max(1 .. k)
      BY <1>1, <2>1, MaxOfPlaces
    <3>2. k \in 1 .. k
      BY <1>1
    <3>. QED  BY <1>1, <3>1, <3>2
  <2>3. (1 .. k) \ {k} = 1 .. k - 1
    BY <1>1
  <2>4. R[1 .. k] = RemoveTicket(R[(1 .. k) \ {Max(1 .. k)}], w[Max(1 .. k)])
    BY <1>10, <2>1 DEF Step
  <2>. QED  BY <2>2, <2>3, <2>4
<1>. QED  BY <1>11, <1>12, <1>13 DEF R

\* Removing distinct listed tickets one after the other leaves the others listed.
LEMMA RemoveAllLists ==
  ASSUME NEW b \in Slices, NEW Q \in SUBSET Tickets, Lists(b, Q), OnePerPlayer(Q),
         NEW w \in Seq(Q), NoDuplicates(w)
  PROVE  /\ FoldLeft(RemoveTicket, b, w) \in Slices
         /\ Lists(FoldLeft(RemoveTicket, b, w), Q \ ToSet(w))
<1> DEFINE R == Removals(b, w)
           Done(k) == {w[i] : i \in 1 .. k}
           Good(k) == R[1 .. k] \in Slices /\ Lists(R[1 .. k], Q \ Done(k))
           Bad == {k \in 0 .. Len(w) : ~Good(k)}
<1>1. Len(w) \in Nat /\ (\A i \in 1 .. Len(w) : w[i] \in Q) /\ w \in Seq(Tickets)
  OBVIOUS
<1>2. \A i, j \in 1 .. Len(w) : w[i] = w[j] => i = j
  BY SliceCounts
<1>3. /\ FoldLeft(RemoveTicket, b, w) = R[1 .. Len(w)]
      /\ R[{}] = b
      /\ \A k \in 1 .. Len(w) : R[1 .. k] = RemoveTicket(R[1 .. k - 1], w[k])
  BY <1>1, RemovalsUnroll
<1> HIDE DEF R
<1>4. Good(0)
  <2>1. 1 .. 0 = {} /\ Done(0) = {}
    OBVIOUS
  <2>2. Q \ Done(0) = Q
    BY <2>1
  <2> HIDE DEF Done
  <2>. QED  BY <1>3, <2>1, <2>2
<1>5. ASSUME NEW k \in 1 .. Len(w), Good(k - 1) PROVE Good(k)
  <2>1. w[k] \in Q \ Done(k - 1)
    BY <1>1, <1>2
  <2>2. Done(k) = Done(k - 1) \cup {w[k]}
    <3>1. 1 .. k = (1 .. k - 1) \cup {k}
      BY <1>1
    <3>. QED  BY <3>1
  <2> HIDE DEF Done
  <2>3. OnePerPlayer(Q \ Done(k - 1)) /\ Q \ Done(k - 1) \in SUBSET Tickets
    BY DEF OnePerPlayer
  <2>4. R[1 .. k - 1] \in Slices /\ Lists(R[1 .. k - 1], Q \ Done(k - 1))
    BY <1>5
  <2>5. /\ RemoveTicket(R[1 .. k - 1], w[k]) \in Slices
        /\ Lists(RemoveTicket(R[1 .. k - 1], w[k]), (Q \ Done(k - 1)) \ {w[k]})
    BY ONLY <2>1, <2>3, <2>4, RemoveLists
  <2>6. (Q \ Done(k - 1)) \ {w[k]} = Q \ Done(k)
    BY <2>2
  <2>7. R[1 .. k] = RemoveTicket(R[1 .. k - 1], w[k])
    BY <1>3
  <2>. QED  BY <2>5, <2>6, <2>7
<1> HIDE DEF Good
<1>6. Bad = {}
  <2>1. SUFFICES ASSUME Bad # {} PROVE FALSE
    OBVIOUS
  <2>2. Bad \in SUBSET Nat
    BY <1>1
  <2>3. Min(Bad) \in Bad /\ \A k \in Bad : Min(Bad) <= k
    BY ONLY <2>1, <2>2, MinOfNaturals
  <2>4. PICK k \in 0 .. Len(w) : ~Good(k) /\ \A j \in 0 .. Len(w) : ~Good(j) => k <= j
    BY <2>3
  <2>5. k \in 1 .. Len(w) /\ k - 1 \in 0 .. Len(w) /\ ~(k <= k - 1)
    BY <1>1, <1>4, <2>4
  <2>. QED  BY <1>5, <2>4, <2>5
<1>7. Good(Len(w))
  BY <1>1, <1>6
<1>8. Done(Len(w)) = ToSet(w)
  BY <1>1, SliceCounts
<1>. QED  BY <1>3, <1>7, <1>8 DEF Good

-------------------------------------------------------------------------------
(* Windows                                                                   *)

\* The candidates come from finitely many finite slices.
LEMMA CandidatesAreFinite ==
  ASSUME brackets \in Slices, NEW bk \in Brackets
  PROVE  IsFiniteSet(Candidates(bk))
<1> DEFINE K == Brackets \cap (bk - MaxBracketExpansion .. bk + MaxBracketExpansion)
           f == [k \in K |-> ToSet(brackets[k])]
           U == {ToSet(brackets[k]) : k \in K}
<1>1. IsFiniteSet(K)
  <2>1. bk - MaxBracketExpansion \in Int /\ bk + MaxBracketExpansion \in Int
    BY PoolAssumption
  <2>. QED  BY <2>1, FS_Interval, FS_Intersection
<1>2. \A k \in K : IsFiniteSet(ToSet(brackets[k]))
  BY SliceCounts DEF Slices
<1> HIDE DEF K
<1>3. f \in Surjection(K, U)
  BY DEF Surjection
<1>4. IsFiniteSet(U)
  BY ONLY <1>1, <1>3, FS_Surjection
<1>5. IsFiniteSet(UNION U)
  BY <1>2, <1>4, FS_UNION
<1>. QED  BY <1>5 DEF Candidates, K

\* Only queued tickets are candidates.
LEMMA CandidatesAreQueued ==
  ASSUME NEW Q \in SUBSET Tickets, Lists(brackets, Q), NEW bk \in Brackets
  PROVE  Candidates(bk) \subseteq Q
BY DEF Candidates, Lists

\* A sorting goes through its candidates, each once.
LEMMA SortingLists ==
  ASSUME NEW C, IsFiniteSet(C), NEW c \in Sortings(C)
  PROVE  /\ c \in Seq(C) /\ Len(c) = Cardinality(C) /\ NoDuplicates(c)
         /\ ToSet(c) = C /\ Ascending(c)
<1> DEFINE n == Cardinality(C)
<1>1. n \in Nat
  BY FS_CardinalityType
<1>2. c \in [1 .. n -> C] /\ (\A i, j \in 1 .. n : i # j => c[i] # c[j]) /\ Ascending(c)
  BY DEF Sortings, SetToSeqs
<1> HIDE DEF n
<1>3. c \in Seq(C) /\ Len(c) = n
  BY <1>1, <1>2
<1>4. NoDuplicates(c)
  BY <1>2, <1>3, SliceCounts
<1>5. c \in Injection(1 .. n, C)
  BY <1>2 DEF Injection, IsInjective
<1>6. Cardinality(1 .. n) = n
  BY <1>1, FS_Interval
<1>7. c \in Surjection(1 .. n, C)
  BY ONLY IsFiniteSet(C), <1>5, <1>6, FS_Injection DEF n
<1>8. ToSet(c) = C
  <2>1. ToSet(c) = {c[i] : i \in 1 .. n}
    BY <1>3, SliceCounts
  <2>2. \A t \in C : \E i \in 1 .. n : c[i] = t
    BY <1>7 DEF Surjection
  <2>. QED  BY <1>2, <2>1, <2>2
<1>. QED  BY <1>2, <1>3, <1>4, <1>8 DEF n

\* A window is a room of the tickets at PlayersPerMatch neighbouring places.
LEMMA WindowIsRoom ==
  ASSUME NEW C, NEW c \in Seq(C), NoDuplicates(c), NEW i \in Starts(c)
  PROVE  /\ Window(c, i) \in Seq(C) /\ Len(Window(c, i)) = PlayersPerMatch
         /\ NoDuplicates(Window(c, i))
         /\ ToSet(Window(c, i)) = {c[j] : j \in i .. i + PlayersPerMatch - 1}
         /\ i .. i + PlayersPerMatch - 1 \subseteq 1 .. Len(c)
         /\ IsFiniteSet(ToSet(Window(c, i))) /\ Cardinality(ToSet(Window(c, i))) = PlayersPerMatch
<1> DEFINE P == PlayersPerMatch
           w == Window(c, i)
<1>1. P \in Nat /\ P >= 1 /\ Len(c) \in Nat /\ i \in Nat /\ i >= 1 /\ i + P - 1 <= Len(c)
  BY PoolAssumption DEF Starts
<1> HIDE DEF P
<1>2. \A j \in i .. i + P - 1 : j \in 1 .. Len(c) /\ c[j] \in C
  BY <1>1
<1>3. w = SubSeq(c, i, i + P - 1)
  BY DEF Window, P
<1> HIDE DEF w
<1>4. w \in Seq(C) /\ Len(w) = P /\ \A j \in 1 .. P : w[j] = c[i + j - 1]
  <2>1. i \in Int /\ i + P - 1 \in Int /\ \A j \in i .. i + P - 1 : c[j] \in C
    BY <1>1, <1>2
  <2>2. /\ SubSeq(c, i, i + P - 1) \in Seq(C)
        /\ Len(SubSeq(c, i, i + P - 1)) = IF i <= i + P - 1 THEN (i + P - 1) - i + 1 ELSE 0
        /\ \A j \in 1 .. (i + P - 1) - i + 1 : SubSeq(c, i, i + P - 1)[j] = c[i + j - 1]
    BY <2>1, SubSeqProperties
  <2>3. (i + P - 1) - i + 1 = P /\ i <= i + P - 1
    BY <1>1
  <2>. QED  BY <1>3, <2>2, <2>3
<1>5. \A j, k \in 1 .. Len(c) : c[j] = c[k] => j = k
  BY SliceCounts
<1>6. \A j, k \in 1 .. P : w[j] = w[k] => j = k
  <2>1. SUFFICES ASSUME NEW j \in 1 .. P, NEW k \in 1 .. P, w[j] = w[k] PROVE j = k
    OBVIOUS
  <2>2. i + j - 1 \in i .. i + P - 1 /\ i + k - 1 \in i .. i + P - 1
    BY <1>1
  <2>3. i + j - 1 \in 1 .. Len(c) /\ i + k - 1 \in 1 .. Len(c) /\ c[i + j - 1] = c[i + k - 1]
    BY <1>2, <1>4, <2>1, <2>2
  <2>4. i + j - 1 = i + k - 1
    BY <1>5, <2>3
  <2>. QED  BY <1>1, <2>4
<1>7. /\ IsFiniteSet(ToSet(w)) /\ NoDuplicates(w)
      /\ ToSet(w) = {w[j] : j \in 1 .. P}
  BY <1>4, <1>6, SliceCounts
<1>8. Cardinality(ToSet(w)) = P
  BY <1>4, <1>7 DEF NoDuplicates
<1>9. {w[j] : j \in 1 .. P} = {c[j] : j \in i .. i + P - 1}
  <2>1. ASSUME NEW j \in 1 .. P PROVE \E k \in i .. i + P - 1 : c[k] = w[j]
    <3>1. i + j - 1 \in i .. i + P - 1
      BY <1>1
    <3>. QED  BY <1>4, <3>1
  <2>2. ASSUME NEW k \in i .. i + P - 1 PROVE \E j \in 1 .. P : c[k] = w[j]
    <3>1. PICK j \in 1 .. P : i + j - 1 = k
      <4>1. k - i + 1 \in 1 .. P /\ i + (k - i + 1) - 1 = k
        BY <1>1
      <4>. QED  BY <4>1
    <3>2. w[j] = c[k]
      BY ONLY <1>4, <3>1
    <3>. QED  BY <3>2
  <2> DEFINE A == 1 .. P
             B == i .. i + P - 1
  <2>3. (\A j \in A : \E k \in B : c[k] = w[j]) /\ \A k \in B : \E j \in A : c[k] = w[j]
    BY <2>1, <2>2
  <2> HIDE DEF A, B
  <2>4. {w[j] : j \in A} = {c[j] : j \in B}
    BY ONLY <2>3
  <2>. QED  BY <2>4 DEF A, B
<1>. QED  BY <1>2, <1>4, <1>7, <1>8, <1>9 DEF P, w

\* Whatever the scores, what the scan selects is one of its windows.
LEMMA SelectedIsWindow ==
  ASSUME NEW C, NEW c \in Seq(C), Len(c) >= PlayersPerMatch
  PROVE  \E i \in Starts(c) : Selected(c) = Window(c, i)
<1> DEFINE score(i) == Score(ToSet(Window(c, i)))
           best == {i \in Starts(c) : score(i) < Sentinel /\ \A j \in Starts(c) : score(i) <= score(j)}
<1>1. 1 \in Starts(c) /\ Starts(c) \subseteq Nat
  BY PoolAssumption DEF Starts
<1>2. Selected(c) = Window(c, IF best = {} THEN 1 ELSE Min(best))
  BY DEF Selected
<1>3. best \subseteq Starts(c) /\ best \in SUBSET Nat
  BY <1>1
<1> HIDE DEF best
<1>4. best # {} => Min(best) \in best
  BY <1>3, MinOfNaturals
<1>. QED  BY <1>1, <1>2, <1>3, <1>4

-------------------------------------------------------------------------------
(* The inductive invariant                                                   *)

\* The index and the brackets agree, in the terms of the lemmas above.
LEMMA IndexMeaning ==
  ASSUME TypeOK
  PROVE  /\ IndexMatchesBrackets <=> Lists(brackets, Queued)
         /\ brackets \in Slices /\ Queued \in SUBSET Tickets /\ OnePerPlayer(Queued)
BY DEF TypeOK, IndexMatchesBrackets, Lists, NoDuplicates, Slices, Queued, OnePerPlayer

\* An empty pool agrees with its brackets.
LEMMA InitPInv == Init => PInv
<1> SUFFICES ASSUME Init PROVE PInv
  OBVIOUS
<1>1. Queued = {}
  BY PoolAssumption DEF Init, Queued
<1>2. TypeOK
  BY PoolAssumption DEF Init, TypeOK
<1>3. IndexInv
  BY <1>1, PoolAssumption DEF Init, IndexInv
<1>4. Lists(brackets, Queued)
  <2>1. <<>> \in Seq(Tickets) /\ Len(<<>>) = 0
    OBVIOUS
  <2>2. ToSet(<<>>) = {}
    BY DEF ToSet
  <2>3. NoDuplicates(<<>>)
    BY <2>1, <2>2, FS_EmptySet DEF NoDuplicates
  <2>4. Ascending(<<>>)
    BY DEF Ascending
  <2>. QED  BY <1>1, <2>2, <2>3, <2>4 DEF Init, Lists
<1>. QED  BY <1>2, <1>3, <1>4, IndexMeaning DEF PInv

\* A ticket that is not queued is put under its free player id.
LEMMA PutIn ==
  ASSUME PInv, NEW t \in Tickets, players[PlayerOf[t]] = None,
         players' = [players EXCEPT ![PlayerOf[t]] = t], InsertBracket(t)
  PROVE  /\ players' \in [PlayerIDs -> Tickets \cup {None}]
         /\ brackets' \in Slices
         /\ \A id \in PlayerIDs : players'[id] # None => PlayerOf[players'[id]] = id
         /\ Queued' = Queued \cup {t} /\ t \notin Queued
         /\ Lists(brackets', Queued')
<1>1. TypeOK /\ brackets \in Slices /\ Queued \in SUBSET Tickets /\ Lists(brackets, Queued)
  BY IndexMeaning DEF PInv
<1>2. PlayerOf[t] \in PlayerIDs /\ None \notin Tickets
  BY PoolAssumption
<1>3. players \in [PlayerIDs -> Tickets \cup {None}]
  BY <1>1 DEF TypeOK
<1>4. players'[PlayerOf[t]] = t /\ \A id \in PlayerIDs \ {PlayerOf[t]} : players'[id] = players[id]
  BY <1>2, <1>3
<1>5. t \notin Queued
  BY <1>2 DEF Queued
<1>6. Queued' = Queued \cup {t}
  <2>1. ASSUME NEW u \in Tickets PROVE u \in Queued' <=> u \in Queued \cup {t}
    <3>1. PlayerOf[u] \in PlayerIDs
      BY PoolAssumption
    <3>. QED  BY <1>2, <1>4, <3>1 DEF Queued
  <2>. QED  BY <2>1 DEF Queued
<1>7. brackets' = [brackets EXCEPT ![bracketKey(MMR[t])] = insertSorted(@, t)]
  BY DEF InsertBracket
<1>8. brackets' \in Slices /\ Lists(brackets', Queued \cup {t})
  BY ONLY <1>1, <1>5, <1>7, t \in Tickets, InsertLists
<1>9. players' \in [PlayerIDs -> Tickets \cup {None}]
  BY <1>3
<1>10. \A id \in PlayerIDs : players'[id] # None => PlayerOf[players'[id]] = id
  BY <1>4 DEF PInv, IndexInv
<1>. QED  BY <1>5, <1>6, <1>8, <1>9, <1>10

\* Queued tickets leave the index and the brackets together.
LEMMA TypeAfter ==
  ASSUME players' \in [PlayerIDs -> Tickets \cup {None}], brackets' \in Slices,
         Lists(brackets', Queued'), closed' \subseteq Tickets,
         enqueuedAt' \in [Tickets -> 0 .. MaxNow], now' \in 0 .. MaxNow,
         joined' \subseteq Tickets, held' \subseteq Tickets, IndexInv'
  PROVE  PInv'
BY DEF PInv, TypeOK, IndexMatchesBrackets, Lists, NoDuplicates, Slices

\* One step per action: what it does to the queued, held and joined tickets.
LEMMA EnqueueKeeps ==
  ASSUME PInv, NEW t \in Tickets, Enqueue(t)
  PROVE  PInv'
<1>1. TypeOK /\ brackets \in Slices /\ Lists(brackets, Queued) /\ IndexInv
  BY IndexMeaning DEF PInv
<1>2. UNCHANGED <<closed, now, held>> /\ joined' = joined \cup {t} /\ t \notin joined
  BY DEF Enqueue
<1>3. CASE UNCHANGED <<players, brackets, enqueuedAt>>
  <2>1. Queued' = Queued
    BY <1>3 DEF Queued
  <2>2. IndexInv'
    BY <1>1, <1>2, <1>3, <2>1 DEF IndexInv
  <2>. QED  BY <1>1, <1>2, <1>3, <2>1, <2>2, TypeAfter DEF TypeOK
<1>4. CASE /\ players[PlayerOf[t]] = None
           /\ players' = [players EXCEPT ![PlayerOf[t]] = t]
           /\ InsertBracket(t)
           /\ enqueuedAt' = [enqueuedAt EXCEPT ![t] = now]
  <2>1. /\ players' \in [PlayerIDs -> Tickets \cup {None}]
        /\ brackets' \in Slices
        /\ \A id \in PlayerIDs : players'[id] # None => PlayerOf[players'[id]] = id
        /\ Queued' = Queued \cup {t} /\ t \notin Queued
        /\ Lists(brackets', Queued')
    BY <1>4, PutIn
  <2>2. now \in 0 .. MaxNow /\ now \in Nat /\ enqueuedAt \in [Tickets -> 0 .. MaxNow]
    BY <1>1 DEF TypeOK
  <2>3. enqueuedAt' \in [Tickets -> 0 .. MaxNow]
    BY <1>4, <2>2
  <2>4. \A u \in Tickets : enqueuedAt'[u] <= now
    BY <1>1, <1>4, <2>2 DEF IndexInv
  <2>5. t \notin held
    BY <1>1, <1>2 DEF IndexInv
  <2>6. held' \cap Queued' = {} /\ held' \cup Queued' \subseteq joined'
    BY <1>1, <1>2, <2>1, <2>5 DEF IndexInv
  <2>7. IndexInv'
    BY <1>2, <2>1, <2>4, <2>6 DEF IndexInv
  <2>. QED  BY <1>1, <1>2, <2>1, <2>3, <2>7, TypeAfter DEF TypeOK
<1>. QED  BY <1>3, <1>4 DEF Enqueue

\* A requeue finds its id free and its ticket unlisted, or drops it.
LEMMA ReEnqueueKeeps ==
  ASSUME PInv, NEW t \in Tickets, ReEnqueue(t)
  PROVE  PInv'
<1>1. TypeOK /\ brackets \in Slices /\ Lists(brackets, Queued) /\ IndexInv
  BY IndexMeaning DEF PInv
<1>2. UNCHANGED <<closed, enqueuedAt, now, joined>> /\ held' = held \ {t} /\ t \in held
  BY DEF ReEnqueue
<1>3. CASE UNCHANGED <<players, brackets>>
  <2>1. Queued' = Queued
    BY <1>3 DEF Queued
  <2>2. IndexInv'
    BY <1>1, <1>2, <1>3, <2>1 DEF IndexInv
  <2>. QED  BY <1>1, <1>2, <1>3, <2>1, <2>2, TypeAfter DEF TypeOK
<1>4. CASE /\ players[PlayerOf[t]] = None
           /\ players' = [players EXCEPT ![PlayerOf[t]] = t]
           /\ InsertBracket(t)
  <2>1. /\ players' \in [PlayerIDs -> Tickets \cup {None}]
        /\ brackets' \in Slices
        /\ \A id \in PlayerIDs : players'[id] # None => PlayerOf[players'[id]] = id
        /\ Queued' = Queued \cup {t} /\ t \notin Queued
        /\ Lists(brackets', Queued')
    BY <1>4, PutIn
  <2>2. held' \cap Queued' = {} /\ held' \cup Queued' \subseteq joined'
    BY <1>1, <1>2, <2>1 DEF IndexInv
  <2>3. IndexInv'
    BY <1>1, <1>2, <2>1, <2>2 DEF IndexInv
  <2>. QED  BY <1>1, <1>2, <2>1, <2>3, TypeAfter DEF TypeOK
<1>. QED  BY <1>3, <1>4 DEF ReEnqueue

\* A dequeue removes the one ticket of the player from the one slice that lists it.
LEMMA DequeueKeeps ==
  ASSUME PInv, NEW id \in PlayerIDs, Dequeue(id)
  PROVE  PInv'
<1> DEFINE t == players[id]
<1>1. /\ TypeOK /\ brackets \in Slices /\ Lists(brackets, Queued) /\ IndexInv
      /\ Queued \in SUBSET Tickets /\ OnePerPlayer(Queued)
  BY IndexMeaning DEF PInv
<1>2. /\ UNCHANGED <<enqueuedAt, now, joined, held>>
      /\ players' = [players EXCEPT ![id] = None] /\ closed' = closed \cup {t}
      /\ brackets' = RemoveTicket(brackets, t) /\ t # None
  BY DEF Dequeue
<1>3. players \in [PlayerIDs -> Tickets \cup {None}]
  BY <1>1 DEF TypeOK
<1>4. t \in Tickets /\ PlayerOf[t] = id /\ t \in Queued
  BY <1>1, <1>2, <1>3 DEF IndexInv, Queued
<1>5. Queued' = Queued \ {t}
  <2>1. ASSUME NEW u \in Tickets PROVE u \in Queued' <=> u \in Queued \ {t}
    <3>1. PlayerOf[u] \in PlayerIDs /\ u # None
      BY PoolAssumption
    <3>. QED  BY <1>2, <1>3, <1>4, <3>1 DEF Queued
  <2>. QED  BY <2>1 DEF Queued
<1> HIDE DEF t
<1>6. brackets' \in Slices /\ Lists(brackets', Queued \ {t})
  BY ONLY <1>1, <1>2, <1>4, RemoveLists
<1>7. players' \in [PlayerIDs -> Tickets \cup {None}]
  BY <1>2, <1>3
<1>8. IndexInv'
  BY <1>1, <1>2, <1>3, <1>5 DEF IndexInv
<1>. QED  BY <1>1, <1>2, <1>4, <1>5, <1>6, <1>7, <1>8, TypeAfter DEF TypeOK

\* What the window and its removal do: a full room of queued tickets changes hands.
LEMMA ExtractedRoom ==
  ASSUME PInv, NEW bk \in FullestBrackets, Cardinality(Candidates(bk)) >= PlayersPerMatch,
         NEW c \in Sortings(Candidates(bk))
  PROVE  /\ IsFiniteSet(Candidates(bk)) /\ Candidates(bk) \subseteq Queued
         /\ c \in Seq(Candidates(bk)) /\ Len(c) = Cardinality(Candidates(bk)) /\ NoDuplicates(c)
         /\ ToSet(c) = Candidates(bk) /\ Ascending(c)
         /\ \E i \in Starts(c) : Selected(c) = Window(c, i)
         /\ Selected(c) \in Seq(Candidates(bk)) /\ Selected(c) \in Seq(Queued) /\ NoDuplicates(Selected(c))
         /\ ToSet(Selected(c)) \subseteq Candidates(bk)
         /\ IsFiniteSet(ToSet(Selected(c))) /\ Cardinality(ToSet(Selected(c))) = PlayersPerMatch
<1> DEFINE C == Candidates(bk)
<1>1. bk \in Brackets /\ brackets \in Slices /\ Queued \in SUBSET Tickets /\ Lists(brackets, Queued)
  BY IndexMeaning DEF PInv, FullestBrackets
<1>2. IsFiniteSet(C) /\ C \subseteq Queued
  BY <1>1, CandidatesAreFinite, CandidatesAreQueued
<1>0. c \in Sortings(C)
  OBVIOUS
<1> HIDE DEF C
<1>3. c \in Seq(C) /\ Len(c) = Cardinality(C) /\ NoDuplicates(c) /\ ToSet(c) = C /\ Ascending(c)
  BY ONLY <1>0, <1>2, SortingLists
<1>4. Len(c) >= PlayersPerMatch
  BY <1>3 DEF C
<1>5. PICK i \in Starts(c) : Selected(c) = Window(c, i)
  BY ONLY <1>3, <1>4, SelectedIsWindow
<1>6. /\ Window(c, i) \in Seq(C) /\ NoDuplicates(Window(c, i))
      /\ IsFiniteSet(ToSet(Window(c, i))) /\ Cardinality(ToSet(Window(c, i))) = PlayersPerMatch
  BY ONLY <1>3, i \in Starts(c), WindowIsRoom
<1>7. Window(c, i) \in Seq(Queued)
  BY ONLY <1>2, <1>6, SeqMonotonic
<1>8. ToSet(Window(c, i)) \subseteq C
  BY ONLY <1>6, SliceCounts
<1>. QED  BY <1>2, <1>3, <1>5, <1>6, <1>7, <1>8 DEF C

\* Taking a room out of the index and the brackets.
LEMMA TakeOutRoom ==
  ASSUME PInv, NEW w \in Seq(Queued), NoDuplicates(w), TakeOut(w)
  PROVE  /\ players' \in [PlayerIDs -> Tickets \cup {None}]
         /\ \A id \in PlayerIDs : players'[id] = IF players[id] \in ToSet(w) THEN None ELSE players[id]
         /\ Queued' = Queued \ ToSet(w)
         /\ brackets' \in Slices /\ Lists(brackets', Queued')
<1> DEFINE S == ToSet(w)
<1>1. /\ TypeOK /\ brackets \in Slices /\ Lists(brackets, Queued) /\ IndexInv
      /\ Queued \in SUBSET Tickets /\ OnePerPlayer(Queued)
  BY IndexMeaning DEF PInv
<1>2. players \in [PlayerIDs -> Tickets \cup {None}]
  BY <1>1 DEF TypeOK
<1>3. S \subseteq Queued
  BY SliceCounts
<1>4. /\ players' = [id \in PlayerIDs |-> IF \E t \in S : PlayerOf[t] = id THEN None ELSE players[id]]
      /\ brackets' = FoldLeft(RemoveTicket, brackets, w)
  BY DEF TakeOut
<1>5. brackets' \in Slices /\ Lists(brackets', Queued \ S)
  BY <1>1, <1>4, RemoveAllLists
<1> HIDE DEF S
<1>6. ASSUME NEW id \in PlayerIDs PROVE (\E t \in S : PlayerOf[t] = id) <=> players[id] \in S
  <2>1. ASSUME NEW t \in S, PlayerOf[t] = id PROVE players[id] \in S
    <3>1. players[PlayerOf[t]] = t
      BY <1>3 DEF Queued
    <3>. QED  BY <2>1, <3>1
  <2>2. ASSUME players[id] \in S PROVE \E t \in S : PlayerOf[t] = id
    <3>1. players[id] # None
      BY <1>3, <2>2, PoolAssumption DEF Queued
    <3>. QED  BY <1>1, <2>2, <3>1 DEF IndexInv
  <2>. QED  BY <2>1, <2>2
<1>7. \A id \in PlayerIDs : players'[id] = IF players[id] \in S THEN None ELSE players[id]
  BY <1>4, <1>6
<1>8. players' \in [PlayerIDs -> Tickets \cup {None}]
  <2>1. DOMAIN players' = PlayerIDs /\ players' = [id \in PlayerIDs |-> players'[id]]
    BY <1>4
  <2>2. \A id \in PlayerIDs : players'[id] \in Tickets \cup {None}
    BY <1>2, <1>7
  <2>. QED  BY <2>1, <2>2
<1>9. Queued' = Queued \ S
  <2>1. ASSUME NEW u \in Tickets PROVE u \in Queued' <=> u \in Queued \ S
    <3>1. PlayerOf[u] \in PlayerIDs /\ u # None
      BY PoolAssumption
    <3>2. players'[PlayerOf[u]] = IF players[PlayerOf[u]] \in S THEN None ELSE players[PlayerOf[u]]
      BY <1>7, <3>1
    <3>. QED  BY <3>1, <3>2 DEF Queued
  <2>. QED  BY <2>1 DEF Queued
<1>. QED  BY <1>5, <1>7, <1>8, <1>9 DEF S

\* An extraction moves a room from the index and its slices to the callers.
LEMMA ExtractMatchKeeps ==
  ASSUME PInv, ExtractMatch
  PROVE  PInv'
<1>1. PICK bk \in FullestBrackets :
        /\ Cardinality(Candidates(bk)) >= PlayersPerMatch
        /\ \E c \in Sortings(Candidates(bk)) : TakeOut(Selected(c)) /\ held' = held \cup ToSet(Selected(c))
        /\ UNCHANGED <<closed, enqueuedAt, now, joined>>
  BY DEF ExtractMatch
<1>2. PICK c \in Sortings(Candidates(bk)) : TakeOut(Selected(c)) /\ held' = held \cup ToSet(Selected(c))
  BY <1>1
<1> DEFINE w == Selected(c)
<1>3. w \in Seq(Queued) /\ NoDuplicates(w)
  BY <1>1, ExtractedRoom
<1>4. /\ players' \in [PlayerIDs -> Tickets \cup {None}]
      /\ \A id \in PlayerIDs : players'[id] = IF players[id] \in ToSet(w) THEN None ELSE players[id]
      /\ Queued' = Queued \ ToSet(w)
      /\ brackets' \in Slices /\ Lists(brackets', Queued')
  BY <1>2, <1>3, TakeOutRoom
<1>5. UNCHANGED <<closed, enqueuedAt, now, joined>> /\ held' = held \cup ToSet(w)
  BY <1>1, <1>2
<1> HIDE DEF w
<1>6. ToSet(w) \subseteq Queued
  BY <1>3, SliceCounts
<1>7. TypeOK /\ IndexInv /\ Queued \in SUBSET Tickets
  BY IndexMeaning DEF PInv
<1>8. IndexInv'
  <2>1. held' \cap Queued' = {} /\ held' \cup Queued' \subseteq joined'
    BY <1>4, <1>5, <1>6, <1>7 DEF IndexInv
  <2>. QED  BY <1>4, <1>5, <1>7, <2>1 DEF IndexInv
<1>. QED  BY <1>4, <1>5, <1>6, <1>7, <1>8, TypeAfter DEF TypeOK

\* One case per method of the pool.
LEMMA PInvStep == PInv /\ [Next]_vars => PInv'
<1> SUFFICES ASSUME PInv, [Next]_vars PROVE PInv'
  OBVIOUS
<1>1. TypeOK /\ brackets \in Slices /\ Lists(brackets, Queued) /\ IndexInv
  BY IndexMeaning DEF PInv
<1>2. ASSUME UNCHANGED <<players, brackets, closed, enqueuedAt, joined>>, now' \in 0 .. MaxNow, now' >= now,
             held' \subseteq held
      PROVE  PInv'
  <2>1. Queued' = Queued
    BY <1>2 DEF Queued
  <2>2. now \in Nat /\ \A t \in Tickets : enqueuedAt[t] \in Nat
    BY <1>1 DEF TypeOK
  <2>3. IndexInv'
    BY <1>1, <1>2, <2>1, <2>2 DEF IndexInv
  <2>. QED  BY <1>1, <1>2, <2>1, <2>3, TypeAfter DEF TypeOK
<1>3. now \in 0 .. MaxNow
  BY <1>1 DEF TypeOK
<1>4. CASE UNCHANGED vars
  BY <1>2, <1>3, <1>4 DEF vars
<1>5. ASSUME NEW t \in Tickets, Enqueue(t) PROVE PInv'
  BY <1>5, EnqueueKeeps
<1>6. ASSUME NEW t \in Tickets, ReEnqueue(t) PROVE PInv'
  BY <1>6, ReEnqueueKeeps
<1>7. ASSUME NEW t \in Tickets, LetGo(t) PROVE PInv'
  <2>1. held' \subseteq held /\ UNCHANGED <<players, brackets, closed, enqueuedAt, now, joined>>
    BY <1>7 DEF LetGo
  <2>. QED  BY <1>2, <1>3, <2>1
<1>8. ASSUME NEW id \in PlayerIDs, Dequeue(id) PROVE PInv'
  BY <1>8, DequeueKeeps
<1>9. CASE ExtractMatch
  BY <1>9, ExtractMatchKeeps
<1>10. CASE Tick
  <2>1. now' = now + 1 /\ now < MaxNow /\ UNCHANGED <<players, brackets, closed, enqueuedAt, joined, held>>
    BY <1>10 DEF Tick
  <2>2. now' \in 0 .. MaxNow /\ now' >= now
    BY <1>3, <2>1, PoolAssumption
  <2>. QED  BY <1>2, <2>1, <2>2
<1>. QED  BY <1>4, <1>5, <1>6, <1>7, <1>8, <1>9, <1>10 DEF Next

\* pool.go: between two method calls the index files every ticket under its player, no
\* ticket is queued and held, and the sorted slices list exactly the queued tickets.
THEOREM PoolInvariance == Spec => []PInv
<1>1. Init => PInv
  BY InitPInv
<1>2. PInv /\ [Next]_vars => PInv'
  BY PInvStep
<1>. QED  BY <1>1, <1>2, PTL DEF Spec

\* pool.go:112: every player in the index appears in exactly one bracket slice, the one of
\* its rating, once, the slices list nothing else, and they stay sorted.
THEOREM IndexAndBracketsAgree == Spec => []IndexMatchesBrackets
<1>1. PInv => IndexMatchesBrackets
  BY DEF PInv
<1>. QED  BY <1>1, PoolInvariance, PTL

-------------------------------------------------------------------------------
(* Refinement                                                                *)

\* Both modules read the queue off the same index.
LEMMA QueuedIsQueued == Queue!Queued = Queued
BY DEF Queue!Queued, Queued

\* Each method is the step of MatchQueue with its name, or changes nothing it sees.
LEMMA StepSimulates == PInv /\ [Next]_vars => [Queue!Next]_(Queue!vars)
<1> SUFFICES ASSUME PInv, [Next]_vars PROVE [Queue!Next]_(Queue!vars)
  OBVIOUS
<1>1. players \in [PlayerIDs -> Tickets \cup {None}]
  BY DEF PInv, TypeOK
<1>2. CASE UNCHANGED vars
  BY <1>2 DEF vars, Queue!vars
<1>3. ASSUME NEW t \in Tickets, Enqueue(t) PROVE Queue!Join(t)
  <2>1. PlayerOf[t] \in PlayerIDs
    BY PoolAssumption
  <2>2. UNCHANGED <<closed, held>> /\ joined' = joined \cup {t} /\ t \notin joined
    BY <1>3 DEF Enqueue
  <2>3. players' = [players EXCEPT ![PlayerOf[t]] = IF @ = None THEN t ELSE @]
    <3>1. CASE players[PlayerOf[t]] # None /\ players' = players
      BY <1>1, <2>1, <3>1
    <3>2. CASE players[PlayerOf[t]] = None /\ players' = [players EXCEPT ![PlayerOf[t]] = t]
      BY <1>1, <2>1, <3>2
    <3>. QED  BY <1>3, <3>1, <3>2 DEF Enqueue
  <2>. QED  BY <2>2, <2>3 DEF Queue!Join
<1>4. ASSUME NEW t \in Tickets, ReEnqueue(t) PROVE Queue!GiveBack(t) \/ Queue!LetGo({t})
  BY <1>4 DEF ReEnqueue, Queue!GiveBack, Queue!LetGo
<1>5. ASSUME NEW t \in Tickets, LetGo(t) PROVE Queue!LetGo({t})
  BY <1>5 DEF LetGo, Queue!LetGo
<1>6. ASSUME NEW id \in PlayerIDs, Dequeue(id) PROVE Queue!Dequeue(id)
  BY <1>6 DEF Dequeue, Queue!Dequeue
<1>7. CASE ExtractMatch
  <2>1. PICK bk \in FullestBrackets :
          /\ Cardinality(Candidates(bk)) >= PlayersPerMatch
          /\ \E c \in Sortings(Candidates(bk)) : TakeOut(Selected(c)) /\ held' = held \cup ToSet(Selected(c))
          /\ UNCHANGED <<closed, enqueuedAt, now, joined>>
    BY <1>7 DEF ExtractMatch
  <2>2. PICK c \in Sortings(Candidates(bk)) : TakeOut(Selected(c)) /\ held' = held \cup ToSet(Selected(c))
    BY <2>1
  <2> DEFINE w == Selected(c)
  <2>3. /\ w \in Seq(Queued) /\ NoDuplicates(w) /\ Cardinality(ToSet(w)) = PlayersPerMatch
    BY <2>1, ExtractedRoom
  <2>4. /\ players' \in [PlayerIDs -> Tickets \cup {None}]
        /\ \A id \in PlayerIDs : players'[id] = IF players[id] \in ToSet(w) THEN None ELSE players[id]
    BY <2>2, <2>3, TakeOutRoom
  <2>5. held' = held \cup ToSet(w) /\ UNCHANGED <<closed, joined>>
    BY <2>1, <2>2
  <2> HIDE DEF w
  <2>6. ToSet(w) \subseteq Queued /\ ToSet(w) \in SUBSET Tickets
    BY <2>3, SliceCounts DEF Queued
  <2>7. players' = [id \in PlayerIDs |-> IF players[id] \in ToSet(w) THEN None ELSE players[id]]
    BY <2>4
  <2>8. Queue!Extract(ToSet(w))
    <3>1. ToSet(w) \subseteq Queue!Queued
      BY <2>6, QueuedIsQueued
    <3>2. Cardinality(ToSet(w)) = PlayersPerMatch
      BY <2>3
    <3> DEFINE S == ToSet(w)
    <3> HIDE DEF S
    <3>3. /\ S \subseteq Queue!Queued /\ Cardinality(S) = PlayersPerMatch
          /\ players' = [id \in PlayerIDs |-> IF players[id] \in S THEN None ELSE players[id]]
          /\ held' = held \cup S /\ UNCHANGED <<closed, joined>>
      BY <2>5, <2>7, <3>1, <3>2 DEF S
    <3>4. Queue!Cardinality(S) = Cardinality(S)
      BY DEF Queue!Cardinality, Cardinality
    <3>5. Queue!Extract(S)
      BY ONLY <3>3, <3>4 DEF Queue!Extract
    <3>. QED  BY <3>5 DEF S
  <2>. QED  BY <2>6, <2>8 DEF Queue!Next
<1>8. CASE Tick
  BY <1>8 DEF Tick, Queue!vars
<1>9. \A t \in Tickets : {t} \in SUBSET Tickets
  OBVIOUS
<1>. QED  BY <1>2, <1>3, <1>4, <1>5, <1>6, <1>7, <1>8, <1>9 DEF Next, Queue!Next

\* The pool keeps the promise the matchmaking core relies on: brackets, slices and windows
\* are invisible in the index, the closed channels and the tickets its callers hold.
THEOREM PoolImplementsQueue == Spec => QueueSpec
<1>1. Init => Queue!Init
  BY DEF Init, Queue!Init
<1>2. PInv /\ [Next]_vars => [Queue!Next]_(Queue!vars)
  BY StepSimulates
<1>. QED  BY <1>1, <1>2, PoolInvariance, PTL DEF Spec, QueueSpec, Queue!Spec

-------------------------------------------------------------------------------
(* Scores                                                                    *)

\* A largest of finitely many ratings.
LEMMA MaxOfRatings ==
  ASSUME NEW s \in SUBSET (0 .. MaxMMR), s # {}
  PROVE  Max(s) \in s /\ \A i \in s : i <= Max(s)
<1>1. MaxMMR + 1 \in Nat /\ MaxMMR \in Nat
  BY PoolAssumption
<1> DEFINE M == {MaxMMR - i : i \in s}
<1>2. M \in SUBSET Nat /\ M # {}
  <2>1. \A i \in s : MaxMMR - i \in Nat
    BY <1>1
  <2>. QED  BY <2>1
<1>3. Min(M) \in M /\ \A j \in M : Min(M) <= j
  BY <1>2, MinOfNaturals
<1>4. PICK m \in s : MaxMMR - m = Min(M)
  BY <1>3
<1>5. ASSUME NEW i \in s PROVE m >= i
  <2>1. MaxMMR - i \in M
    OBVIOUS
  <2>2. MaxMMR - m <= MaxMMR - i
    BY <1>3, <1>4, <2>1
  <2>. QED  BY <1>1, <2>2
<1>. QED  BY <1>5 DEF Max

\* The extreme ratings of a room are ratings of members, and bound those of all.
LEMMA Extremes ==
  ASSUME NEW S \in SUBSET Tickets, S # {}
  PROVE  /\ \E t \in S : Lowest(S) = MMR[t]
         /\ \E t \in S : Highest(S) = MMR[t]
         /\ \A t \in S : Lowest(S) <= MMR[t] /\ MMR[t] <= Highest(S)
         /\ Lowest(S) \in 0 .. MaxMMR /\ Highest(S) \in 0 .. MaxMMR
         /\ Spread(S) \in 0 .. MaxMMR
<1> DEFINE R == {MMR[t] : t \in S}
<1>1. R \in SUBSET (0 .. MaxMMR) /\ R # {} /\ R \in SUBSET Nat
  BY PoolAssumption
<1>2. \A t \in S : MMR[t] \in R
  OBVIOUS
<1>3. \A r \in R : \E t \in S : r = MMR[t]
  OBVIOUS
<1>4. Lowest(S) = Min(R) /\ Highest(S) = Max(R)
  BY DEF Lowest, Highest
<1> HIDE DEF R
<1>5. Min(R) \in R /\ \A r \in R : Min(R) <= r
  BY ONLY <1>1, MinOfNaturals
<1>6. Max(R) \in R /\ \A r \in R : r <= Max(R)
  BY ONLY <1>1, MaxOfRatings
<1>7. MaxMMR \in Nat
  BY PoolAssumption
<1>8. PICK l \in S, h \in S : Lowest(S) = MMR[l] /\ Highest(S) = MMR[h]
  BY <1>3, <1>4, <1>5, <1>6
<1>9. \A t \in S : Lowest(S) <= MMR[t] /\ MMR[t] <= Highest(S)
  BY <1>2, <1>4, <1>5, <1>6
<1>10. Lowest(S) \in 0 .. MaxMMR /\ Highest(S) \in 0 .. MaxMMR /\ Lowest(S) <= Highest(S)
  BY <1>1, <1>4, <1>5, <1>6, <1>8, <1>9
<1>11. Highest(S) - Lowest(S) \in 0 .. MaxMMR
  BY <1>7, <1>10
<1>. QED  BY <1>8, <1>9, <1>10, <1>11 DEF Spread

\* The sum over a room as a function of the members counted so far.
Waits(S) ==
  CHOOSE f : f = [s \in SUBSET S |->
                    IF s = {} THEN 0
                    ELSE (now - enqueuedAt[CHOOSE t \in s : TRUE]) + f[s \ {CHOOSE t \in s : TRUE}]]

\* The fold of the model is that function at the whole room.
LEMMA TotalWaitIsSum == \A S : TotalWait(S) = Waits(S)[S]
BY DEF TotalWait, MapThenSumSet, MapThenFoldSet, Waits

\* The clock is ahead of every ticket: a wait is a natural number.
ClockAhead == now \in Nat /\ \A t \in Tickets : enqueuedAt[t] \in Nat /\ enqueuedAt[t] <= now

\* The waits of a room add up, and none exceeds the sum.
LEMMA TotalWaitBounds ==
  ASSUME NEW S \in SUBSET Tickets, IsFiniteSet(S), ClockAhead
  PROVE  TotalWait(S) \in Nat /\ \A t \in S : now - enqueuedAt[t] <= TotalWait(S)
<1> DEFINE c == [s \in SUBSET S |-> CHOOSE t \in s : TRUE]
           wait(t) == now - enqueuedAt[t]
           Step(f, s) == IF s = {} THEN 0 ELSE wait(CHOOSE t \in s : TRUE) + f[s \ {CHOOSE t \in s : TRUE}]
           F == [p \in (SUBSET S) \X Nat |-> IF p[1] = {} THEN 0 ELSE wait(CHOOSE t \in p[1] : TRUE) + p[2]]
           R == Waits(S)
<1>1. \A t \in S : wait(t) \in Nat
  BY DEF ClockAhead
<1>2. \A s \in SUBSET S : s # {} => (CHOOSE t \in s : TRUE) \in s
  OBVIOUS
<1>3. Chooses(c, S) /\ \A s \in SUBSET S : c[s] = CHOOSE t \in s : TRUE
  BY <1>2 DEF Chooses
<1> HIDE DEF wait, c
<1>4. F \in [(SUBSET S) \X Nat -> Nat]
  <2>1. ASSUME NEW p \in (SUBSET S) \X Nat, p[1] # {} PROVE wait(CHOOSE t \in p[1] : TRUE) + p[2] \in Nat
    <3>1. p[1] \in SUBSET S /\ p[2] \in Nat
      OBVIOUS
    <3>2. wait(CHOOSE t \in p[1] : TRUE) \in Nat
      BY <1>1, <1>2, <2>1, <3>1
    <3>. QED  BY <3>1, <3>2
  <2>. QED  BY <2>1
<1>5. \A s \in SUBSET S, v \in Nat : s # {} => F[<<s, v>>] = wait(CHOOSE t \in s : TRUE) + v
  OBVIOUS
<1> HIDE DEF F
<1>6. PICK f \in [SUBSET S -> Nat] : Recursive(f, S, 0, F, c)
  <2>1. 0 \in Nat /\ IsFiniteSet(S) /\ Chooses(c, S)
    BY <1>3
  <2>2. \E f \in [SUBSET S -> Nat] : Recursive(f, S, 0, F, c)
    BY ONLY <1>4, <2>1, SubsetRecursion
  <2>. QED  BY <2>2
<1>7. ASSUME NEW s \in SUBSET S PROVE f[s] = Step(f, s)
  <2>1. CASE s = {}
    BY <1>6, <2>1 DEF Recursive
  <2>2. CASE s # {}
    <3>1. s \ {c[s]} \in SUBSET S
      OBVIOUS
    <3>2. f[s \ {c[s]}] \in Nat
      BY <3>1
    <3>3. f[s] = F[<<s, f[s \ {c[s]}]>>]
      BY <1>6, <2>2 DEF Recursive
    <3>4. F[<<s, f[s \ {c[s]}]>>] = wait(CHOOSE t \in s : TRUE) + f[s \ {c[s]}]
      BY <1>5, <2>2, <3>2
    <3>. QED  BY <1>3, <2>2, <3>3, <3>4
  <2>. QED  BY <2>1, <2>2
<1> HIDE DEF Step
<1>8. f = [s \in SUBSET S |-> Step(f, s)]
  BY <1>7
<1>9. R = [s \in SUBSET S |-> Step(R, s)]
  BY <1>8 DEF Waits, Step, wait
<1> HIDE DEF R
<1>10. ASSUME NEW s \in SUBSET S, s # {}
       PROVE  /\ c[s] \in s /\ s \ {c[s]} \in SUBSET S
              /\ R[s] = wait(c[s]) + R[s \ {c[s]}]
  <2>1. c[s] \in s /\ c[s] = CHOOSE t \in s : TRUE
    BY <1>3, <1>10 DEF Chooses
  <2>2. R[s] = Step(R, s)
    BY <1>9
  <2>3. Step(R, s) = wait(CHOOSE t \in s : TRUE) + R[s \ {CHOOSE t \in s : TRUE}]
    BY <1>10 DEF Step
  <2>. QED  BY <2>1, <2>2, <2>3
<1>11. R[{}] = 0
  <2>1. {} \in SUBSET S
    OBVIOUS
  <2>. QED  BY <1>9, <2>1 DEF Step
<1> DEFINE Fine(s) == R[s] \in Nat /\ \A t \in s : wait(t) <= R[s]
           Bad == {k \in Nat : \E s \in SUBSET S : Cardinality(s) = k /\ ~Fine(s)}
<1>12. \A s \in SUBSET S : IsFiniteSet(s) /\ Cardinality(s) \in Nat
  BY FS_Subset, FS_CardinalityType
<1>13. Bad = {}
  <2>1. SUFFICES ASSUME Bad # {} PROVE FALSE
    OBVIOUS
  <2>2. Bad \in SUBSET Nat
    OBVIOUS
  <2>3. Min(Bad) \in Bad /\ \A k \in Bad : Min(Bad) <= k
    BY ONLY <2>1, <2>2, MinOfNaturals
  <2>4. PICK s \in SUBSET S : ~Fine(s) /\ \A u \in SUBSET S : ~Fine(u) => Cardinality(s) <= Cardinality(u)
    BY <1>12, <2>3
  <2>5. s # {}
    <3>1. Fine({})
      BY <1>11
    <3> HIDE DEF Fine
    <3>. QED  BY <2>4, <3>1
  <2>6. c[s] \in s /\ s \ {c[s]} \in SUBSET S /\ R[s] = wait(c[s]) + R[s \ {c[s]}]
    BY <1>10, <2>5
  <2>7. Cardinality(s \ {c[s]}) = Cardinality(s) - 1
    BY <1>12, <2>6, FS_RemoveElement
  <2>8. Fine(s \ {c[s]})
    <3> HIDE DEF Fine
    <3>. QED  BY <1>12, <2>4, <2>6, <2>7
  <2>9. wait(c[s]) \in Nat /\ \A t \in s : t = c[s] \/ t \in s \ {c[s]}
    BY <1>1, <2>6
  <2>10. R[s \ {c[s]}] \in Nat /\ \A t \in s \ {c[s]} : wait(t) <= R[s \ {c[s]}] /\ wait(t) \in Nat
    BY <1>1, <2>8
  <2>11. R[s] \in Nat
    BY <2>6, <2>9, <2>10
  <2>12. ASSUME NEW t \in s PROVE wait(t) <= R[s]
    <3>1. CASE t = c[s]
      BY <2>6, <2>9, <2>10, <3>1
    <3>2. CASE t \in s \ {c[s]}
      BY <2>6, <2>9, <2>10, <3>2
    <3>. QED  BY <2>9, <3>1, <3>2
  <2>. QED  BY <2>4, <2>11, <2>12
<1>14. Fine(S)
  <2>1. S \in SUBSET S
    OBVIOUS
  <2> HIDE DEF Fine
  <2>. QED  BY <1>12, <1>13, <2>1
<1>15. TotalWait(S) = R[S]
  BY TotalWaitIsSum DEF R
<1>. QED  BY <1>14, <1>15 DEF wait

\* A product of naturals grows with its factor.
LEMMA ProductGrows ==
  ASSUME NEW a \in Nat, NEW x \in Nat, NEW y \in Nat, x <= y
  PROVE  a * x \in Nat /\ a * y \in Nat /\ a * x <= a * y
<1>1. PICK d \in Nat : y = x + d
  <2>1. y - x \in Nat /\ y = x + (y - x)
    OBVIOUS
  <2>. QED  BY <2>1
<1>2. a * (x + d) = a * x + a * d
  OBVIOUS
<1>3. a * x \in Nat /\ a * d \in Nat
  OBVIOUS
<1>. QED  BY <1>1, <1>2, <1>3

\* Every room of waiting tickets scores below the sentinel.
LEMMA BelowSentinel ==
  ASSUME NEW S \in SUBSET Tickets, IsFiniteSet(S), S # {}, ClockAhead
  PROVE  Score(S) \in Int /\ Score(S) < Sentinel
<1> DEFINE x == PlayersPerMatch * Spread(S)
           w == WaitWeight * TotalWait(S)
           y == PlayersPerMatch * MaxMMR
<1>1. PlayersPerMatch \in Nat /\ PlayersPerMatch >= 1 /\ WaitWeight \in Nat /\ MaxMMR \in Nat
  BY PoolAssumption
<1>2. Spread(S) \in Nat /\ Spread(S) <= MaxMMR /\ TotalWait(S) \in Nat
  BY <1>1, Extremes, TotalWaitBounds
<1>3. x \in Nat /\ y \in Nat /\ x <= y
  BY <1>1, <1>2, ProductGrows
<1>4. w \in Nat
  BY <1>1, <1>2, ProductGrows
<1>5. Sentinel = y * 10 + PlayersPerMatch * 10
  <2>1. PlayersPerMatch * (MaxMMR + 1) = y + PlayersPerMatch
    BY <1>1
  <2>2. (y + PlayersPerMatch) * 10 = y * 10 + PlayersPerMatch * 10
    BY <1>1, <1>3
  <2>. QED  BY <2>1, <2>2 DEF Sentinel
<1>6. Score(S) = x - w
  BY DEF Score
<1> HIDE DEF x, w, y
<1>. QED  BY <1>1, <1>3, <1>4, <1>5, <1>6

\* A place of a finite sequence of integers where it is lowest.
LEMMA LowestPlace ==
  ASSUME NEW n \in Nat, n # 0, NEW g \in [1 .. n -> Int]
  PROVE  \E i \in 1 .. n : \A j \in 1 .. n : g[i] <= g[j]
<1> DEFINE Has(k) == \E i \in 1 .. k : \A j \in 1 .. k : g[i] <= g[j]
           Bad == {k \in 1 .. n : ~Has(k)}
<1>1. Has(1)
  BY n \in Nat, n # 0
<1>2. ASSUME NEW k \in 1 .. n, k # 1, Has(k - 1) PROVE Has(k)
  <2>1. PICK i \in 1 .. k - 1 : \A j \in 1 .. k - 1 : g[i] <= g[j]
    BY <1>2
  <2>2. i \in 1 .. k /\ k \in 1 .. k /\ g[i] \in Int /\ g[k] \in Int
    OBVIOUS
  <2>3. \A j \in 1 .. k : j = k \/ j \in 1 .. k - 1
    OBVIOUS
  <2>4. \A j \in 1 .. k - 1 : g[j] \in Int
    OBVIOUS
  <2>5. CASE g[i] <= g[k]
    BY <2>1, <2>2, <2>3, <2>5
  <2>6. CASE g[k] <= g[i]
    BY <2>1, <2>2, <2>3, <2>4, <2>6
  <2>. QED  BY <2>2, <2>5, <2>6
<1> HIDE DEF Has
<1>3. Bad = {}
  <2>1. SUFFICES ASSUME Bad # {} PROVE FALSE
    OBVIOUS
  <2>2. Bad \in SUBSET Nat
    OBVIOUS
  <2>3. Min(Bad) \in Bad /\ \A k \in Bad : Min(Bad) <= k
    BY ONLY <2>1, <2>2, MinOfNaturals
  <2>4. PICK k \in 1 .. n : ~Has(k) /\ \A j \in 1 .. n : ~Has(j) => k <= j
    BY <2>3
  <2>5. k # 1 /\ k - 1 \in 1 .. n
    BY <1>1, <2>4
  <2>. QED  BY <1>2, <2>4, <2>5
<1>4. Has(n)
  BY <1>3
<1>. QED  BY <1>4 DEF Has


\* The scan keeps a window whose score no other window undercuts.
LEMMA SelectedIsLowest ==
  ASSUME NEW C \in SUBSET Tickets, NEW c \in Seq(C), NoDuplicates(c), Len(c) >= PlayersPerMatch, ClockAhead
  PROVE  \A j \in Starts(c) : Score(ToSet(Selected(c))) <= Score(ToSet(Window(c, j)))
<1> DEFINE score(i) == Score(ToSet(Window(c, i)))
           n == Len(c) - PlayersPerMatch + 1
           g == [i \in 1 .. n |-> score(i)]
           best == {i \in Starts(c) : score(i) < Sentinel /\ \A j \in Starts(c) : score(i) <= score(j)}
<1>1. n \in Nat /\ n # 0 /\ Starts(c) = 1 .. n /\ Starts(c) \in SUBSET Nat
  BY PoolAssumption DEF Starts
<1>2. ASSUME NEW i \in Starts(c) PROVE score(i) \in Int /\ score(i) < Sentinel
  <2> DEFINE S == ToSet(Window(c, i))
  <2>1. /\ Window(c, i) \in Seq(C) /\ Len(Window(c, i)) = PlayersPerMatch
        /\ IsFiniteSet(S) /\ Cardinality(S) = PlayersPerMatch
    BY ONLY c \in Seq(C), NoDuplicates(c), i \in Starts(c), WindowIsRoom
  <2>2. S \subseteq C
    BY ONLY <2>1, SliceCounts
  <2>3. S \in SUBSET Tickets
    BY <2>2
  <2>4. S # {}
    BY <2>1, PoolAssumption, FS_EmptySet
  <2> HIDE DEF S
  <2>5. Score(S) \in Int /\ Score(S) < Sentinel
    BY ONLY <2>1, <2>3, <2>4, ClockAhead, BelowSentinel
  <2>. QED  BY <2>5 DEF S
<1>3. Selected(c) = Window(c, IF best = {} THEN 1 ELSE Min(best))
  BY DEF Selected
<1> HIDE DEF score, n
<1>4. g \in [1 .. n -> Int]
  BY <1>1, <1>2
<1>5. PICK i \in Starts(c) : \A j \in Starts(c) : score(i) <= score(j)
  <2> HIDE DEF g
  <2>1. \E i \in 1 .. n : \A j \in 1 .. n : g[i] <= g[j]
    BY ONLY <1>1, <1>4, LowestPlace
  <2>. QED  BY <1>1, <2>1 DEF g
<1>6. i \in best
  BY <1>2, <1>5
<1>7. best \in SUBSET Nat /\ best # {}
  BY <1>1, <1>6
<1>8. Min(best) \in best
  <2> HIDE DEF best
  <2>. QED  BY <1>7, MinOfNaturals
<1>9. Selected(c) = Window(c, Min(best)) /\ \A j \in Starts(c) : score(Min(best)) <= score(j)
  BY <1>3, <1>7, <1>8
<1>. QED  BY <1>9 DEF score

\* In a sorted slice the tickets of a room of consecutive ratings stand side by side: the
\* scan looks at every such room.
LEMMA ConsecutiveIsWindow ==
  ASSUME NEW C \in SUBSET Tickets, NEW c \in Seq(C), NoDuplicates(c), ToSet(c) = C, Ascending(c),
         NEW W \in Rooms(C), Consecutive(W, C)
  PROVE  \E i \in Starts(c) : W = ToSet(Window(c, i))
<1> DEFINE P == {j \in 1 .. Len(c) : c[j] \in W}
<1>1. Len(c) \in Nat /\ DOMAIN c = 1 .. Len(c) /\ \A j \in 1 .. Len(c) : c[j] \in Tickets
  OBVIOUS
<1>2. W \subseteq C /\ W \in SUBSET Tickets /\ Cardinality(W) = PlayersPerMatch
  BY DEF Rooms
<1>3. W # {}
  BY <1>2, PoolAssumption, FS_EmptySet
<1>4. \A t \in C : \E j \in 1 .. Len(c) : c[j] = t
  BY SliceCounts
<1>5. P # {} /\ P \in SUBSET (1 .. Len(c)) /\ P \in SUBSET Nat
  BY <1>2, <1>3, <1>4
<1>6. \A j \in P : c[j] \in W /\ j \in 1 .. Len(c)
  OBVIOUS
<1>7. \A t \in W : \E j \in P : c[j] = t
  BY <1>2, <1>4
<1>8. \A j \in 1 .. Len(c) : c[j] \in W => j \in P
  OBVIOUS
<1> HIDE DEF P
<1>9. PICK a \in P : \A j \in P : a <= j
  BY ONLY <1>5, MinOfNaturals
<1>10. PICK b \in P : \A j \in P : j <= b
  BY ONLY <1>1, <1>5, MaxOfPlaces
<1>11. a \in Nat /\ b \in Nat /\ 1 <= a /\ a <= b /\ b <= Len(c)
  BY <1>1, <1>6, <1>9, <1>10
<1>12. ASSUME NEW j \in a .. b PROVE c[j] \in W
  <2>1. j \in 1 .. Len(c) /\ j \in Nat
    BY <1>1, <1>11
  <2>2. SUFFICES ASSUME c[j] \in C \ W PROVE FALSE
    BY <2>1
  <2>3. j # a /\ j # b
    BY <1>6, <1>9, <1>10, <2>2
  <2>4. MMR[c[a]] <= MMR[c[j]] /\ MMR[c[j]] <= MMR[c[b]]
    BY <1>1, <1>6, <1>9, <1>10, <1>11, <2>1, <2>3 DEF Ascending
  <2>5. Lowest(W) <= MMR[c[a]] /\ MMR[c[b]] <= Highest(W) /\ Lowest(W) \in 0 .. MaxMMR /\ Highest(W) \in 0 .. MaxMMR
    BY <1>2, <1>3, <1>6, <1>9, <1>10, Extremes
  <2>6. MMR[c[a]] \in Nat /\ MMR[c[b]] \in Nat /\ MMR[c[j]] \in Nat
    BY <1>1, <1>11, <2>1, PoolAssumption
  <2>7. MMR[c[j]] < Lowest(W) \/ MMR[c[j]] > Highest(W)
    BY <2>2 DEF Consecutive
  <2>8. MaxMMR \in Nat
    BY PoolAssumption
  <2>. QED  BY <2>4, <2>5, <2>6, <2>7, <2>8
<1>13. W = {c[j] : j \in a .. b}
  <2>1. \A j \in P : j \in a .. b
    BY <1>5, <1>9, <1>10, <1>11
  <2>. QED  BY <1>7, <1>12, <2>1
<1>14. b - a + 1 = PlayersPerMatch
  <2> DEFINE f == [j \in a .. b |-> c[j]]
  <2>1. \A j, k \in 1 .. Len(c) : c[j] = c[k] => j = k
    BY SliceCounts
  <2>2. \A j \in a .. b : j \in 1 .. Len(c)
    BY <1>1, <1>11
  <2>3. \A j, k \in a .. b : c[j] = c[k] => j = k
    BY <2>1, <2>2
  <2>4. f \in Bijection(a .. b, W)
    BY <1>13, <2>3 DEF Bijection, Injection, Surjection, IsInjective
  <2>5. IsFiniteSet(a .. b) /\ Cardinality(a .. b) = b - a + 1
    BY <1>11, FS_Interval
  <2>6. ExistsBijection(a .. b, W)
    BY <2>4 DEF ExistsBijection
  <2>7. Cardinality(W) = Cardinality(a .. b)
    BY ONLY <2>5, <2>6, FS_Bijection
  <2>. QED  BY <1>2, <2>5, <2>7
<1>15. a \in Starts(c) /\ b = a + PlayersPerMatch - 1
  BY <1>1, <1>11, <1>14, PoolAssumption DEF Starts
<1>16. ToSet(Window(c, a)) = {c[j] : j \in a .. a + PlayersPerMatch - 1}
  BY ONLY c \in Seq(C), NoDuplicates(c), <1>15, WindowIsRoom
<1>. QED  BY <1>13, <1>15, <1>16

-------------------------------------------------------------------------------
(* The room that is extracted                                                *)

\* The invariant includes what the scores need.
LEMMA ClockIsAhead == PInv => ClockAhead
BY PoolAssumption DEF PInv, TypeOK, IndexInv, ClockAhead

\* What a successful extraction hands out, in terms of the state before it.
LEMMA ExtractsBestRoom ==
  ASSUME PInv, ExtractMatch
  PROVE  BestRoom(held' \ held)
<1>1. PICK bk \in FullestBrackets :
        /\ Cardinality(Candidates(bk)) >= PlayersPerMatch
        /\ \E c \in Sortings(Candidates(bk)) : TakeOut(Selected(c)) /\ held' = held \cup ToSet(Selected(c))
  BY DEF ExtractMatch
<1>2. PICK c \in Sortings(Candidates(bk)) : held' = held \cup ToSet(Selected(c))
  BY <1>1
<1> DEFINE C == Candidates(bk)
           S == ToSet(Selected(c))
<1>3. /\ IsFiniteSet(C) /\ C \subseteq Queued
      /\ c \in Seq(C) /\ Len(c) = Cardinality(C) /\ NoDuplicates(c) /\ ToSet(c) = C /\ Ascending(c)
      /\ S \subseteq C /\ Cardinality(S) = PlayersPerMatch
  BY <1>1, ExtractedRoom
<1>4. C \in SUBSET Tickets /\ Len(c) >= PlayersPerMatch
  BY <1>1, <1>3 DEF Queued
<1>5. held' \ held = S
  <2>1. held \cap Queued = {}
    BY DEF PInv, IndexInv
  <2>. QED  BY <1>2, <1>3, <2>1
<1> HIDE DEF C, S
<1>6. ClockAhead
  BY ClockIsAhead
<1>7. \A j \in Starts(c) : Score(S) <= Score(ToSet(Window(c, j)))
  BY ONLY <1>3, <1>4, <1>6, SelectedIsLowest DEF S
<1>8. ASSUME NEW W \in Rooms(C), Consecutive(W, C) PROVE Score(S) <= Score(W)
  <2>1. \E i \in Starts(c) : W = ToSet(Window(c, i))
    BY ONLY <1>3, <1>4, <1>8, W \in Rooms(C), ConsecutiveIsWindow
  <2>. QED  BY <1>7, <2>1
<1>9. S \in Rooms(C)
  BY <1>3 DEF Rooms
<1>. QED  BY <1>5, <1>8, <1>9 DEF BestRoom, C

\* Only ExtractMatch hands out tickets.
LEMMA OnlyExtractHolds ==
  ASSUME [Next]_vars, held' \ held # {}
  PROVE  ExtractMatch
<1>1. \A t \in Tickets : Enqueue(t) \/ ReEnqueue(t) \/ LetGo(t) => held' \subseteq held
  BY DEF Enqueue, ReEnqueue, LetGo
<1>2. \A id \in PlayerIDs : Dequeue(id) => held' \subseteq held
  BY DEF Dequeue
<1>3. Tick \/ UNCHANGED vars => held' \subseteq held
  BY DEF Tick, vars
<1>. QED  BY <1>1, <1>2, <1>3 DEF Next

\* pool.go:312: the room taken out of the pool scores no worse than any room of
\* consecutive ratings among the candidates, ties sorted either way.
THEOREM NoBetterRoomExists == Spec => NoBetterRoom
<1>1. PInv /\ [Next]_vars => (held' \ held # {} => BestRoom(held' \ held))
  BY OnlyExtractHolds, ExtractsBestRoom
<1>. QED  BY <1>1, PoolInvariance, PTL DEF Spec, NoBetterRoom

\* A best room overtakes nobody for ever.
LEMMA BestRoomIsFair ==
  ASSUME PInv, NEW S, BestRoom(S)
  PROVE  OvertakenFairly(S)
<1>1. PICK bk \in FullestBrackets :
        /\ S \in Rooms(Candidates(bk))
        /\ \A W \in Rooms(Candidates(bk)) : Consecutive(W, Candidates(bk)) => Score(S) <= Score(W)
  BY DEF BestRoom
<1> DEFINE C == Candidates(bk)
<1>2. bk \in Brackets /\ brackets \in Slices /\ Queued \in SUBSET Tickets /\ Lists(brackets, Queued)
  BY IndexMeaning DEF PInv, FullestBrackets
<1>3. IsFiniteSet(C) /\ C \in SUBSET Tickets
  BY <1>2, CandidatesAreFinite, CandidatesAreQueued
<1>4. ClockAhead
  BY ClockIsAhead
<1>5. PlayersPerMatch \in Nat /\ PlayersPerMatch # 0 /\ WaitWeight \in Nat
  BY PoolAssumption
<1>6. ASSUME NEW R \in Rooms(C)
      PROVE  /\ R \in SUBSET Tickets
             /\ TotalWait(R) \in Nat /\ Spread(R) \in Nat
             /\ \A t \in R : now - enqueuedAt[t] <= TotalWait(R) /\ now - enqueuedAt[t] \in Nat
  <2>1. R \in SUBSET Tickets /\ IsFiniteSet(R) /\ Cardinality(R) = PlayersPerMatch
    BY <1>3, FS_Subset DEF Rooms
  <2>2. R # {}
    BY <1>5, <2>1, FS_EmptySet
  <2>3. TotalWait(R) \in Nat /\ \A t \in R : now - enqueuedAt[t] <= TotalWait(R)
    BY <1>4, <2>1, TotalWaitBounds
  <2>4. Spread(R) \in Nat
    BY <2>1, <2>2, Extremes
  <2>5. \A t \in R : now - enqueuedAt[t] \in Nat
    BY <1>4, <2>1 DEF ClockAhead
  <2>. QED  BY <2>1, <2>3, <2>4, <2>5
<1>7. ASSUME NEW W \in Rooms(C), Consecutive(W, C), NEW t \in W \ S
      PROVE  WaitWeight * (now - enqueuedAt[t]) <= PlayersPerMatch * Spread(W) + WaitWeight * TotalWait(S)
  <2> DEFINE a == WaitWeight * (now - enqueuedAt[t])
             b == WaitWeight * TotalWait(W)
             d == WaitWeight * TotalWait(S)
             x == PlayersPerMatch * Spread(S)
             y == PlayersPerMatch * Spread(W)
  <2>1. a \in Nat /\ b \in Nat /\ a <= b
    BY <1>5, <1>6, ProductGrows
  <2>2. x \in Nat /\ y \in Nat /\ d \in Nat
    BY <1>1, <1>5, <1>6
  <2>3. x - d <= y - b
    BY <1>1, <1>7 DEF Score
  <2> HIDE DEF a, b, d, x, y
  <2>4. a <= y + d
    BY <2>1, <2>2, <2>3
  <2>. QED  BY <2>4 DEF a, d, y
<1>. QED  BY <1>1, <1>7 DEF OvertakenFairly

\* pool.go:25, "preventing indefinite starvation": a wait is worth points that grow with the
\* clock, so a candidate that keeps being passed over is eventually worth more than any tighter room.
THEOREM OvertakingIsBounded == Spec => NoEndlessOvertaking
<1>1. PInv /\ [Next]_vars => (held' \ held # {} => OvertakenFairly(held' \ held))
  BY OnlyExtractHolds, ExtractsBestRoom, BestRoomIsFair
<1>. QED  BY <1>1, PoolInvariance, PTL DEF Spec, NoEndlessOvertaking

-------------------------------------------------------------------------------
(* The sort and the scan                                                     *)

\* pool.go:320 takes the spread off the two ends of the window: sorted, that is the
\* spread of the room.
THEOREM SpreadFromEnds ==
  ASSUME NEW C \in SUBSET Tickets, NEW c \in Seq(C), NoDuplicates(c), Ascending(c), NEW i \in Starts(c)
  PROVE  Spread(ToSet(Window(c, i))) = MMR[c[i + PlayersPerMatch - 1]] - MMR[c[i]]
<1> DEFINE k == i + PlayersPerMatch - 1
           W == ToSet(Window(c, i))
<1>1. i \in Nat /\ 1 <= i /\ k \in Nat /\ i <= k /\ k <= Len(c) /\ Len(c) \in Nat /\ DOMAIN c = 1 .. Len(c)
  BY PoolAssumption DEF Starts
<1>2. W = {c[j] : j \in i .. k}
  BY ONLY c \in Seq(C), NoDuplicates(c), i \in Starts(c), WindowIsRoom
<1> HIDE DEF W, k
<1>3. \A j \in i .. k : j \in 1 .. Len(c) /\ c[j] \in Tickets /\ MMR[c[j]] \in Nat
  BY <1>1, PoolAssumption
<1>4. i \in i .. k /\ k \in i .. k
  BY <1>1
<1>5. \A j \in i .. k : MMR[c[i]] <= MMR[c[j]] /\ MMR[c[j]] <= MMR[c[k]]
  <2>1. SUFFICES ASSUME NEW j \in i .. k PROVE MMR[c[i]] <= MMR[c[j]] /\ MMR[c[j]] <= MMR[c[k]]
    OBVIOUS
  <2>2. MMR[c[i]] <= MMR[c[j]]
    <3>1. CASE i = j
      BY <1>3, <1>4, <3>1
    <3>2. CASE i < j
      BY <1>1, <1>3, <1>4, <3>2 DEF Ascending
    <3>. QED  BY <1>1, <3>1, <3>2
  <2>3. MMR[c[j]] <= MMR[c[k]]
    <3>1. CASE k = j
      BY <1>3, <1>4, <3>1
    <3>2. CASE j < k
      BY <1>1, <1>3, <1>4, <3>2 DEF Ascending
    <3>. QED  BY <1>1, <3>1, <3>2
  <2>. QED  BY <2>2, <2>3
<1>6. W \in SUBSET Tickets /\ c[i] \in W /\ c[k] \in W /\ W # {}
  BY <1>2, <1>3, <1>4
<1>7. /\ \E t \in W : Lowest(W) = MMR[t]
      /\ \E t \in W : Highest(W) = MMR[t]
      /\ \A t \in W : Lowest(W) <= MMR[t] /\ MMR[t] <= Highest(W)
      /\ Lowest(W) \in 0 .. MaxMMR /\ Highest(W) \in 0 .. MaxMMR
  BY ONLY <1>6, Extremes
<1>8. MaxMMR \in Nat
  BY PoolAssumption
<1>9. PICK a \in i .. k, b \in i .. k : Lowest(W) = MMR[c[a]] /\ Highest(W) = MMR[c[b]]
  BY <1>2, <1>7
<1>10. Lowest(W) = MMR[c[i]]
  BY <1>3, <1>4, <1>5, <1>6, <1>7, <1>9
<1>11. Highest(W) = MMR[c[k]]
  BY <1>3, <1>4, <1>5, <1>6, <1>7, <1>9
<1>. QED  BY <1>10, <1>11 DEF Spread, W, k

\* sort.Slice has something to leave behind: finitely many tickets have a sorting.
LEMMA SortingExists ==
  ASSUME NEW C \in SUBSET Tickets, IsFiniteSet(C)
  PROVE  Sortings(C) # {}
<1> DEFINE Sorted(D) == \E s \in Seq(Tickets) : ToSet(s) = D /\ NoDuplicates(s) /\ Ascending(s)
           Bad == {k \in Nat : \E D \in SUBSET C : Cardinality(D) = k /\ ~Sorted(D)}
<1>1. \A D \in SUBSET C : IsFiniteSet(D) /\ Cardinality(D) \in Nat
  BY FS_Subset, FS_CardinalityType
<1>2. Sorted({})
  <2>1. << >> \in Seq(Tickets) /\ ToSet(<< >>) = {} /\ Len(<< >>) = 0 /\ DOMAIN << >> = {}
    BY DEF ToSet
  <2>. QED  BY <2>1, FS_EmptySet DEF NoDuplicates, Ascending
<1>3. ASSUME NEW D \in SUBSET C, NEW t \in C \ D, Sorted(D) PROVE Sorted(D \cup {t})
  <2>1. PICK s \in Seq(Tickets) : ToSet(s) = D /\ NoDuplicates(s) /\ Ascending(s)
    BY <1>3
  <2>2. t \in Tickets /\ t \notin ToSet(s)
    BY <2>1
  <2>3. /\ insertSorted(s, t) \in Seq(Tickets) /\ ToSet(insertSorted(s, t)) = ToSet(s) \cup {t}
        /\ NoDuplicates(insertSorted(s, t)) /\ Ascending(insertSorted(s, t))
    BY ONLY <2>1, <2>2, InsertSortedKeeps
  <2>. QED  BY <2>1, <2>3
<1> HIDE DEF Sorted
<1>4. Bad = {}
  <2>1. SUFFICES ASSUME Bad # {} PROVE FALSE
    OBVIOUS
  <2>2. Bad \in SUBSET Nat
    OBVIOUS
  <2>3. Min(Bad) \in Bad /\ \A k \in Bad : Min(Bad) <= k
    BY ONLY <2>1, <2>2, MinOfNaturals
  <2>4. PICK D \in SUBSET C : ~Sorted(D) /\ \A B \in SUBSET C : ~Sorted(B) => Cardinality(D) <= Cardinality(B)
    BY <1>1, <2>3
  <2>5. PICK t \in D : TRUE
    BY <1>2, <2>4
  <2>6. Cardinality(D \ {t}) = Cardinality(D) - 1
    BY <1>1, FS_RemoveElement
  <2>7. Sorted(D \ {t})
    BY <1>1, <2>4, <2>6
  <2>8. D \ {t} \in SUBSET C /\ t \in C \ (D \ {t}) /\ (D \ {t}) \cup {t} = D
    OBVIOUS
  <2>. QED  BY <1>3, <2>4, <2>7, <2>8
<1>5. Sorted(C)
  BY <1>1, <1>4
<1>6. PICK s \in Seq(Tickets) : ToSet(s) = C /\ NoDuplicates(s) /\ Ascending(s)
  BY <1>5 DEF Sorted
<1>7. Len(s) = Cardinality(C) /\ Len(s) \in Nat /\ DOMAIN s = 1 .. Len(s)
  BY <1>6 DEF NoDuplicates
<1>8. C = {s[i] : i \in 1 .. Len(s)} /\ \A i, j \in 1 .. Len(s) : s[i] = s[j] => i = j
  BY <1>6, SliceCounts
<1>9. s \in [1 .. Len(s) -> C]
  <2>1. s \in [1 .. Len(s) -> Tickets] /\ \A i \in 1 .. Len(s) : s[i] \in C
    BY <1>6, <1>8
  <2>. QED  BY <2>1
<1>10. s \in SetToSeqs(C)
  BY <1>7, <1>8, <1>9 DEF SetToSeqs
<1>. QED  BY <1>6, <1>10 DEF Sortings

\* Candidates that fill a room always yield one: neither the sort nor the scan of
\* ExtractMatch can come away empty.
Extractable ==
  \A bk \in FullestBrackets :
    Cardinality(Candidates(bk)) >= PlayersPerMatch =>
      \E c \in Sortings(Candidates(bk)) : Selected(c) \in Seq(Queued) /\ Len(Selected(c)) = PlayersPerMatch

\* pool.go:303-338: the only way for ExtractMatch to give up is its own size check.
THEOREM FullNeighbourhoodsYield == Spec => []Extractable
<1>1. ASSUME PInv PROVE Extractable
  <2>1. SUFFICES ASSUME NEW bk \in FullestBrackets, Cardinality(Candidates(bk)) >= PlayersPerMatch
                 PROVE  \E c \in Sortings(Candidates(bk)) :
                          Selected(c) \in Seq(Queued) /\ Len(Selected(c)) = PlayersPerMatch
    BY DEF Extractable
  <2>2. bk \in Brackets /\ brackets \in Slices /\ Queued \in SUBSET Tickets /\ Lists(brackets, Queued)
    BY <1>1, IndexMeaning DEF PInv, FullestBrackets
  <2>3. IsFiniteSet(Candidates(bk)) /\ Candidates(bk) \in SUBSET Tickets
    BY <2>2, CandidatesAreFinite, CandidatesAreQueued
  <2>4. PICK c \in Sortings(Candidates(bk)) : TRUE
    BY <2>3, SortingExists
  <2>5. /\ Selected(c) \in Seq(Queued) /\ NoDuplicates(Selected(c))
        /\ Cardinality(ToSet(Selected(c))) = PlayersPerMatch
    BY <1>1, <2>1, ExtractedRoom
  <2>6. Len(Selected(c)) = PlayersPerMatch
    BY <2>5 DEF NoDuplicates
  <2>. QED  BY <2>5, <2>6
<1>. QED  BY <1>1, PoolInvariance, PTL
==============================================================================
