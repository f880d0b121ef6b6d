-------------------------- MODULE Monitors_proofs --------------------------
(***************************************************************************)
(* Proofs about the monitors and the store, for any number of sessions,    *)
(* requests, rows and restarts, and for every window, threshold and        *)
(* retention: faces are compared with the stored reference, what the       *)
(* checks amount to is flagged, a flag leads to its evidence and was       *)
(* raised for what a reviewer is shown, and the board shows what the store *)
(* holds open and nothing that had expired.                                *)
(*                                                                         *)
(* The store's queries sort.  What a sorted list is follows from the ranks *)
(* of its members (Sorting), what a replay of it leaves open from its last *)
(* row of each flag (What a start replays).  The handlers are reduced to   *)
(* what they may do to each table, once for flags and once for checks, and *)
(* an invariant is kept by those few effects and by the start of a process.*)
(***************************************************************************)
EXTENDS Monitors, FiniteSetTheorems, WellFoundedInduction, TLAPS

---------------------------------------------------------------------------
(* Sorting.                                                                *)

Preceding(R, S, i) == {j \in S : <<j, i>> \in R}

StrictOrder(R, S) ==
  /\ \A i \in S : <<i, i>> \notin R
  /\ \A i, j, k \in S : <<i, j>> \in R /\ <<j, k>> \in R => <<i, k>> \in R
  /\ \A i, j \in S : i = j \/ <<i, j>> \in R \/ <<j, i>> \in R

\* e puts the members of S one after another.
Ranks(e, R, S) ==
  /\ DOMAIN e = 1 .. Cardinality(S)
  /\ \A k \in 1 .. Cardinality(S) : e[k] \in S /\ Cardinality(Preceding(R, S, e[k])) = k - 1

\* In a finite set of n members each has another rank below n, so all the
\* ranks below n are taken.
LEMMA EveryRankIsTaken ==
  ASSUME NEW S, NEW R, IsFiniteSet(S), StrictOrder(R, S)
  PROVE  /\ \A i, j \in S :
              <<i, j>> \in R =>
                Cardinality(Preceding(R, S, i)) < Cardinality(Preceding(R, S, j))
         /\ \A i \in S : Cardinality(Preceding(R, S, i)) \in 0 .. Cardinality(S) - 1
         /\ \A k \in 1 .. Cardinality(S) :
              \E i \in S : Cardinality(Preceding(R, S, i)) = k - 1
<1> DEFINE n == Cardinality(S)
           rank == [i \in S |-> Cardinality(Preceding(R, S, i))]
<1>1. n \in Nat
  BY FS_CardinalityType
<1>2. ASSUME NEW i \in S
      PROVE  IsFiniteSet(Preceding(R, S, i)) /\ rank[i] \in 0 .. n - 1
  <2>1. Preceding(R, S, i) \in SUBSET (S \ {i})
    BY DEF Preceding, StrictOrder
  <2>2. IsFiniteSet(S \ {i}) /\ Cardinality(S \ {i}) = n - 1
    BY <1>1, FS_RemoveElement
  <2>3. IsFiniteSet(Preceding(R, S, i)) /\ Cardinality(Preceding(R, S, i)) =< n - 1
    BY <2>1, <2>2, FS_Subset
  <2>4. Cardinality(Preceding(R, S, i)) \in Nat
    BY <2>3, FS_CardinalityType
  <2> QED BY <1>1, <2>3, <2>4
<1>3. ASSUME NEW i \in S, NEW j \in S, <<i, j>> \in R
      PROVE  rank[i] < rank[j]
  <2>1. Preceding(R, S, i) \cup {i} \in SUBSET Preceding(R, S, j)
    BY <1>3 DEF Preceding, StrictOrder
  <2>2. i \notin Preceding(R, S, i)
    BY DEF Preceding, StrictOrder
  <2>3. Cardinality(Preceding(R, S, i) \cup {i}) = Cardinality(Preceding(R, S, i)) + 1
    BY <1>2, <2>2, FS_AddElement
  <2>4. Cardinality(Preceding(R, S, i) \cup {i}) =< Cardinality(Preceding(R, S, j))
    BY <1>2, <2>1, FS_Subset
  <2> QED BY <1>2, <2>3, <2>4
<1>4. rank \in Injection(S, 0 .. n - 1)
  <2>1. rank \in [S -> 0 .. n - 1]
    BY <1>2
  <2>2. ASSUME NEW i \in S, NEW j \in S, rank[i] = rank[j] PROVE i = j
    <3>1. rank[i] \in Int /\ rank[j] \in Int
      BY <1>2
    <3>2. ~(rank[i] < rank[j]) /\ ~(rank[j] < rank[i])
      BY <2>2, <3>1
    <3> QED BY <1>3, <3>2 DEF StrictOrder
  <2> QED BY <2>1, <2>2 DEF Injection, IsInjective
<1>5. rank \in Surjection(S, 0 .. n - 1)
  <2>1. IsFiniteSet(0 .. n - 1) /\ Cardinality(0 .. n - 1) = n
    BY <1>1, FS_Interval
  <2> QED BY <1>4, <2>1, FS_Injection
<1>6. ASSUME NEW k \in 1 .. n PROVE \E i \in S : rank[i] = k - 1
  <2>1. k - 1 \in 0 .. n - 1
    BY <1>1
  <2> QED BY <1>5, <2>1 DEF Surjection
<1> QED BY <1>2, <1>3, <1>6

LEMMA RankedIsSorted ==
  ASSUME NEW S, NEW R, IsFiniteSet(S), StrictOrder(R, S), NEW e, Ranks(e, R, S)
  PROVE  LET n == Cardinality(S) IN
         /\ n \in Nat /\ DOMAIN e = 1 .. n
         /\ \A k \in 1 .. n : e[k] \in S
         /\ \A k, l \in 1 .. n : k < l => <<e[k], e[l]>> \in R
         /\ \A i \in S : \E k \in 1 .. n : e[k] = i
<1> DEFINE n == Cardinality(S)
           rank(i) == Cardinality(Preceding(R, S, i))
<1>1. n \in Nat
  BY FS_CardinalityType
<1>2. \A k \in 1 .. n : e[k] \in S /\ rank(e[k]) = k - 1
  BY DEF Ranks
<1>3. DOMAIN e = 1 .. n
  BY DEF Ranks
<1>4. ASSUME NEW k \in 1 .. n, NEW l \in 1 .. n, k < l
      PROVE  <<e[k], e[l]>> \in R
  <2>1. rank(e[k]) = k - 1 /\ rank(e[l]) = l - 1 /\ e[k] \in S /\ e[l] \in S
    BY <1>2
  <2>2. k \in Int /\ l \in Int
    BY <1>1
  <2>3. e[k] # e[l] /\ ~(rank(e[l]) < rank(e[k]))
    BY <1>4, <2>1, <2>2
  <2>4. <<e[l], e[k]>> \notin R
    BY <2>1, <2>3, EveryRankIsTaken
  <2> QED BY <2>1, <2>3, <2>4 DEF StrictOrder
<1>5. ASSUME NEW i \in S PROVE \E k \in 1 .. n : e[k] = i
  <2>1. rank(i) \in 0 .. n - 1
    BY EveryRankIsTaken
  <2>2. rank(i) + 1 \in 1 .. n /\ (rank(i) + 1) - 1 = rank(i)
    BY <1>1, <2>1
  <2>3. e[rank(i) + 1] \in S /\ rank(e[rank(i) + 1]) = rank(i)
    BY <1>2, <2>2
  <2>4. /\ ~(rank(e[rank(i) + 1]) < rank(i))
        /\ ~(rank(i) < rank(e[rank(i) + 1]))
    BY <2>1, <2>3
  <2>5. e[rank(i) + 1] = i
    BY <2>3, <2>4, EveryRankIsTaken DEF StrictOrder
  <2> QED BY <2>2, <2>5
<1> QED BY <1>1, <1>2, <1>3, <1>4, <1>5

---------------------------------------------------------------------------
(* What the store returns.                                                 *)

Row ==
  [session_id : Sessions, id : Nat, resolved : BOOLEAN, opened_at_ms : Nat,
   recorded_ms : Nat, transcript_ref : Nat \cup {None},
   rule_id : {"identity_mismatch", "identity_unobservable", "audio_seeking_help", "rule"}]

\* q is made of the rows of p at the positions e, which ascend.
Picks(q, p, e, n) ==
  /\ n \in Nat /\ \A k \in 1 .. n : e[k] \in DOMAIN p
  /\ q = [k \in 1 .. n |-> p[e[k]]]

LEMMA RowsAre ==
  ASSUME NEW p \in Seq(Row)
  PROVE  /\ Len(p) \in Nat /\ DOMAIN p = 1 .. Len(p) /\ IsFiniteSet(DOMAIN p)
         /\ \A i \in DOMAIN p : i \in Nat /\ p[i] \in Row
<1>1. Len(p) \in Nat /\ DOMAIN p = 1 .. Len(p)
  OBVIOUS
<1>2. IsFiniteSet(1 .. Len(p))
  BY <1>1, FS_Interval
<1>3. \A i \in 1 .. Len(p) : i \in Nat /\ p[i] \in Row
  BY <1>1
<1> QED BY <1>1, <1>2, <1>3

LEMMA RowIs ==
  ASSUME NEW r \in Row
  PROVE  /\ r.session_id \in Sessions /\ r.id \in Nat /\ r.resolved \in BOOLEAN
         /\ r.opened_at_ms \in Nat /\ r.recorded_ms \in Nat
BY DEF Row

LEMMA PicksAreRows ==
  ASSUME NEW p \in Seq(Row), NEW q, NEW e, NEW n, Picks(q, p, e, n)
  PROVE  q \in Seq(Row) /\ DOMAIN q = 1 .. n /\ Len(q) = n
<1>1. \A i \in DOMAIN p : p[i] \in Row
  BY RowsAre
<1>2. n \in Nat /\ q \in [1 .. n -> Row]
  BY <1>1 DEF Picks
<1> QED BY <1>2

\* What a purge keeps are the younger rows, in their order.
LEMMA YoungerKeeps ==
  ASSUME NEW p \in Seq(Row), NEW cutoff
  PROVE  \E n, e :
           /\ Picks(Younger(p, cutoff), p, e, n)
           /\ \A k, l \in 1 .. n : k < l => e[k] < e[l]
           /\ \A k \in 1 .. n : p[e[k]].recorded_ms >= cutoff
           /\ \A i \in DOMAIN p :
                p[i].recorded_ms >= cutoff => \E k \in 1 .. n : e[k] = i
<1> DEFINE S == {i \in DOMAIN p : p[i].recorded_ms >= cutoff}
           R == {x \in S \X S : x[1] < x[2]}
           n == Cardinality(S)
           e == Sorted(S, <)
<1>1. S \in SUBSET DOMAIN p /\ \A i \in S : i \in Nat
  BY RowsAre
<1>2. IsFiniteSet(S)
  BY <1>1, RowsAre, FS_Subset
<1>3. Younger(p, cutoff) = [k \in DOMAIN e |-> p[e[k]]]
  BY DEF Younger
<1>4. \A i \in S : p[i].recorded_ms >= cutoff
  OBVIOUS
<1>5. \A i \in DOMAIN p : p[i].recorded_ms >= cutoff => i \in S
  OBVIOUS
<1> HIDE DEF S
<1>6. \A i, j \in S : <<i, j>> \in R <=> i < j
  OBVIOUS
<1> HIDE DEF R
<1>7. StrictOrder(R, S)
  BY <1>1, <1>6 DEF StrictOrder
<1>8. Ranks(e, R, S)
  <2>1. \A i \in S : Preceding(R, S, i) = {j \in S : j < i}
    BY <1>6 DEF Preceding
  <2>2. ASSUME NEW k \in 1 .. n
        PROVE  e[k] \in S /\ Cardinality(Preceding(R, S, e[k])) = k - 1
    <3>1. PICK i \in S : Cardinality(Preceding(R, S, i)) = k - 1
      BY <1>2, <1>7, EveryRankIsTaken
    <3>2. Cardinality({j \in S : j < i}) = k - 1
      BY <2>1, <3>1
    <3>3. e[k] = CHOOSE x \in S : Cardinality({j \in S : j < x}) = k - 1
      BY DEF Sorted
    <3>4. e[k] \in S /\ Cardinality({j \in S : j < e[k]}) = k - 1
      BY <3>2, <3>3
    <3> QED BY <2>1, <3>4
  <2>3. DOMAIN e = 1 .. n
    BY DEF Sorted
  <2> QED BY <2>2, <2>3 DEF Ranks
<1> HIDE DEF e
<1>9. /\ n \in Nat /\ DOMAIN e = 1 .. n
      /\ \A k \in 1 .. n : e[k] \in S
      /\ \A k, l \in 1 .. n : k < l => <<e[k], e[l]>> \in R
      /\ \A i \in S : \E k \in 1 .. n : e[k] = i
  BY <1>2, <1>7, <1>8, RankedIsSorted
<1>10. Picks(Younger(p, cutoff), p, e, n)
  BY <1>1, <1>3, <1>9 DEF Picks
<1>11. \A k, l \in 1 .. n : k < l => e[k] < e[l]
  BY <1>6, <1>9
<1>12. \A k \in 1 .. n : p[e[k]].recorded_ms >= cutoff
  BY <1>4, <1>9
<1>13. \A i \in DOMAIN p : p[i].recorded_ms >= cutoff => \E k \in 1 .. n : e[k] = i
  BY <1>5, <1>9
<1> QED BY <1>10, <1>11, <1>12, <1>13

\* q has the newest rows of a session, in the order of the clock.
HasNewest(q, p, s, limit) ==
  \E n, e :
    /\ Picks(q, p, e, n)
    /\ \A k, l \in 1 .. n : k < l => RecordedBefore(p, e[k], e[l])
    /\ \A k \in 1 .. n : e[k] \in NewestOf(p, s, limit)
    /\ \A i \in NewestOf(p, s, limit) : \E k \in 1 .. n : e[k] = i

LEMMA LoadedAreNewest ==
  ASSUME NEW d, d.violations \in Seq(Row), NEW s, NEW limit
  PROVE  HasNewest(LoadViolations(d, s, limit), d.violations, s, limit)
<1>0. PICK p \in Seq(Row) : p = d.violations
  OBVIOUS
<1> DEFINE B(i, j) == RecordedBefore(p, i, j)
           S == NewestOf(p, s, limit)
           R == {x \in S \X S : B(x[1], x[2])}
           n == Cardinality(S)
           e == Sorted(S, B)
<1>1. S \in SUBSET DOMAIN p
  BY DEF NewestOf, RowsOf
<1>2. IsFiniteSet(S)
  BY <1>1, RowsAre, FS_Subset
<1>3. \A i \in S : i \in Int /\ p[i].recorded_ms \in Int
  BY <1>1, RowsAre, RowIs
<1>4. LoadViolations(d, s, limit) = [k \in DOMAIN e |-> p[e[k]]]
  BY <1>0 DEF LoadViolations
<1> HIDE DEF S
<1>5. /\ \A i \in S : ~B(i, i)
      /\ \A i, j, k \in S : B(i, j) /\ B(j, k) => B(i, k)
      /\ \A i, j \in S : i = j \/ B(i, j) \/ B(j, i)
  BY <1>3 DEF RecordedBefore
<1> HIDE DEF B
<1>6. \A i, j \in S : <<i, j>> \in R <=> B(i, j)
  OBVIOUS
<1> HIDE DEF R
<1>7. StrictOrder(R, S)
  BY <1>5, <1>6 DEF StrictOrder
<1>8. Ranks(e, R, S)
  <2>1. \A i \in S : Preceding(R, S, i) = {j \in S : B(j, i)}
    BY <1>6 DEF Preceding
  <2>2. ASSUME NEW k \in 1 .. n
        PROVE  e[k] \in S /\ Cardinality(Preceding(R, S, e[k])) = k - 1
    <3>1. PICK i \in S : Cardinality(Preceding(R, S, i)) = k - 1
      BY <1>2, <1>7, EveryRankIsTaken
    <3>2. Cardinality({j \in S : B(j, i)}) = k - 1
      BY <2>1, <3>1
    <3>3. e[k] = CHOOSE x \in S : Cardinality({j \in S : B(j, x)}) = k - 1
      BY DEF Sorted
    <3>4. e[k] \in S /\ Cardinality({j \in S : B(j, e[k])}) = k - 1
      BY <3>2, <3>3
    <3> QED BY <2>1, <3>4
  <2>3. DOMAIN e = 1 .. n
    BY DEF Sorted
  <2> QED BY <2>2, <2>3 DEF Ranks
<1> HIDE DEF e
<1>9. /\ n \in Nat /\ DOMAIN e = 1 .. n
      /\ \A k \in 1 .. n : e[k] \in S
      /\ \A k, l \in 1 .. n : k < l => <<e[k], e[l]>> \in R
      /\ \A i \in S : \E k \in 1 .. n : e[k] = i
  BY <1>2, <1>7, <1>8, RankedIsSorted
<1>10. Picks(LoadViolations(d, s, limit), p, e, n)
  BY <1>1, <1>4, <1>9 DEF Picks
<1>11. \A k, l \in 1 .. n : k < l => RecordedBefore(p, e[k], e[l])
  BY <1>6, <1>9 DEF B
<1> QED BY <1>0, <1>9, <1>10, <1>11 DEF S, HasNewest

---------------------------------------------------------------------------
(* What a start replays.                                                   *)

LEMMA HasLeast ==
  ASSUME NEW S \in SUBSET Nat, S # {}
  PROVE  \E k \in S : \A j \in S : k =< j
<1> DEFINE R == OpToRel(<, Nat)
<1>1. \A i, j \in Nat : i < j => <<i, j>> \in R
  BY Zenon DEF OpToRel
<1>2. IsWellFoundedOn(R, Nat)
  BY NatLessThanWellFounded
<1> HIDE DEF R
<1>3. PICK k \in S : \A j \in S : ~(<<j, k>> \in R)
  BY <1>2, WFMin
<1>4. ASSUME NEW j \in S PROVE k =< j
  <2>1. ~(j < k)
    BY <1>1, <1>3, Zenon
  <2> QED BY <2>1
<1> QED BY <1>4

LEMMA HasGreatest ==
  ASSUME NEW n \in Nat, NEW t \in SUBSET (1 .. n), t # {}
  PROVE  Max(t) \in t /\ \A j \in t : j =< Max(t)
<1> DEFINE S == {n - i : i \in t}
<1>1. S \in SUBSET Nat /\ S # {}
  <2>1. \A i \in t : n - i \in Nat
    OBVIOUS
  <2> QED BY <2>1
<1>2. PICK k \in S : \A j \in S : k =< j
  BY <1>1, HasLeast
<1>3. PICK i \in t : k = n - i
  BY <1>2
<1>4. \A j \in t : i >= j
  <2> SUFFICES ASSUME NEW j \in t PROVE i >= j
    OBVIOUS
  <2>1. k =< n - j
    BY <1>2
  <2> QED BY <1>3, <2>1
<1>5. \E x \in t : \A y \in t : x >= y
  BY <1>4
<1>6. Max(t) \in t /\ \A y \in t : Max(t) >= y
  BY <1>5 DEF Max
<1> QED BY <1>6

\* The flags that the rows at the positions t open and none of them resolves.
LeftOpen(q, t) ==
  {q[i].id : i \in {i \in t :
     ~q[i].resolved /\ \A j \in t : j > i /\ q[j].id = q[i].id => ~q[j].resolved}}

BoardOf(s, known, open) == [k \in {s} |-> [known |-> known, open |-> open]]

\* The open flags of a session, after one more row.
Opened(open, v) == IF v.resolved THEN open \ {v.id} ELSE open \cup {v.id}

LEMMA RecordOnBoard ==
  ASSUME NEW s, NEW known \in BOOLEAN, NEW open, NEW v, v.session_id = s
  PROVE  RecordViolation(BoardOf(s, known, open), v) = BoardOf(s, known, Opened(open, v))
<1>1. Ensure(BoardOf(s, known, open), s, FALSE) = BoardOf(s, known, open)
  BY DEF Ensure, Upsert, BoardOf
<1>2. \A ids : [BoardOf(s, known, open) EXCEPT ![s].open = ids] = BoardOf(s, known, ids)
  BY DEF BoardOf
<1>3. BoardOf(s, known, open)[s].open = open
  BY DEF BoardOf
<1> HIDE DEF BoardOf
<1>4. RecordViolation(BoardOf(s, known, open), v) =
        [BoardOf(s, known, open) EXCEPT ![s].open = Opened(open, v)]
  BY <1>1, <1>3, Zenon DEF RecordViolation, Opened
<1> QED BY <1>2, <1>4

LEMMA OneMore ==
  ASSUME NEW q \in Seq(Row), NEW t \in SUBSET DOMAIN q, NEW i \in t, \A j \in t : j =< i
  PROVE  LeftOpen(q, t) = Opened(LeftOpen(q, t \ {i}), q[i])
<1>1. \A j \in t : j \in Nat /\ (j > i <=> FALSE) /\ (j < i <=> j # i)
  BY RowsAre
<1>2. CASE q[i].resolved
  <2>1. ASSUME NEW id, id \in LeftOpen(q, t) PROVE id \in LeftOpen(q, t \ {i}) /\ id # q[i].id
    BY <1>1, <1>2, <2>1 DEF LeftOpen
  <2>2. ASSUME NEW id, id \in LeftOpen(q, t \ {i}), id # q[i].id PROVE id \in LeftOpen(q, t)
    BY <1>1, <1>2, <2>2 DEF LeftOpen
  <2> QED BY <1>2, <2>1, <2>2 DEF Opened
<1>3. CASE ~q[i].resolved
  <2>1. ASSUME NEW id, id \in LeftOpen(q, t), id # q[i].id PROVE id \in LeftOpen(q, t \ {i})
    BY <1>1, <1>3, <2>1 DEF LeftOpen
  <2>2. q[i].id \in LeftOpen(q, t)
    BY <1>1, <1>3 DEF LeftOpen
  <2>3. ASSUME NEW id, id \in LeftOpen(q, t \ {i}) PROVE id \in LeftOpen(q, t)
    BY <1>1, <1>3, <2>3 DEF LeftOpen
  <2> QED BY <1>3, <2>1, <2>2, <2>3 DEF Opened
<1> QED BY <1>2, <1>3

\* The equation of the fold that replays the rows q.
Replaying(q, base, g) ==
  g = [t \in SUBSET DOMAIN q |->
         IF t = {} THEN base
         ELSE LET i == Max(t) IN RecordViolation(g[t \ {i}], q[i])]

LEMMA ReplayIs ==
  ASSUME NEW q, NEW base
  PROVE  FoldLeft(RecordViolation, base, q) = (CHOOSE g : Replaying(q, base, g))[DOMAIN q]
BY DEF FoldLeft, MapThenFoldSet, Replaying

LEMMA ReplayLeavesOpen ==
  ASSUME NEW q \in Seq(Row), NEW s, \A i \in DOMAIN q : q[i].session_id = s,
         NEW known \in BOOLEAN
  PROVE  FoldLeft(RecordViolation, Ensure(<<>>, s, known), q) =
           BoardOf(s, known, LeftOpen(q, DOMAIN q))
<1> DEFINE base == Ensure(<<>>, s, known)
           G == [t \in SUBSET DOMAIN q |-> BoardOf(s, known, LeftOpen(q, t))]
<1>1. base = BoardOf(s, known, {})
  BY DEF Ensure, Upsert, BoardOf
<1>2. PICK n \in Nat : n = Len(q) /\ DOMAIN q = 1 .. n
  BY RowsAre
<1> HIDE DEF base
<1>3. ASSUME NEW t \in SUBSET DOMAIN q, t # {}
      PROVE  RecordViolation(G[t \ {Max(t)}], q[Max(t)]) = G[t]
  <2>1. PICK i \in t : i = Max(t) /\ \A j \in t : j =< i
    BY <1>2, <1>3, HasGreatest
  <2>2. G[t \ {i}] = BoardOf(s, known, LeftOpen(q, t \ {i}))
    OBVIOUS
  <2>3. q[i].session_id = s
    OBVIOUS
  <2>4. RecordViolation(G[t \ {i}], q[i]) =
          BoardOf(s, known, Opened(LeftOpen(q, t \ {i}), q[i]))
    BY <2>2, <2>3, RecordOnBoard
  <2> QED BY <2>1, <2>4, OneMore
<1>4. Replaying(q, base, G)
  <2>1. G[{}] = base
    BY <1>1 DEF LeftOpen
  <2> QED BY <1>3, <2>1 DEF Replaying
<1>5. PICK h : h = (CHOOSE g : Replaying(q, base, g)) /\ Replaying(q, base, h)
  BY <1>4
<1>6. \A m \in 0 .. n : h[1 .. m] = G[1 .. m]
  <2> DEFINE Bad == {m \in 0 .. n : h[1 .. m] # G[1 .. m]}
  <2> SUFFICES ASSUME Bad # {} PROVE FALSE
    OBVIOUS
  <2>0. Bad \in SUBSET Nat
    OBVIOUS
  <2>1. PICK m \in Bad : \A j \in Bad : m =< j
    <3> HIDE DEF Bad
    <3> QED BY <2>0, HasLeast
  <2>2. m \in 0 .. n /\ h[1 .. m] # G[1 .. m]
    OBVIOUS
  <2>3. CASE m = 0
    <3>1. 1 .. m = {} /\ {} \in SUBSET DOMAIN q
      BY <2>3
    <3> QED BY <1>4, <1>5, <2>2, <3>1 DEF Replaying
  <2>4. CASE m # 0
    <3>1. /\ m - 1 \in 0 .. n /\ ~(m =< m - 1)
          /\ 1 .. m \in SUBSET DOMAIN q /\ 1 .. m # {}
      BY <1>2, <2>2, <2>4
    <3>2. h[1 .. m - 1] = G[1 .. m - 1]
      BY <2>1, <3>1
    <3>3. Max(1 .. m) = m /\ 1 .. m \ {m} = 1 .. m - 1
      <4>1. m \in Nat /\ m \in 1 .. m /\ 1 .. m \in SUBSET (1 .. m)
        BY <2>2, <2>4
      <4>2. Max(1 .. m) \in 1 .. m /\ m =< Max(1 .. m)
        BY <4>1, <3>1, HasGreatest
      <4> QED BY <4>1, <4>2
    <3>4. h[1 .. m] = RecordViolation(h[1 .. m - 1], q[m])
      BY <1>5, <3>1, <3>3 DEF Replaying
    <3>5. G[1 .. m] = RecordViolation(G[1 .. m - 1], q[m])
      BY <1>3, <3>1, <3>3
    <3> QED BY <2>2, <3>2, <3>4, <3>5
  <2> QED BY <2>3, <2>4
<1>7. h[DOMAIN q] = G[DOMAIN q]
  <2>1. n \in 0 .. n
    OBVIOUS
  <2> HIDE DEF G
  <2> QED BY <1>2, <1>6, <2>1
<1>8. FoldLeft(RecordViolation, base, q) = h[DOMAIN q]
  BY <1>5, ReplayIs
<1> QED BY <1>7, <1>8 DEF base

---------------------------------------------------------------------------
(* The inductive invariant                                                 *)

IsStore(d) ==
  d = [sessions |-> d.sessions, violations |-> d.violations,
       identity_templates |-> d.identity_templates,
       identity_checks |-> d.identity_checks,
       audio_transcripts |-> d.audio_transcripts,
       audio_checks |-> d.audio_checks]

StoreTyped(d) ==
  /\ IsStore(d)
  /\ d.violations \in Seq(Row)
  /\ DOMAIN d.sessions \subseteq Sessions
  /\ \A s \in DOMAIN d.sessions : d.sessions[s].updated_ms \in Nat
  /\ \A s \in DOMAIN d.identity_templates : d.identity_templates[s].created_ms \in Nat
  /\ \A id \in DOMAIN d.audio_transcripts :
       id \in Nat /\ id < uuids /\ d.audio_transcripts[id].recorded_ms \in Nat

BoardTyped(b) ==
  /\ DOMAIN b \subseteq Sessions
  /\ \A s \in DOMAIN b : b[s] \in [known : BOOLEAN, open : SUBSET Nat]

IsIdentity(v) ==
  v = [enrolment |-> v.enrolment, recent |-> v.recent,
       unassessable_run |-> v.unassessable_run, status |-> v.status]

VerifierTyped(f) == DOMAIN f = Sessions /\ \A s \in Sessions : IsIdentity(f[s])

Typed ==
  /\ settings \in Deployments
  /\ now \in Nat /\ uuids \in Nat
  /\ left \in [requests : Nat, telemetry : Nat, restarts : Nat, failures : Nat,
               steps_back : Nat]
  /\ registry \subseteq Sessions
  /\ VerifierTyped(verifier)
  /\ StoreTyped(db) /\ BoardTyped(board)
  /\ boot.flags \in Nat
  /\ {boot.cutoff, boot.templates, boot.transcripts} \subseteq Int

\* What a request waits with.
CallTyped(call, known, enabled, transcripts) ==
  /\ call.kind \in {"enrol", "probe", "transcribing", "classifying"} =>
       call.session \in known
  /\ call.kind \in {"enrol", "probe"} => enabled.identity
  /\ call.kind = "classifying" =>
       /\ enabled.audio = "classify" /\ call.now \in Nat
       /\ call.transcript \in DOMAIN transcripts
       /\ transcripts[call.transcript] =
            [session_id |-> call.session, recorded_ms |-> call.now]

CallsTyped ==
  /\ DOMAIN calls = Calls
  /\ \A c \in Calls : CallTyped(calls[c], registry, settings, db.audio_transcripts)

\* Ids are given out once; the rows of one are of one session, and all but
\* the first of them are resolutions.
IdsAreUnique ==
  \A i \in DOMAIN db.violations :
    /\ db.violations[i].id < uuids
    /\ \A j \in DOMAIN db.violations :
         db.violations[i].id = db.violations[j].id /\ i < j =>
           /\ db.violations[j].session_id = db.violations[i].session_id
           /\ db.violations[j].resolved

\* The process writes about the sessions it knows.
OwnRowsAreKnown ==
  \A i \in DOMAIN db.violations :
    i > boot.flags => db.violations[i].session_id \in registry

KnownOn(b, s) == s \in DOMAIN b /\ b[s].known
OpenOn(b, s) == IF s \in DOMAIN b THEN b[s].open ELSE {}

NeverResolved(rows, id) == \A j \in DOMAIN rows : rows[j].id = id => ~rows[j].resolved

\* Who is on the board.
BoardIsKnown ==
  /\ \A s \in DOMAIN board : board[s].known => s \in registry
  /\ \A s \in DOMAIN board \ registry :
       \E i \in DOMAIN db.violations : db.violations[i].session_id = s
  /\ ~boot.bare =>
       \A i \in DOMAIN db.violations : db.violations[i].session_id \in DOMAIN board

\* What is open has a firing that, in the order of the clock, nothing
\* resolves ...
OpenIsStored ==
  \A s \in Sessions \ failed : \A id \in OpenOn(board, s) :
    /\ \E i \in DOMAIN db.violations :
         /\ db.violations[i].id = id /\ db.violations[i].session_id = s
         /\ ~db.violations[i].resolved
    /\ InOrder(db.violations) => NeverResolved(db.violations, id)

\* ... and a new row that nothing resolves is open.
StoredIsOpen ==
  \A s \in Sessions \ failed :
    InOrder(db.violations) /\ ~boot.bare =>
      \A i \in NewestOf(db.violations, s, RestoredPerSession) :
        NeverResolved(db.violations, db.violations[i].id) =>
          db.violations[i].id \in OpenOn(board, s)

RowsInv == IdsAreUnique /\ OwnRowsAreKnown /\ BoardIsKnown /\ OpenIsStored /\ StoredIsOpen

\* How far the clock has been set back, and that a cutoff is behind it.
SteppedBack == settings.steps_back - left.steps_back
IsBehind(cutoff, days) == cutoff = -1 \/ (days # 0 /\ cutoff + days =< now + SteppedBack)

ClockInv ==
  /\ left.steps_back =< settings.steps_back
  /\ IsBehind(boot.cutoff, RetentionDays)
  /\ IsBehind(boot.templates, TemplateDays)
  /\ IsBehind(boot.transcripts, TranscriptDays)

\* What is stored had not expired when the process started.
NothingStoredHasExpired ==
  /\ registry \subseteq DOMAIN db.sessions
  /\ \A s \in DOMAIN db.sessions : db.sessions[s].updated_ms >= boot.cutoff
  /\ \A i \in DOMAIN db.violations : db.violations[i].recorded_ms >= boot.cutoff
  /\ \A s \in DOMAIN db.identity_templates :
       db.identity_templates[s].created_ms >= boot.templates
  /\ \A id \in DOMAIN db.audio_transcripts :
       db.audio_transcripts[id].recorded_ms >= boot.transcripts

\* The transcript of a flag has the flag's time.
TranscriptsAreKept ==
  \A i \in DOMAIN db.violations :
    LET v == db.violations[i] IN
    v.transcript_ref # None =>
      /\ settings.audio = "classify"
      /\ \/ /\ v.transcript_ref \in DOMAIN db.audio_transcripts
            /\ db.audio_transcripts[v.transcript_ref] =
                 [session_id |-> v.session_id, recorded_ms |-> v.opened_at_ms]
         \/ v.opened_at_ms < boot.transcripts

\* The hypotheses about the clock: it is not set back by more than what is
\* kept, nor at all where transcripts are classified.
StepsWithinRetention ==
  \A d \in Deployments : \A days \in {RetentionDays, TemplateDays, TranscriptDays} :
    days = 0 \/ d.steps_back =< days

ClassifiersKeepTime == \A d \in Deployments : d.audio = "classify" => d.steps_back = 0

---------------------------------------------------------------------------
(* What the store's methods write.                                         *)

LEMMA Upserted ==
  ASSUME NEW table, NEW key, NEW row
  PROVE  /\ DOMAIN Upsert(table, key, row) = DOMAIN table \cup {key}
         /\ Upsert(table, key, row)[key] = row
         /\ \A k \in DOMAIN table : k # key => Upsert(table, key, row)[k] = table[k]
BY DEF Upsert

\* The two stores differ in this table alone.
SameBut(d, e, tables) ==
  /\ IsStore(e)
  /\ "sessions" \in tables \/ e.sessions = d.sessions
  /\ "violations" \in tables \/ e.violations = d.violations
  /\ "templates" \in tables \/ e.identity_templates = d.identity_templates
  /\ "transcripts" \in tables \/ e.audio_transcripts = d.audio_transcripts

LEMMA SessionSaved ==
  ASSUME NEW d, IsStore(d), NEW s, NEW t
  PROVE  /\ SameBut(d, SaveSession(d, s, t), {"sessions"})
         /\ SaveSession(d, s, t).sessions = Upsert(d.sessions, s, [updated_ms |-> t])
BY DEF IsStore, SameBut, SaveSession

LEMMA TemplateSaved ==
  ASSUME NEW d, IsStore(d), NEW s, NEW e, NEW r, NEW t
  PROVE  /\ SameBut(d, SaveTemplate(d, s, e, r, t), {"templates"})
         /\ SaveTemplate(d, s, e, r, t).identity_templates =
              Upsert(d.identity_templates, s,
                     [embedder |-> e, reference |-> r, created_ms |-> t])
BY DEF IsStore, SameBut, SaveTemplate

LEMMA TranscriptSaved ==
  ASSUME NEW d, IsStore(d), NEW s, NEW id, NEW t
  PROVE  /\ SameBut(d, SaveTranscript(d, id, s, t), {"transcripts"})
         /\ SaveTranscript(d, id, s, t).audio_transcripts =
              Upsert(d.audio_transcripts, id, [session_id |-> s, recorded_ms |-> t])
BY DEF IsStore, SameBut, SaveTranscript

LEMMA CheckAppended ==
  ASSUME NEW d, IsStore(d), NEW s, NEW x, NEW y, NEW t
  PROVE  /\ SameBut(d, AppendIdentityCheck(d, s, x, t), {})
         /\ SameBut(d, AppendAudioCheck(d, s, x, y, t), {})
<1>1. SameBut(d, AppendIdentityCheck(d, s, x, t), {})
  <2> DEFINE q == Append(d.identity_checks,
                         [session_id |-> s, outcome |-> x, recorded_ms |-> t])
  <2>1. AppendIdentityCheck(d, s, x, t) = [d EXCEPT !.identity_checks = q]
    BY DEF AppendIdentityCheck
  <2> HIDE DEF q
  <2> QED BY <2>1 DEF IsStore, SameBut
<1>2. SameBut(d, AppendAudioCheck(d, s, x, y, t), {})
  <2> DEFINE q == Append(d.audio_checks, [session_id |-> s, transcript_id |-> x,
                                          label |-> y, recorded_ms |-> t])
  <2>1. AppendAudioCheck(d, s, x, y, t) = [d EXCEPT !.audio_checks = q]
    BY DEF AppendAudioCheck
  <2> HIDE DEF q
  <2> QED BY <2>1 DEF IsStore, SameBut
<1> QED BY <1>1, <1>2

\* The row of a flag recorded at a time.
RowFor(v, t) ==
  [session_id |-> v.session_id, id |-> v.id, rule_id |-> v.rule_id,
   resolved |-> v.resolved, opened_at_ms |-> v.opened_at_ms,
   transcript_ref |-> v.transcript_ref, recorded_ms |-> t]

LEMMA ViolationAppended ==
  ASSUME NEW d, IsStore(d), NEW v, NEW t
  PROVE  /\ SameBut(d, AppendViolation(d, v, t), {"violations"})
         /\ AppendViolation(d, v, t).violations = Append(d.violations, RowFor(v, t))
<1> DEFINE q == Append(d.violations, RowFor(v, t))
<1>1. AppendViolation(d, v, t) = [d EXCEPT !.violations = q]
  BY DEF AppendViolation, RowFor
<1> HIDE DEF q
<1>2. AppendViolation(d, v, t).violations = q
  BY <1>1 DEF IsStore
<1>3. SameBut(d, AppendViolation(d, v, t), {"violations"})
  BY <1>1 DEF IsStore, SameBut
<1> QED BY <1>2, <1>3 DEF q

LEMMA RecordRow ==
  ASSUME NEW b, NEW v, NEW t
  PROVE  RecordViolation(b, v) = RecordViolation(b, RowFor(v, t))
<1>1. /\ RowFor(v, t).session_id = v.session_id /\ RowFor(v, t).id = v.id
      /\ RowFor(v, t).resolved = v.resolved
  BY DEF RowFor
<1> QED BY <1>1, Zenon DEF RecordViolation

---------------------------------------------------------------------------
(* What a step does.                                                       *)

ClockStep ==
  \/ now' = now /\ left'.steps_back = left.steps_back
  \/ now' = now + 1 /\ left'.steps_back = left.steps_back
  \/ /\ now > 0 /\ left.steps_back > 0
     /\ now' = now - 1 /\ left'.steps_back = left.steps_back - 1

TablesStep ==
  /\ IsStore(db')
  /\ \/ db'.sessions = db.sessions /\ registry' = registry
     \/ \E s \in Sessions :
          /\ db'.sessions = Upsert(db.sessions, s, [updated_ms |-> now])
          /\ registry' \in {registry, registry \cup {s}}
  /\ \/ db'.identity_templates = db.identity_templates
     \/ \E s \in Sessions : \E e, r :
          db'.identity_templates =
            Upsert(db.identity_templates, s,
                   [embedder |-> e, reference |-> r, created_ms |-> now])
  /\ \/ db'.audio_transcripts = db.audio_transcripts
     \/ /\ uuids' = uuids + 1
        /\ \E s \in Sessions :
             db'.audio_transcripts =
               Upsert(db.audio_transcripts, uuids, [session_id |-> s, recorded_ms |-> now])

\* What a flag refers to is there.
Evidence(v) ==
  v.transcript_ref # None =>
    /\ settings.audio = "classify"
    /\ v.transcript_ref \in DOMAIN db.audio_transcripts
    /\ db.audio_transcripts[v.transcript_ref] =
         [session_id |-> v.session_id, recorded_ms |-> v.opened_at_ms]

Quiet ==
  /\ UNCHANGED <<board, registry>> /\ db'.violations = db.violations
  /\ uuids' \in {uuids, uuids + 1}

Admits(s) ==
  /\ registry' = registry \cup {s} /\ board' = Ensure(board, s, TRUE)
  /\ db'.violations = db.violations /\ uuids' = uuids

Fires(v) ==
  /\ v.session_id \in registry /\ v.id = uuids /\ ~v.resolved /\ v.recorded_ms = now
  /\ Evidence(v)
  /\ board' = RecordViolation(board, v) /\ uuids' = uuids + 1 /\ registry' = registry
  /\ \/ db'.violations = Append(db.violations, v)
     \/ db'.violations = db.violations /\ v.session_id \in failed'

Resolves(i, v) ==
  /\ i > boot.flags
  /\ v.session_id = db.violations[i].session_id /\ v.id = db.violations[i].id
  /\ v.resolved /\ v.recorded_ms = now /\ v.transcript_ref = None
  /\ board' = RecordViolation(board, v) /\ uuids' = uuids /\ registry' = registry
  /\ db'.violations = Append(db.violations, v)

RowsStep ==
  \/ Quiet
  \/ \E s \in Sessions : Admits(s)
  \/ \E v \in Row : Fires(v)
  \/ \E i \in DOMAIN db.violations, v \in Row : Resolves(i, v)

\* A step of a process.
Works ==
  /\ UNCHANGED <<settings, boot>> /\ failed \subseteq failed'
  /\ ClockStep /\ TablesStep /\ RowsStep

\* A start, from the store as the process left it or with one more check.
Starts(d) ==
  Ending /\ Start(d) /\ SameBut(db, d, {})

LEMMA TypesOfUse ==
  ASSUME Typed
  PROVE  now \in Nat /\ uuids \in Nat /\ registry \subseteq Sessions /\ IsStore(db)
BY DEF Typed, StoreTyped

\* A probe judged.
LEMMA JudgeWorks ==
  ASSUME Typed, NEW s \in registry, NEW outcome, NEW write,
         Judge(s, outcome, write), failed \subseteq failed', left'.steps_back = left.steps_back,
         write # "none" => s \in failed'
  PROVE  Works
<1> DEFINE state == Probe(verifier[s], outcome)
           flag == Violation(s, uuids, IdentityRule(state.status), FALSE, now, None)
           checked == AppendIdentityCheck(db, s, outcome, now)
           row == RowFor(flag, now)
<1>1. /\ now \in Nat /\ uuids \in Nat /\ s \in Sessions /\ IsStore(db)
      /\ SameBut(db, checked, {})
  BY TypesOfUse, CheckAppended
<1>2. /\ row \in Row /\ row.session_id = s /\ row.id = uuids /\ row.resolved = FALSE
      /\ row.transcript_ref = None /\ row.recorded_ms = now
  <2>1. PICK rule \in {"identity_mismatch", "identity_unobservable",
                      "audio_seeking_help", "rule"} : rule = IdentityRule(state.status)
    BY DEF IdentityRule
  <2>2. None \in Nat \cup {None} /\ FALSE \in BOOLEAN
    OBVIOUS
  <2>3. PICK v : v = RowFor(Violation(s, uuids, rule, FALSE, now, None), now)
    OBVIOUS
  <2>4. /\ v \in Row
        /\ v.session_id = s /\ v.id = uuids /\ v.resolved = FALSE
        /\ v.transcript_ref = None /\ v.recorded_ms = now
    BY <1>1, <2>2, <2>3 DEF RowFor, Violation, Row
  <2> QED BY <2>1, <2>3, <2>4
<1>3. RecordViolation(board, flag) = RecordViolation(board, row)
  BY RecordRow
<1>4. UNCHANGED <<settings, boot, registry, now>>
  BY DEF Judge
<1>5. CASE UNCHANGED <<db, board, uuids>>
  BY <1>1, <1>4, <1>5 DEF Works, ClockStep, TablesStep, RowsStep, Quiet
<1>6. CASE db' = checked /\ UNCHANGED <<board, uuids>>
  BY <1>1, <1>4, <1>6 DEF Works, ClockStep, TablesStep, RowsStep, Quiet, SameBut
<1>7. CASE /\ write \in {"none", "append_violation"}
           /\ board' = RecordViolation(board, flag)
           /\ db' = IF write = "none" THEN AppendViolation(checked, flag, now) ELSE checked
           /\ uuids' = uuids + 1
  <2> HIDE DEF flag, row, checked
  <2>1. IsStore(checked) /\ checked.violations = db.violations
    BY <1>1 DEF SameBut
  <2>2. /\ SameBut(checked, AppendViolation(checked, flag, now), {"violations"})
        /\ AppendViolation(checked, flag, now).violations = Append(checked.violations, row)
    BY <2>1, ViolationAppended DEF row
  <2>3. SameBut(db, db', {"violations"})
    BY <1>1, <1>7, <2>2 DEF SameBut
  <2>4. \/ db'.violations = Append(db.violations, row)
        \/ db'.violations = db.violations /\ s \in failed'
    BY <1>7, <2>1, <2>2
  <2>5. Fires(row)
    BY <1>2, <1>3, <1>4, <1>7, <2>4 DEF Fires, Evidence
  <2> QED BY <1>2, <1>4, <2>3, <2>5 DEF Works, ClockStep, TablesStep, RowsStep, SameBut
<1> QED BY <1>5, <1>6, <1>7 DEF Judge

Lefts == [requests : Nat, telemetry : Nat, restarts : Nat, failures : Nat, steps_back : Nat]

LEMMA LeftIs ==
  ASSUME Typed
  PROVE  /\ Arrives \/ Streams \/ Ending =>
              left' \in Lefts /\ left'.steps_back = left.steps_back
         /\ \A s, write : Raises(s, write) =>
              /\ left' \in Lefts /\ left'.steps_back = left.steps_back
              /\ failed \subseteq failed' /\ (write # "none" => s \in failed')
<1>1. left \in Lefts
  BY DEF Typed, Lefts
<1>2. Arrives \/ Streams \/ Ending => left' \in Lefts /\ left'.steps_back = left.steps_back
  BY <1>1 DEF Arrives, Streams, Ending, Lefts
<1>3. ASSUME NEW s, NEW write, Raises(s, write)
      PROVE  /\ left' \in Lefts /\ left'.steps_back = left.steps_back
             /\ failed \subseteq failed' /\ (write # "none" => s \in failed')
  BY <1>1, <1>3 DEF Raises, Lefts
<1> QED BY <1>2, <1>3

\* A step that writes nothing the invariant reads.
LEMMA IdleWorks ==
  ASSUME Typed, UNCHANGED <<settings, boot, board, registry, now>>, SameBut(db, db', {}),
         left'.steps_back = left.steps_back, failed \subseteq failed', uuids' = uuids
  PROVE  Works
BY DEF Works, ClockStep, TablesStep, RowsStep, Quiet, SameBut

LEMMA SameStore ==
  ASSUME Typed, db' = db PROVE SameBut(db, db', {})
BY TypesOfUse DEF SameBut

LEMMA SessionsWork ==
  ASSUME Typed, CallsTyped, OwnRowsAreKnown, NEW s \in Sessions,
         \/ CreateSession(s) \/ Checkpoint(s)
         \/ \E write \in Writes : PoorProbe(s, {"no_face"}, write)
         \/ \E checkpoint \in BOOLEAN : RuleFlag(s, checkpoint)
  PROVE  Works
<1>1. CASE CreateSession(s)
  <2>1. SameBut(db, db', {"sessions"})
          /\ db'.sessions = Upsert(db.sessions, s, [updated_ms |-> now])
    BY <1>1, TypesOfUse, SessionSaved DEF CreateSession
  <2>2. Admits(s)
    BY <1>1, <2>1 DEF CreateSession, Admits, SameBut
  <2>3. TablesStep
    BY <1>1, <2>1 DEF CreateSession, TablesStep, SameBut
  <2> QED BY <1>1, <2>2, <2>3 DEF CreateSession, Works, ClockStep, RowsStep
<1>2. CASE Checkpoint(s)
  <2>1. SameBut(db, db', {"sessions"})
          /\ db'.sessions = Upsert(db.sessions, s, [updated_ms |-> now])
    BY <1>2, TypesOfUse, SessionSaved DEF Checkpoint
  <2>2. Quiet
    BY <1>2, <2>1 DEF Checkpoint, memory, Quiet, SameBut
  <2>3. TablesStep
    BY <1>2, <2>1 DEF Checkpoint, memory, TablesStep, SameBut
  <2>4. left'.steps_back = left.steps_back
    BY <1>2, LeftIs DEF Checkpoint
  <2> QED BY <1>2, <2>2, <2>3, <2>4 DEF Checkpoint, memory, Works, ClockStep, RowsStep
<1>3. ASSUME NEW write \in Writes, PoorProbe(s, {"no_face"}, write) PROVE Works
  <2>1. /\ left'.steps_back = left.steps_back
        /\ failed \subseteq failed' /\ (write # "none" => s \in failed')
    <3>1. CASE write = "none"
      BY <1>3, <3>1, LeftIs DEF PoorProbe
    <3>2. CASE write # "none"
      BY <1>3, <3>2, LeftIs DEF PoorProbe
    <3> QED BY <3>1, <3>2
  <2>2. s \in registry
    BY <1>3 DEF PoorProbe
  <2>3. Judge(s, Compare(None, verifier[s].enrolment, {"no_face"}), write)
    BY <1>3 DEF PoorProbe
  <2> QED BY <2>1, <2>2, <2>3, JudgeWorks
<1>4. ASSUME NEW checkpoint \in BOOLEAN, RuleFlag(s, checkpoint) PROVE Works
  <2> DEFINE flag == Violation(s, uuids, "rule", FALSE, now, None)
             row == RowFor(flag, now)
             stored == AppendViolation(db, flag, now)
  <2>0. now \in Nat /\ uuids \in Nat /\ IsStore(db)
    BY TypesOfUse
  <2>1. /\ row \in Row /\ row.session_id = s /\ row.id = uuids /\ row.resolved = FALSE
        /\ row.transcript_ref = None /\ row.recorded_ms = now
    BY <2>0 DEF RowFor, Violation, Row
  <2>2. SameBut(db, stored, {"violations"}) /\ stored.violations = Append(db.violations, row)
    BY <2>0, ViolationAppended
  <2>3. /\ SameBut(stored, SaveSession(stored, s, now), {"sessions"})
        /\ SaveSession(stored, s, now).sessions =
             Upsert(stored.sessions, s, [updated_ms |-> now])
    <3>1. IsStore(stored)
      BY <2>2 DEF SameBut
    <3> HIDE DEF stored
    <3> QED BY <3>1, SessionSaved
  <2>4. /\ IsStore(db') /\ db'.violations = Append(db.violations, row)
        /\ \/ db'.sessions = db.sessions
           \/ db'.sessions = Upsert(db.sessions, s, [updated_ms |-> now])
        /\ db'.identity_templates = db.identity_templates
        /\ db'.audio_transcripts = db.audio_transcripts
    <3> HIDE DEF flag, row, stored
    <3>1. db' = stored \/ db' = SaveSession(stored, s, now)
      BY <1>4 DEF RuleFlag, stored, flag
    <3> QED BY <2>2, <2>3, <3>1 DEF SameBut
  <2>5. board' = RecordViolation(board, row)
    BY <1>4, RecordRow DEF RuleFlag
  <2>6. left'.steps_back = left.steps_back
    BY <1>4, LeftIs DEF RuleFlag
  <2>7. s \in registry /\ uuids' = uuids + 1
          /\ UNCHANGED <<settings, registry, now, boot, failed>>
    BY <1>4 DEF RuleFlag
  <2> HIDE DEF flag, row, stored
  <2>8. Fires(row)
    BY <2>1, <2>4, <2>5, <2>7 DEF Fires, Evidence
  <2> QED BY <2>1, <2>4, <2>6, <2>7, <2>8 DEF Works, ClockStep, TablesStep, RowsStep
<1> QED BY <1>1, <1>2, <1>3, <1>4

LEMMA ResolutionWorks ==
  ASSUME Typed, CallsTyped, OwnRowsAreKnown,
         NEW i \in DOMAIN db.violations, RuleResolution(i)
  PROVE  Works
<1> DEFINE s == db.violations[i].session_id
           id == db.violations[i].id
           flag == Violation(s, id, "rule", TRUE, now, None)
           row == RowFor(flag, now)
           stored == AppendViolation(db, flag, now)
<1>0. now \in Nat /\ uuids \in Nat /\ IsStore(db)
  BY TypesOfUse
<1>1. s \in Sessions /\ id \in Nat
  <2>1. db.violations \in Seq(Row)
    BY DEF Typed, StoreTyped
  <2> QED BY <2>1, RowsAre, RowIs
<1>2. i > boot.flags /\ s \in registry
  BY DEF RuleResolution, OwnRowsAreKnown
<1> HIDE DEF s, id
<1>3. /\ row \in Row /\ row.session_id = s /\ row.id = id /\ row.resolved = TRUE
      /\ row.transcript_ref = None /\ row.recorded_ms = now
  BY <1>0, <1>1 DEF RowFor, Violation, Row
<1>4. SameBut(db, stored, {"violations"}) /\ stored.violations = Append(db.violations, row)
  BY <1>0, ViolationAppended
<1>5. /\ SameBut(stored, SaveSession(stored, s, now), {"sessions"})
      /\ SaveSession(stored, s, now).sessions = Upsert(stored.sessions, s, [updated_ms |-> now])
  <2>1. IsStore(stored)
    BY <1>4 DEF SameBut
  <2> HIDE DEF stored
  <2> QED BY <2>1, SessionSaved
<1>6. db' = SaveSession(stored, s, now)
  BY DEF RuleResolution, s, id
<1>7. board' = RecordViolation(board, row)
  BY RecordRow DEF RuleResolution, s, id
<1>8. left'.steps_back = left.steps_back
  BY LeftIs DEF RuleResolution
<1>9. UNCHANGED <<settings, registry, now, uuids, boot, failed>>
  BY DEF RuleResolution
<1> HIDE DEF flag, row, stored
<1>10. TablesStep /\ db'.violations = Append(db.violations, row)
  BY <1>1, <1>4, <1>5, <1>6, <1>9 DEF TablesStep, SameBut
<1>11. Resolves(i, row)
  BY <1>2, <1>3, <1>7, <1>9, <1>10 DEF Resolves, s, id
<1> QED BY <1>3, <1>8, <1>9, <1>10, <1>11 DEF Works, ClockStep, RowsStep

LEMMA RequestsWork ==
  ASSUME Typed, CallsTyped, NEW c \in Calls, NEW write \in Writes,
         \/ \E s \in Sessions :
              \/ BeginChunk(c, s)
              \/ \E captures \in CaptureSets : BeginEnrol(c, s, captures)
              \/ \E face \in Faces : BeginProbe(c, s, face)
         \/ Transcribed(c) \/ Refused(c)
         \/ FinishEnrol(c, write) \/ FinishProbe(c, write)
         \/ \E answer \in Answers : Classified(c, answer, write)
  PROVE  Works
<1> DEFINE s == calls[c].session
<1>0. now \in Nat /\ uuids \in Nat /\ registry \subseteq Sessions /\ IsStore(db)
  BY TypesOfUse
<1>1. ASSUME NEW call, Waits(c, call) PROVE Works
  <2>1. /\ UNCHANGED <<settings, boot, board, registry, now, failed, uuids>> /\ db' = db
        /\ left'.steps_back = left.steps_back
    BY <1>1, LeftIs DEF Waits
  <2> QED BY <2>1, SameStore, IdleWorks
<1>2. ASSUME NEW t \in Sessions,
             \/ BeginChunk(c, t)
             \/ \E captures \in CaptureSets : BeginEnrol(c, t, captures)
             \/ \E face \in Faces : BeginProbe(c, t, face)
      PROVE  Works
  BY <1>1, <1>2 DEF BeginChunk, BeginEnrol, BeginProbe
<1>3. CASE Transcribed(c)
  <2>1. s \in Sessions
    BY <1>0, <1>3 DEF Transcribed, CallsTyped, CallTyped
  <2>2. /\ SameBut(db, db', {"transcripts"})
        /\ db'.audio_transcripts =
             Upsert(db.audio_transcripts, uuids, [session_id |-> s, recorded_ms |-> now])
    BY <1>0, <1>3, TranscriptSaved DEF Transcribed
  <2>3. /\ UNCHANGED <<settings, boot, board, registry, now, failed, left>>
        /\ uuids' = uuids + 1
    BY <1>3 DEF Transcribed
  <2>4. TablesStep
    BY <2>1, <2>2, <2>3 DEF TablesStep, SameBut
  <2>5. Quiet
    BY <2>2, <2>3 DEF Quiet, SameBut
  <2> QED BY <2>3, <2>4, <2>5 DEF Works, ClockStep, RowsStep
<1>4. CASE Refused(c)
  <2>1. /\ UNCHANGED <<settings, boot, board, registry, now, failed, uuids, left>> /\ db' = db
    BY <1>4 DEF Refused
  <2> QED BY <2>1, SameStore, IdleWorks
<1>5. CASE FinishEnrol(c, write)
  <2>1. s \in Sessions
    BY <1>0, <1>5 DEF FinishEnrol, CallsTyped, CallTyped
  <2>2. UNCHANGED <<settings, embedder, registry, board, audio, now, uuids, boot>>
    BY <1>5 DEF FinishEnrol
  <2>3. left'.steps_back = left.steps_back /\ failed \subseteq failed'
    BY <1>5, LeftIs DEF FinishEnrol
  <2>4. CASE db' = db
    BY <2>2, <2>3, <2>4, SameStore, IdleWorks
  <2>5. ASSUME NEW e, NEW r, db' = SaveTemplate(db, s, e, r, now) PROVE Works
    <3>1. /\ SameBut(db, db', {"templates"})
          /\ db'.identity_templates =
               Upsert(db.identity_templates, s,
                      [embedder |-> e, reference |-> r, created_ms |-> now])
      BY <1>0, <2>5, TemplateSaved
    <3>2. TablesStep
      BY <2>1, <2>2, <3>1 DEF TablesStep, SameBut
    <3>3. Quiet
      BY <2>2, <3>1 DEF Quiet, SameBut
    <3> QED BY <2>2, <2>3, <3>2, <3>3 DEF Works, ClockStep, RowsStep
  <2> QED BY <1>5, <2>4, <2>5 DEF FinishEnrol
<1>6. CASE FinishProbe(c, write)
  <2>1. s \in registry
    BY <1>6 DEF FinishProbe, CallsTyped, CallTyped
  <2>2. CASE verifier[s].enrolment = None
    <3>1. /\ UNCHANGED <<settings, boot, board, registry, now, failed, uuids, left>> /\ db' = db
      BY <1>6, <2>2 DEF FinishProbe
    <3> QED BY <3>1, SameStore, IdleWorks
  <2>3. CASE verifier[s].enrolment # None
    <3>1. /\ Judge(s, Compare(calls[c].face, verifier[s].enrolment, {}), write)
          /\ Raises(s, write)
      BY <1>6, <2>3 DEF FinishProbe
    <3>2. /\ left'.steps_back = left.steps_back
          /\ failed \subseteq failed' /\ (write # "none" => s \in failed')
      BY <3>1, LeftIs
    <3> QED BY <2>1, <3>1, <3>2, JudgeWorks
  <2> QED BY <2>2, <2>3
<1>7. ASSUME NEW answer \in Answers, Classified(c, answer, write) PROVE Works
  <2> DEFINE call == calls[c]
             label == Classify(answer)
             flag == Violation(s, uuids, "audio_seeking_help", FALSE, call.now, call.transcript)
             row == RowFor(flag, now)
             checked == AppendAudioCheck(db, s, call.transcript, label, call.now)
  <2>1. /\ s \in registry /\ settings.audio = "classify" /\ call.now \in Nat
        /\ call.transcript \in DOMAIN db.audio_transcripts
        /\ db.audio_transcripts[call.transcript] = [session_id |-> s, recorded_ms |-> call.now]
    BY <1>7 DEF Classified, CallsTyped, CallTyped
  <2>2. call.transcript \in Nat
    BY <2>1 DEF Typed, StoreTyped
  <2>3. /\ UNCHANGED <<settings, embedder, registry, verifier, now, boot>>
        /\ Raises(s, write)
    BY <1>7 DEF Classified
  <2>4. /\ left'.steps_back = left.steps_back
        /\ failed \subseteq failed' /\ (write # "none" => s \in failed')
    BY <2>3, LeftIs
  <2>5. SameBut(db, checked, {})
    BY <1>0, CheckAppended
  <2>6. /\ row \in Row /\ row.session_id = s /\ row.id = uuids /\ row.resolved = FALSE
        /\ row.transcript_ref = call.transcript /\ row.opened_at_ms = call.now
        /\ row.recorded_ms = now
    <3> HIDE DEF s, call
    <3>1. s \in Sessions
      BY <1>0, <2>1
    <3> QED BY <1>0, <2>1, <2>2, <3>1 DEF RowFor, Violation, Row
  <2>7. RecordViolation(board, flag) = RecordViolation(board, row)
    BY RecordRow
  <2>8. CASE db' = db /\ UNCHANGED <<board, uuids>>
    BY <2>3, <2>4, <2>8, SameStore, IdleWorks
  <2>9. CASE db' = checked /\ UNCHANGED <<board, uuids>>
    BY <2>3, <2>4, <2>5, <2>9, IdleWorks
  <2>10. CASE /\ board' = RecordViolation(board, flag)
              /\ db' = IF write = "none" THEN AppendViolation(checked, flag, now) ELSE checked
              /\ uuids' = uuids + 1
    <3> HIDE DEF flag, row, checked
    <3>1. IsStore(checked) /\ checked.violations = db.violations
      BY <2>5 DEF SameBut
    <3>2. /\ SameBut(checked, AppendViolation(checked, flag, now), {"violations"})
          /\ AppendViolation(checked, flag, now).violations = Append(checked.violations, row)
      BY <3>1, ViolationAppended DEF row
    <3>3. SameBut(db, db', {"violations"})
      BY <2>5, <2>10, <3>2 DEF SameBut
    <3>4. \/ db'.violations = Append(db.violations, row)
          \/ db'.violations = db.violations /\ s \in failed'
      BY <2>4, <2>10, <3>1, <3>2
    <3>5. Evidence(row)
      BY <2>1, <2>6 DEF Evidence
    <3> HIDE DEF s, call
    <3>6. Fires(row)
      BY <2>1, <2>3, <2>6, <2>7, <2>10, <3>4, <3>5 DEF Fires
    <3>7. TablesStep
      BY <2>3, <3>3 DEF TablesStep, SameBut
    <3> QED BY <2>3, <2>4, <2>6, <3>6, <3>7 DEF Works, ClockStep, RowsStep
  <2> QED BY <1>7, <2>8, <2>9, <2>10 DEF Classified
<1> QED BY <1>2, <1>3, <1>4, <1>5, <1>6, <1>7

LEMMA TimeWorks ==
  ASSUME Typed, Day \/ StepBack \/ UNCHANGED vars
  PROVE  Works
<1>1. /\ UNCHANGED <<settings, boot, board, registry, failed, uuids>> /\ db' = db
  BY DEF Day, StepBack, vars, memory
<1>2. ClockStep
  BY DEF Day, StepBack, vars, memory, ClockStep, Typed
<1> QED BY <1>1, <1>2, TypesOfUse DEF Works, TablesStep, RowsStep, Quiet

\* The end of a process, and the start of the next.
LEMMA EndingStarts ==
  ASSUME Typed, Restart \/ \E s, face, issues : DiesInProbe(s, face, issues)
  PROVE  \E d : Starts(d)
<1>1. ASSUME NEW s, NEW face, NEW issues, DiesInProbe(s, face, issues)
      PROVE  \E d : Starts(d)
  <2> DEFINE d == AppendIdentityCheck(db, s, Compare(face, verifier[s].enrolment, issues), now)
  <2>1. SameBut(db, d, {})
    BY TypesOfUse, CheckAppended
  <2> QED BY <1>1, <2>1 DEF DiesInProbe, Starts
<1>2. CASE Restart
  <2>1. SameBut(db, db, {})
    BY TypesOfUse DEF SameBut
  <2> QED BY <1>2, <2>1 DEF Restart, Starts
<1> QED BY <1>1, <1>2

\* A process dies in a probe of a session.
Dies ==
  \/ \E c \in Calls : CrashInProbe(c)
  \/ \E s \in Sessions : CrashInPoorProbe(s, {"no_face"})

LEMMA DiesIn ==
  ASSUME Typed, CallsTyped, Dies
  PROVE  \E s \in Sessions : \E face, issues : DiesInProbe(s, face, issues)
<1>1. ASSUME NEW c \in Calls, CrashInProbe(c)
      PROVE  calls[c].session \in Sessions
  BY <1>1, TypesOfUse DEF CrashInProbe, CallsTyped, CallTyped
<1> QED BY <1>1 DEF Dies, CrashInProbe, CrashInPoorProbe

\* Every step is one of a process, or starts the next.
LEMMA StepWorksOrStarts ==
  ASSUME Typed, CallsTyped, OwnRowsAreKnown, [Next]_vars
  PROVE  Works \/ \E d : Starts(d)
<1>1. ASSUME NEW s \in Sessions,
             \/ CreateSession(s) \/ Checkpoint(s)
             \/ \E write \in Writes : PoorProbe(s, {"no_face"}, write)
             \/ \E checkpoint \in BOOLEAN : RuleFlag(s, checkpoint)
      PROVE  Works
  BY <1>1, SessionsWork
<1>2. ASSUME NEW i \in DOMAIN db.violations, RuleResolution(i) PROVE Works
  BY <1>2, ResolutionWorks
<1>3. ASSUME NEW c \in Calls,
             \/ \E s \in Sessions :
                  \/ BeginChunk(c, s)
                  \/ \E captures \in CaptureSets : BeginEnrol(c, s, captures)
                  \/ \E face \in Faces : BeginProbe(c, s, face)
             \/ Transcribed(c) \/ Refused(c)
      PROVE  Works
  <2>1. "none" \in Writes
    BY DEF Writes
  <2> QED BY <1>3, <2>1, RequestsWork
<1>4. ASSUME NEW c \in Calls, NEW write \in Writes,
             \/ FinishEnrol(c, write) \/ FinishProbe(c, write)
             \/ \E answer \in Answers : Classified(c, answer, write)
      PROVE  Works
  BY <1>4, RequestsWork
<1>5. CASE Dies
  BY <1>5, DiesIn, EndingStarts
<1>6. CASE Restart
  BY <1>6, EndingStarts
<1>7. CASE Day \/ StepBack \/ UNCHANGED vars
  BY <1>7, TimeWorks
<1> QED BY <1>1, <1>2, <1>3, <1>4, <1>5, <1>6, <1>7 DEF Next, Dies

---------------------------------------------------------------------------
(* The newest rows.                                                        *)

LEMMA NewerThan ==
  ASSUME NEW p \in Seq(Row), NEW s, NEW i
  PROVE  LET T == {j \in RowsOf(p, s) : RecordedBefore(p, i, j)} IN
         IsFiniteSet(T) /\ Cardinality(T) \in Nat
<1>1. {j \in RowsOf(p, s) : RecordedBefore(p, i, j)} \in SUBSET DOMAIN p
  BY DEF RowsOf
<1> QED BY <1>1, RowsAre, FS_Subset, FS_CardinalityType

\* With a row, the newer ones of its session are among the newest.
LEMMA NewerAreNewest ==
  ASSUME NEW p \in Seq(Row), NEW s, NEW limit \in Nat,
         NEW i \in NewestOf(p, s, limit), NEW j \in RowsOf(p, s), RecordedBefore(p, i, j)
  PROVE  j \in NewestOf(p, s, limit)
<1> DEFINE T(x) == {y \in RowsOf(p, s) : RecordedBefore(p, x, y)}
<1>1. i \in DOMAIN p /\ j \in DOMAIN p
  BY DEF NewestOf, RowsOf
<1>2. \A x \in DOMAIN p : x \in Int /\ p[x].recorded_ms \in Int
  BY RowsAre, RowIs
<1>3. \A y \in DOMAIN p : RecordedBefore(p, j, y) => RecordedBefore(p, i, y)
  BY <1>1, <1>2 DEF RecordedBefore
<1>4. T(j) \in SUBSET T(i)
  BY <1>3 DEF RowsOf
<1>5. Cardinality(T(i)) < limit
  BY DEF NewestOf
<1>6. IsFiniteSet(T(i)) /\ Cardinality(T(i)) \in Nat /\ Cardinality(T(j)) \in Nat
  BY NewerThan
<1> HIDE DEF T
<1>7. Cardinality(T(j)) =< Cardinality(T(i))
  BY <1>4, <1>6, FS_Subset
<1>8. Cardinality(T(j)) < limit
  BY <1>5, <1>6, <1>7
<1> QED BY <1>8 DEF T, NewestOf

\* What is among the newest now was so before a row was added.
LEMMA NewestWereNewest ==
  ASSUME NEW p \in Seq(Row), NEW r \in Row, NEW s, NEW limit \in Nat,
         NEW i \in NewestOf(Append(p, r), s, limit), i \in DOMAIN p
  PROVE  i \in NewestOf(p, s, limit)
<1> DEFINE q == Append(p, r)
           T(x, y) == {j \in RowsOf(x, s) : RecordedBefore(x, i, j)}
           U == T(p, i)
           V == T(q, i)
<1>0. q \in Seq(Row)
  OBVIOUS
<1>1. \A j \in DOMAIN p : j \in DOMAIN q /\ q[j] = p[j]
  OBVIOUS
<1> HIDE DEF q
<1>2. U \in SUBSET V
  BY <1>1 DEF RowsOf, RecordedBefore
<1>3. Cardinality(V) < limit
  BY DEF NewestOf, q
<1>4. IsFiniteSet(V) /\ Cardinality(V) \in Nat /\ Cardinality(U) \in Nat
  BY <1>0, NewerThan
<1>5. i \in RowsOf(p, s)
  BY <1>1 DEF NewestOf, RowsOf, q
<1> HIDE DEF U, V
<1>6. Cardinality(U) < limit
  BY <1>2, <1>3, <1>4, FS_Subset
<1> QED BY <1>5, <1>6 DEF NewestOf, U

\* Rows of one id, as IdsAreUnique has them.
OneFiring(p) ==
  \A i, j \in DOMAIN p :
    p[i].id = p[j].id /\ i < j => p[j].session_id = p[i].session_id /\ p[j].resolved

\* What the replay of the newest rows leaves open.
LEMMA ReplayedOpen ==
  ASSUME NEW d, d.violations \in Seq(Row), OneFiring(d.violations),
         NEW s, NEW limit \in Nat
  PROVE  LET p == d.violations
             q == LoadViolations(d, s, limit)
         IN
         /\ q \in Seq(Row) /\ \A k \in DOMAIN q : q[k].session_id = s
         /\ \A id \in LeftOpen(q, DOMAIN q) :
              /\ \E i \in DOMAIN p : p[i].id = id /\ p[i].session_id = s /\ ~p[i].resolved
              /\ InOrder(p) => NeverResolved(p, id)
         /\ \A i \in NewestOf(p, s, limit) :
              NeverResolved(p, p[i].id) => p[i].id \in LeftOpen(q, DOMAIN q)
<1>0. PICK p \in Seq(Row) : p = d.violations
  OBVIOUS
<1>1. PICK q : q = LoadViolations(d, s, limit)
  OBVIOUS
<1>2. PICK n, e :
        /\ Picks(q, p, e, n)
        /\ \A k, l \in 1 .. n : k < l => RecordedBefore(p, e[k], e[l])
        /\ \A k \in 1 .. n : e[k] \in NewestOf(p, s, limit)
        /\ \A i \in NewestOf(p, s, limit) : \E k \in 1 .. n : e[k] = i
  <2>1. HasNewest(LoadViolations(d, s, limit), d.violations, s, limit)
    BY LoadedAreNewest
  <2>2. HasNewest(q, p, s, limit)
    BY <1>0, <1>1, <2>1
  <2> QED BY <2>2 DEF HasNewest
<1>3. /\ q \in Seq(Row) /\ DOMAIN q = 1 .. n /\ n \in Nat
      /\ \A k \in 1 .. n : q[k] = p[e[k]] /\ e[k] \in DOMAIN p
  BY <1>2, PicksAreRows DEF Picks
<1>4. \A k \in DOMAIN q : q[k].session_id = s
  <2>1. \A i \in NewestOf(p, s, limit) : p[i].session_id = s
    BY DEF NewestOf, RowsOf
  <2> QED BY <1>2, <1>3, <2>1
<1>5. ASSUME NEW id \in LeftOpen(q, DOMAIN q)
      PROVE  /\ \E i \in DOMAIN p : p[i].id = id /\ p[i].session_id = s /\ ~p[i].resolved
             /\ InOrder(p) => NeverResolved(p, id)
  <2>1. PICK k \in 1 .. n :
          /\ q[k].id = id /\ ~q[k].resolved
          /\ \A l \in 1 .. n : l > k /\ q[l].id = id => ~q[l].resolved
    BY <1>3, <1>5 DEF LeftOpen
  <2>2. PICK i \in DOMAIN p : i = e[k] /\ p[i].id = id /\ ~p[i].resolved /\ p[i].session_id = s
    <3>1. q[k] = p[e[k]] /\ e[k] \in DOMAIN p /\ q[k].session_id = s
      BY <1>3, <1>4
    <3>2. PICK i \in DOMAIN p : i = e[k]
      BY <3>1
    <3>3. q[k] = p[i]
      BY <3>1, <3>2
    <3>4. p[i].id = id /\ ~p[i].resolved /\ p[i].session_id = s
      BY <2>1, <3>1, <3>3, Zenon
    <3> QED BY <3>2, <3>4
  <2>3. ASSUME InOrder(p), NEW j \in DOMAIN p, p[j].id = id, p[j].resolved PROVE FALSE
    <3>1. i \in Nat /\ j \in Nat /\ p[i].recorded_ms \in Nat /\ p[j].recorded_ms \in Nat
      BY RowsAre, RowIs
    <3>2. i # j /\ ~(j < i)
      BY <2>2, <2>3, <1>0 DEF OneFiring
    <3>3. i < j
      BY <3>1, <3>2
    <3>4. p[j].session_id = s /\ RecordedBefore(p, i, j) /\ ~RecordedBefore(p, j, i)
      BY <1>0, <2>2, <2>3, <3>1, <3>3 DEF OneFiring, InOrder, RecordedBefore
    <3>5. j \in RowsOf(p, s) /\ i \in NewestOf(p, s, limit)
      BY <1>2, <2>2, <3>4 DEF RowsOf
    <3>6. PICK l \in 1 .. n : e[l] = j
      BY <1>2, <3>4, <3>5, NewerAreNewest
    <3>7. l # k /\ ~(l < k)
      BY <1>2, <2>2, <3>2, <3>4, <3>6
    <3>8. l > k
      BY <3>7
    <3> QED BY <1>3, <2>1, <2>3, <3>6, <3>8
  <2> QED BY <2>2, <2>3 DEF NeverResolved
<1>6. ASSUME NEW i \in NewestOf(p, s, limit), NeverResolved(p, p[i].id)
      PROVE  p[i].id \in LeftOpen(q, DOMAIN q)
  <2>1. PICK k \in 1 .. n : e[k] = i
    BY <1>2
  <2>2. \A l \in 1 .. n : q[l].id = p[i].id => ~q[l].resolved
    BY <1>3, <1>6 DEF NeverResolved
  <2>3. q[k].id = p[i].id
    BY <1>3, <2>1
  <2> QED BY <1>3, <2>2, <2>3 DEF LeftOpen
<1> QED BY <1>0, <1>1, <1>3, <1>4, <1>5, <1>6

LEMMA RestoredBoard ==
  ASSUME NEW d, d.violations \in Seq(Row), OneFiring(d.violations), LoadSessions(d) # {}
  PROVE  LET q(s) == LoadViolations(d, s, RestoredPerSession) IN
         /\ DOMAIN Restored(d) =
              LoadSessions(d) \cup {d.violations[i].session_id : i \in DOMAIN d.violations}
         /\ \A s \in DOMAIN Restored(d) :
              Restored(d)[s] =
                [known |-> s \in LoadSessions(d), open |-> LeftOpen(q(s), DOMAIN q(s))]
<1> DEFINE q(s) == LoadViolations(d, s, RestoredPerSession)
           Replay(s) == FoldLeft(RecordViolation, Ensure(<<>>, s, s \in LoadSessions(d)), q(s))[s]
           shown == LoadSessions(d) \cup
                      {d.violations[i].session_id : i \in DOMAIN d.violations}
<1>1. Restored(d) = [s \in shown |-> Replay(s)]
  BY DEF Restored
<1>2. ASSUME NEW s
      PROVE  Replay(s) = [known |-> s \in LoadSessions(d), open |-> LeftOpen(q(s), DOMAIN q(s))]
  <2>1. RestoredPerSession \in Nat
    BY MonitorsAssumption
  <2>2. q(s) \in Seq(Row) /\ \A k \in DOMAIN q(s) : q(s)[k].session_id = s
    BY <2>1, ReplayedOpen
  <2> DEFINE known == s \in LoadSessions(d)
  <2>3. known \in BOOLEAN
    OBVIOUS
  <2> HIDE DEF known, q
  <2>4. FoldLeft(RecordViolation, Ensure(<<>>, s, known), q(s)) =
          BoardOf(s, known, LeftOpen(q(s), DOMAIN q(s)))
    BY <2>2, <2>3, ReplayLeavesOpen
  <2>5. FoldLeft(RecordViolation, Ensure(<<>>, s, known), q(s))[s] =
          [known |-> known, open |-> LeftOpen(q(s), DOMAIN q(s))]
    BY <2>4 DEF BoardOf
  <2> QED BY <2>5 DEF known
<1> HIDE DEF q, Replay
<1> QED BY <1>1, <1>2 DEF q

---------------------------------------------------------------------------
(* Boards and rows, after a step.                                          *)

LEMMA Ensured ==
  ASSUME NEW b, BoardTyped(b), NEW s \in Sessions, NEW known \in BOOLEAN
  PROVE  LET e == Ensure(b, s, known) IN
         /\ BoardTyped(e) /\ DOMAIN e = DOMAIN b \cup {s}
         /\ \A k : OpenOn(e, k) = OpenOn(b, k)
         /\ \A k \in DOMAIN e :
              e[k].known = IF k = s THEN KnownOn(b, s) \/ known ELSE b[k].known
<1> DEFINE e == Ensure(b, s, known)
           row == IF s \in DOMAIN b THEN [b[s] EXCEPT !.known = @ \/ known]
                  ELSE [known |-> known, open |-> {}]
<1>1. /\ row \in [known : BOOLEAN, open : SUBSET Nat]
      /\ row.open = OpenOn(b, s)
      /\ row.known = (KnownOn(b, s) \/ known)
  <2>1. CASE s \in DOMAIN b
    BY <2>1 DEF BoardTyped, OpenOn, KnownOn
  <2>2. CASE s \notin DOMAIN b
    BY <2>2 DEF OpenOn, KnownOn
  <2> QED BY <2>1, <2>2
<1>2. e = Upsert(b, s, row)
  BY DEF Ensure
<1> HIDE DEF row, e
<1>3. /\ DOMAIN e = DOMAIN b \cup {s} /\ e[s] = row
      /\ \A k \in DOMAIN b : k # s => e[k] = b[k]
  BY <1>2 DEF Upsert
<1>4. BoardTyped(e)
  BY <1>1, <1>3 DEF BoardTyped
<1>5. \A k : OpenOn(e, k) = OpenOn(b, k)
  BY <1>1, <1>3 DEF OpenOn
<1>6. ASSUME NEW k \in DOMAIN e
      PROVE  e[k].known = IF k = s THEN KnownOn(b, s) \/ known ELSE b[k].known
  <2>1. CASE k = s
    BY <1>1, <1>3, <2>1
  <2>2. CASE k # s
    BY <1>3, <2>2
  <2> QED BY <2>1, <2>2
<1> QED BY <1>3, <1>4, <1>5, <1>6 DEF e

LEMMA Recorded ==
  ASSUME NEW b, BoardTyped(b), NEW v \in Row
  PROVE  LET e == RecordViolation(b, v)
             s == v.session_id
         IN
         /\ BoardTyped(e) /\ DOMAIN e = DOMAIN b \cup {s}
         /\ \A k : k # s => OpenOn(e, k) = OpenOn(b, k)
         /\ OpenOn(e, s) = Opened(OpenOn(b, s), v)
         /\ \A k \in DOMAIN e : e[k].known => k \in DOMAIN b /\ b[k].known
<1>0. PICK s \in Sessions : s = v.session_id
  BY RowIs
<1> DEFINE f == Ensure(b, s, FALSE)
           e == RecordViolation(b, v)
<1>1. FALSE \in BOOLEAN
  OBVIOUS
<1>2. /\ BoardTyped(f) /\ DOMAIN f = DOMAIN b \cup {s}
      /\ \A k : OpenOn(f, k) = OpenOn(b, k)
      /\ \A k \in DOMAIN f : f[k].known = IF k = s THEN KnownOn(b, s) \/ FALSE ELSE b[k].known
  BY <1>1, Ensured
<1>3. v.id \in Nat /\ v.resolved \in BOOLEAN
  BY RowIs
<1>4. e = [f EXCEPT ![s].open = Opened(f[s].open, v)]
  BY <1>0, Zenon DEF RecordViolation, Opened
<1> HIDE DEF f, e
<1>5. /\ DOMAIN e = DOMAIN f /\ \A k \in DOMAIN f : k # s => e[k] = f[k]
      /\ s \in DOMAIN f
      /\ e[s] = [f[s] EXCEPT !.open = Opened(f[s].open, v)]
  BY <1>2, <1>4
<1>6. f[s] \in [known : BOOLEAN, open : SUBSET Nat] /\ f[s].open = OpenOn(b, s)
  BY <1>2, <1>5 DEF BoardTyped, OpenOn
<1>7. Opened(f[s].open, v) \in SUBSET Nat
  <2>1. f[s].open \in SUBSET Nat
    BY <1>6
  <2> QED BY <1>3, <2>1 DEF Opened
<1>8. /\ e[s] \in [known : BOOLEAN, open : SUBSET Nat]
      /\ e[s].open = Opened(f[s].open, v) /\ e[s].known = f[s].known
  BY <1>5, <1>6, <1>7
<1>9. BoardTyped(e)
  BY <1>2, <1>5, <1>8 DEF BoardTyped
<1>10. \A k : k # s => OpenOn(e, k) = OpenOn(b, k)
  BY <1>2, <1>5 DEF OpenOn
<1>11. OpenOn(e, s) = Opened(OpenOn(b, s), v)
  BY <1>5, <1>6, <1>8 DEF OpenOn
<1>12. ASSUME NEW k \in DOMAIN e, e[k].known PROVE k \in DOMAIN b /\ b[k].known
  <2>1. e[k].known = f[k].known
    BY <1>5, <1>8
  <2>2. f[k].known = IF k = s THEN KnownOn(b, s) \/ FALSE ELSE b[k].known
    BY <1>2, <1>5
  <2>3. CASE k = s
    BY <1>12, <2>1, <2>2, <2>3 DEF KnownOn
  <2>4. CASE k # s
    BY <1>2, <1>5, <1>12, <2>1, <2>2, <2>4
  <2> QED BY <2>3, <2>4
<1> QED BY <1>0, <1>2, <1>5, <1>9, <1>10, <1>11, <1>12 DEF e

LEMMA RowAppended ==
  ASSUME NEW p \in Seq(Row), NEW r \in Row
  PROVE  LET q == Append(p, r)
             n == Len(p) + 1
         IN
         /\ q \in Seq(Row) /\ Len(q) = n /\ n \in Nat
         /\ DOMAIN q = DOMAIN p \cup {n} /\ q[n] = r
         /\ \A i \in DOMAIN p : q[i] = p[i] /\ i < n /\ i \in Nat
<1> DEFINE n == Len(p) + 1
           q == Append(p, r)
<1>1. Len(p) \in Nat /\ n \in Nat /\ DOMAIN p = 1 .. Len(p)
  BY RowsAre
<1>2. q \in Seq(Row) /\ Len(q) = n /\ DOMAIN q = 1 .. n /\ q[n] = r
  OBVIOUS
<1>3. \A i \in 1 .. Len(p) : q[i] = p[i]
  OBVIOUS
<1>4. 1 .. n = (1 .. Len(p)) \cup {n} /\ \A i \in 1 .. Len(p) : i < n /\ i \in Nat
  BY <1>1
<1> HIDE DEF q, n
<1> QED BY <1>1, <1>2, <1>3, <1>4 DEF q, n

LEMMA InOrderBefore ==
  ASSUME NEW p \in Seq(Row), NEW r \in Row, InOrder(Append(p, r))
  PROVE  InOrder(p)
BY RowAppended DEF InOrder

LEMMA YoungerRows ==
  ASSUME NEW p \in Seq(Row), NEW cutoff
  PROVE  LET q == Younger(p, cutoff) IN
         /\ q \in Seq(Row) /\ Len(q) \in Nat
         /\ \A k \in DOMAIN q : \E i \in DOMAIN p : q[k] = p[i] /\ p[i].recorded_ms >= cutoff
         /\ OneFiring(p) => OneFiring(q)
<1>1. PICK n, e :
        /\ Picks(Younger(p, cutoff), p, e, n)
        /\ \A k, l \in 1 .. n : k < l => e[k] < e[l]
        /\ \A k \in 1 .. n : p[e[k]].recorded_ms >= cutoff
  BY YoungerKeeps
<1>2. PICK q : q = Younger(p, cutoff)
  OBVIOUS
<1>3. /\ q \in Seq(Row) /\ DOMAIN q = 1 .. n /\ n \in Nat /\ Len(q) = n
      /\ \A k \in 1 .. n : q[k] = p[e[k]] /\ e[k] \in DOMAIN p
  BY <1>1, <1>2, PicksAreRows DEF Picks
<1>4. OneFiring(p) => OneFiring(q)
  BY <1>1, <1>3 DEF OneFiring
<1>5. \A k \in DOMAIN q : \E i \in DOMAIN p : q[k] = p[i] /\ p[i].recorded_ms >= cutoff
  BY <1>1, <1>3
<1> QED BY <1>2, <1>3, <1>4, <1>5

---------------------------------------------------------------------------
(* What a start leaves.                                                    *)

\* The rows of a table that are not older than a cutoff.
KeptOf(new, old, Age(_), cutoff) ==
  /\ \A k \in DOMAIN new : k \in DOMAIN old /\ new[k] = old[k] /\ Age(new[k]) >= cutoff
  /\ \A k \in DOMAIN old : Age(old[k]) >= cutoff => k \in DOMAIN new

Updated(row) == row.updated_ms
Created(row) == row.created_ms
Made(row) == row.recorded_ms

LEMMA CutoffIs ==
  ASSUME Typed, NEW days \in {RetentionDays, TemplateDays, TranscriptDays}
  PROVE  /\ Cutoff(days) \in Int
         /\ Cutoff(days) = IF days = 0 THEN -1 ELSE now - days
BY TypesOfUse, MonitorsAssumption DEF Cutoff

LEMMA PurgedIs ==
  ASSUME NEW d, IsStore(d)
  PROVE  LET p == Purged(d) IN
         /\ IsStore(p)
         /\ p.violations = Younger(d.violations, Cutoff(RetentionDays))
         /\ KeptOf(p.sessions, d.sessions, Updated, Cutoff(RetentionDays))
         /\ KeptOf(p.identity_templates, d.identity_templates, Created, Cutoff(TemplateDays))
         /\ KeptOf(p.audio_transcripts, d.audio_transcripts, Made, Cutoff(TranscriptDays))
<1>1. PICK a : a = PurgeOlderThan(d, Cutoff(RetentionDays))
  OBVIOUS
<1>2. /\ IsStore(a)
      /\ a.violations = Younger(d.violations, Cutoff(RetentionDays))
      /\ a.sessions = RestrictTo(d.sessions,
           {s \in DOMAIN d.sessions : d.sessions[s].updated_ms >= Cutoff(RetentionDays)})
      /\ a.identity_templates = d.identity_templates
      /\ a.audio_transcripts = d.audio_transcripts
  BY <1>1 DEF PurgeOlderThan, IsStore
<1>3. PICK b : b = PurgeTemplatesOlderThan(a, Cutoff(TemplateDays))
  OBVIOUS
<1>4. /\ IsStore(b) /\ b.violations = a.violations /\ b.sessions = a.sessions
      /\ b.identity_templates = RestrictTo(a.identity_templates,
           {s \in DOMAIN a.identity_templates :
              a.identity_templates[s].created_ms >= Cutoff(TemplateDays)})
      /\ b.audio_transcripts = a.audio_transcripts
  BY <1>2, <1>3 DEF PurgeTemplatesOlderThan, IsStore
<1>5. PICK c : c = PurgeTranscriptsOlderThan(b, Cutoff(TranscriptDays))
  OBVIOUS
<1>6. /\ IsStore(c) /\ c.violations = b.violations /\ c.sessions = b.sessions
      /\ c.identity_templates = b.identity_templates
      /\ c.audio_transcripts = RestrictTo(b.audio_transcripts,
           {id \in DOMAIN b.audio_transcripts :
              b.audio_transcripts[id].recorded_ms >= Cutoff(TranscriptDays)})
  BY <1>4, <1>5 DEF PurgeTranscriptsOlderThan, IsStore
<1>7. c = Purged(d)
  BY <1>1, <1>3, <1>5 DEF Purged
<1>8. KeptOf(c.sessions, d.sessions, Updated, Cutoff(RetentionDays))
  BY <1>2, <1>4, <1>6 DEF KeptOf, Updated, RestrictTo
<1>9. KeptOf(c.identity_templates, d.identity_templates, Created, Cutoff(TemplateDays))
  BY <1>2, <1>4, <1>6 DEF KeptOf, Created, RestrictTo
<1>10. KeptOf(c.audio_transcripts, d.audio_transcripts, Made, Cutoff(TranscriptDays))
  BY <1>2, <1>4, <1>6 DEF KeptOf, Made, RestrictTo
<1> QED BY <1>2, <1>4, <1>6, <1>7, <1>8, <1>9, <1>10

LEMMA StartLeaves ==
  ASSUME Typed, NEW d, Starts(d)
  PROVE  /\ UNCHANGED <<settings, now, uuids>> /\ failed' = {}
         /\ left' \in Lefts /\ left'.steps_back = left.steps_back
         /\ IsStore(db') /\ registry' = DOMAIN db'.sessions /\ board' = Restored(db')
         /\ db'.violations = Younger(db.violations, Cutoff(RetentionDays))
         /\ KeptOf(db'.sessions, db.sessions, Updated, Cutoff(RetentionDays))
         /\ KeptOf(db'.identity_templates, db.identity_templates, Created, Cutoff(TemplateDays))
         /\ KeptOf(db'.audio_transcripts, db.audio_transcripts, Made, Cutoff(TranscriptDays))
         /\ boot'.flags = Len(db'.violations) /\ boot'.bare = (registry' = {})
         /\ boot'.cutoff = Cutoff(RetentionDays)
         /\ boot'.templates = Cutoff(TemplateDays)
         /\ boot'.transcripts = Cutoff(TranscriptDays)
         /\ calls' = [c \in Calls |-> Idle]
         /\ \E model : embedder' = model /\
              verifier' = IF settings.identity THEN RestoredTemplates(db', model)
                          ELSE [s \in Sessions |-> NewIdentity]
<1>1. /\ UNCHANGED <<settings, now, uuids>> /\ failed' = {}
      /\ db' = Purged(d) /\ registry' = LoadSessions(db') /\ board' = Restored(db')
      /\ calls' = [c \in Calls |-> Idle]
      /\ \E model : embedder' = model /\
           verifier' = IF settings.identity THEN RestoredTemplates(db', model)
                       ELSE [s \in Sessions |-> NewIdentity]
  BY DEF Starts, Start, Restorable
<1>2. /\ boot'.flags = Len(db'.violations) /\ boot'.bare = (registry' = {})
      /\ boot'.cutoff = Cutoff(RetentionDays)
      /\ boot'.templates = Cutoff(TemplateDays)
      /\ boot'.transcripts = Cutoff(TranscriptDays)
  BY DEF Starts, Start, Restorable
<1>3. left' \in Lefts /\ left'.steps_back = left.steps_back
  BY LeftIs DEF Starts
<1>4. IsStore(d) /\ d.violations = db.violations /\ d.sessions = db.sessions
      /\ d.identity_templates = db.identity_templates
      /\ d.audio_transcripts = db.audio_transcripts
  BY DEF Starts, SameBut
<1>5. /\ IsStore(db')
      /\ db'.violations = Younger(d.violations, Cutoff(RetentionDays))
      /\ KeptOf(db'.sessions, d.sessions, Updated, Cutoff(RetentionDays))
      /\ KeptOf(db'.identity_templates, d.identity_templates, Created, Cutoff(TemplateDays))
      /\ KeptOf(db'.audio_transcripts, d.audio_transcripts, Made, Cutoff(TranscriptDays))
  BY <1>1, <1>4, PurgedIs
<1> QED BY <1>1, <1>2, <1>3, <1>4, <1>5 DEF LoadSessions

---------------------------------------------------------------------------
(* Types.                                                                  *)

\* The store and the board, of a process at work.
LEMMA TablesStayTyped ==
  ASSUME Typed, Works
  PROVE  /\ StoreTyped(db)' /\ BoardTyped(board') /\ registry' \subseteq Sessions
         /\ uuids' \in Nat
<1>0. /\ now \in Nat /\ uuids \in Nat /\ registry \subseteq Sessions
      /\ StoreTyped(db) /\ BoardTyped(board)
  BY DEF Typed
<1>1. /\ uuids' \in Nat /\ uuids' >= uuids
      /\ BoardTyped(board') /\ db'.violations \in Seq(Row) /\ registry' \subseteq Sessions
  <2>1. CASE Quiet
    BY <1>0, <2>1 DEF Quiet, StoreTyped
  <2>2. ASSUME NEW s \in Sessions, Admits(s)
        PROVE  /\ uuids' = uuids /\ BoardTyped(board') /\ db'.violations \in Seq(Row)
               /\ registry' \subseteq Sessions
    BY <1>0, <2>2, Ensured DEF Admits, StoreTyped
  <2>3. ASSUME NEW v \in Row, Fires(v)
        PROVE  /\ uuids' = uuids + 1 /\ BoardTyped(board') /\ db'.violations \in Seq(Row)
               /\ registry' \subseteq Sessions
    <3>1. BoardTyped(RecordViolation(board, v))
      BY <1>0, Recorded
    <3>2. db.violations \in Seq(Row) /\ Append(db.violations, v) \in Seq(Row)
      BY <1>0 DEF StoreTyped
    <3> QED BY <1>0, <2>3, <3>1, <3>2 DEF Fires
  <2>4. ASSUME NEW i, NEW v \in Row, Resolves(i, v)
        PROVE  /\ uuids' = uuids /\ BoardTyped(board') /\ db'.violations \in Seq(Row)
               /\ registry' \subseteq Sessions
    BY <1>0, <2>4, Recorded, RowAppended DEF Resolves, StoreTyped
  <2> QED BY <1>0, <2>1, <2>2, <2>3, <2>4 DEF Works, RowsStep
<1>2. IsStore(db')
  BY DEF Works, TablesStep
<1>3. /\ DOMAIN db'.sessions \subseteq Sessions
      /\ \A s \in DOMAIN db'.sessions : db'.sessions[s].updated_ms \in Nat
  <2>1. CASE db'.sessions = db.sessions
    BY <1>0, <2>1 DEF StoreTyped
  <2>2. ASSUME NEW t \in Sessions, db'.sessions = Upsert(db.sessions, t, [updated_ms |-> now])
        PROVE  <1>3
    BY <1>0, <2>2 DEF StoreTyped, Upsert
  <2> QED BY <2>1, <2>2 DEF Works, TablesStep
<1>4. \A s \in DOMAIN db'.identity_templates : db'.identity_templates[s].created_ms \in Nat
  <2>1. CASE db'.identity_templates = db.identity_templates
    BY <1>0, <2>1 DEF StoreTyped
  <2>2. ASSUME NEW t \in Sessions, NEW e, NEW r,
               db'.identity_templates =
                 Upsert(db.identity_templates, t,
                        [embedder |-> e, reference |-> r, created_ms |-> now])
        PROVE  <1>4
    BY <1>0, <2>2 DEF StoreTyped, Upsert
  <2> QED BY <2>1, <2>2 DEF Works, TablesStep
<1>5. \A id \in DOMAIN db'.audio_transcripts :
        id \in Nat /\ id < uuids' /\ db'.audio_transcripts[id].recorded_ms \in Nat
  <2>1. CASE db'.audio_transcripts = db.audio_transcripts
    BY <1>0, <1>1, <2>1 DEF StoreTyped
  <2>2. ASSUME NEW t \in Sessions, uuids' = uuids + 1,
               db'.audio_transcripts =
                 Upsert(db.audio_transcripts, uuids, [session_id |-> t, recorded_ms |-> now])
        PROVE  <1>5
    BY <1>0, <2>2 DEF StoreTyped, Upsert
  <2> QED BY <2>1, <2>2 DEF Works, TablesStep
<1> QED BY <1>1, <1>2, <1>3, <1>4, <1>5 DEF StoreTyped

LEMMA StartIsTyped ==
  ASSUME Typed, IdsAreUnique, NEW d, Starts(d)
  PROVE  /\ StoreTyped(db)' /\ BoardTyped(board') /\ registry' \subseteq Sessions
         /\ OneFiring(db'.violations)
<1>0. StoreTyped(db) /\ uuids' = uuids
  BY StartLeaves DEF Typed
<1>1. OneFiring(db.violations)
  BY DEF IdsAreUnique, OneFiring
<1>2. db'.violations \in Seq(Row) /\ OneFiring(db'.violations)
  <2>1. db'.violations = Younger(db.violations, Cutoff(RetentionDays))
    BY StartLeaves
  <2> QED BY <1>0, <1>1, <2>1, YoungerRows DEF StoreTyped
<1>3. /\ IsStore(db') /\ registry' = DOMAIN db'.sessions /\ board' = Restored(db')
      /\ KeptOf(db'.sessions, db.sessions, Updated, Cutoff(RetentionDays))
      /\ KeptOf(db'.identity_templates, db.identity_templates, Created, Cutoff(TemplateDays))
      /\ KeptOf(db'.audio_transcripts, db.audio_transcripts, Made, Cutoff(TranscriptDays))
  BY StartLeaves
<1>4. StoreTyped(db)'
  BY <1>0, <1>2, <1>3 DEF StoreTyped, KeptOf
<1>5. BoardTyped(board')
  <2>1. CASE LoadSessions(db') = {}
    BY <1>3, <2>1 DEF Restored, BoardTyped
  <2>2. CASE LoadSessions(db') # {}
    <3> DEFINE q(s) == LoadViolations(db', s, RestoredPerSession)
    <3>1. /\ DOMAIN board' = LoadSessions(db') \cup
                {db'.violations[i].session_id : i \in DOMAIN db'.violations}
          /\ \A s \in DOMAIN board' :
               board'[s] =
                 [known |-> s \in LoadSessions(db'), open |-> LeftOpen(q(s), DOMAIN q(s))]
      BY <1>2, <1>3, <2>2, RestoredBoard
    <3>2. \A i \in DOMAIN db'.violations : db'.violations[i].session_id \in Sessions
      BY <1>2, RowsAre, RowIs
    <3>3. DOMAIN board' \subseteq Sessions
      BY <1>4, <3>1, <3>2 DEF StoreTyped, LoadSessions
    <3>4. ASSUME NEW s PROVE LeftOpen(q(s), DOMAIN q(s)) \in SUBSET Nat
      <4>1. q(s) \in Seq(Row)
        BY <1>2, MonitorsAssumption, ReplayedOpen
      <4>2. \A i \in DOMAIN q(s) : q(s)[i].id \in Nat
        BY <4>1, RowsAre, RowIs
      <4> HIDE DEF q
      <4> QED BY <4>2 DEF LeftOpen
    <3>5. ASSUME NEW s \in DOMAIN board'
          PROVE  board'[s] \in [known : BOOLEAN, open : SUBSET Nat]
      <4> DEFINE known == s \in LoadSessions(db')
                 open == LeftOpen(q(s), DOMAIN q(s))
      <4>1. known \in BOOLEAN /\ open \in SUBSET Nat
        BY <3>4
      <4>2. board'[s] = [known |-> known, open |-> open]
        BY <3>1
      <4> HIDE DEF known, open
      <4> QED BY <4>1, <4>2
    <3> QED BY <3>3, <3>5 DEF BoardTyped
  <2> QED BY <2>1, <2>2
<1> QED BY <1>2, <1>3, <1>4, <1>5 DEF StoreTyped

LEMMA IdentityIs ==
  ASSUME NEW v, IsIdentity(v)
  PROVE  /\ \A r : IsIdentity(Enrol(v, r)) /\ Enrol(v, r).enrolment = r
         /\ \A o : IsIdentity(Probe(v, o)) /\ Probe(v, o).enrolment = v.enrolment
<1>1. ASSUME NEW r PROVE IsIdentity(Enrol(v, r)) /\ Enrol(v, r).enrolment = r
  <2>1. PICK a, b, c, e :
          v = [enrolment |-> a, recent |-> b, unassessable_run |-> c, status |-> e]
    BY DEF IsIdentity
  <2>2. PICK w : w = [v EXCEPT !.enrolment = r]
    OBVIOUS
  <2>3. w = [enrolment |-> r, recent |-> b, unassessable_run |-> c, status |-> e]
    BY <2>1, <2>2
  <2>4. [w EXCEPT !.status = "unverified"] =
          [enrolment |-> r, recent |-> b, unassessable_run |-> c, status |-> "unverified"]
    BY <2>3
  <2>5. Enrol(v, r) = [w EXCEPT !.status = "unverified"]
    BY <2>2 DEF Enrol
  <2> QED BY <2>4, <2>5 DEF IsIdentity
<1>2. ASSUME NEW o PROVE IsIdentity(Probe(v, o)) /\ Probe(v, o).enrolment = v.enrolment
  <2> DEFINE recent == Pushed(v.recent, o, RecentOutcomes)
             run == IF o = "not_assessable" THEN v.unassessable_run + 1 ELSE 0
             seen == [v EXCEPT !.recent = recent, !.unassessable_run = run]
             status == Evaluate(seen)
  <2>1. Probe(v, o) = [seen EXCEPT !.status = status]
    BY DEF Probe
  <2> HIDE DEF recent, run, status
  <2>2. Probe(v, o) =
          [[v EXCEPT !.recent = recent, !.unassessable_run = run] EXCEPT !.status = status]
    BY <2>1
  <2> HIDE DEF seen
  <2> QED BY <2>2 DEF IsIdentity
<1> QED BY <1>1, <1>2

---------------------------------------------------------------------------
(* Requests, and the verifier's reference.                                 *)

LEMMA WorkKeeps ==
  ASSUME Typed, Works
  PROVE  /\ UNCHANGED <<settings, boot>> /\ registry \subseteq registry'
         /\ \A id \in DOMAIN db.audio_transcripts :
              /\ id \in DOMAIN db'.audio_transcripts
              /\ db'.audio_transcripts[id] = db.audio_transcripts[id]
<1>1. UNCHANGED <<settings, boot>> /\ registry \subseteq registry'
  BY DEF Works, TablesStep
<1>2. CASE db'.audio_transcripts = db.audio_transcripts
  BY <1>1, <1>2
<1>3. ASSUME NEW row, db'.audio_transcripts = Upsert(db.audio_transcripts, uuids, row)
      PROVE  \A id \in DOMAIN db.audio_transcripts :
               /\ id \in DOMAIN db'.audio_transcripts
               /\ db'.audio_transcripts[id] = db.audio_transcripts[id]
  <2>1. \A id \in DOMAIN db.audio_transcripts : id # uuids
    BY DEF Typed, StoreTyped
  <2> QED BY <1>3, <2>1 DEF Upsert
<1> QED BY <1>1, <1>2, <1>3 DEF Works, TablesStep

\* What a step does to the requests.
LEMMA CallsStep ==
  ASSUME Typed, CallsTyped, [Next]_vars
  PROVE  \/ calls' = calls
         \/ \E c \in Calls : \E call : calls' = [calls EXCEPT ![c] = call]
              /\ CallTyped(call, registry', settings', db'.audio_transcripts)
         \/ calls' = [c \in Calls |-> Idle]
<1>1. CallTyped(Idle, registry', settings', db'.audio_transcripts)
  BY DEF CallTyped, Idle
<1>2. ASSUME NEW s \in Sessions,
             \/ CreateSession(s) \/ Checkpoint(s)
             \/ \E write \in Writes : PoorProbe(s, {"no_face"}, write)
             \/ \E checkpoint \in BOOLEAN : RuleFlag(s, checkpoint)
      PROVE  calls' = calls
  BY <1>2 DEF CreateSession, Checkpoint, PoorProbe, RuleFlag, memory
<1>3. ASSUME NEW i, RuleResolution(i) PROVE calls' = calls
  BY <1>3 DEF RuleResolution
<1>4. ASSUME NEW c \in Calls, NEW s \in Sessions,
             \/ BeginChunk(c, s)
             \/ \E captures \in CaptureSets : BeginEnrol(c, s, captures)
             \/ \E face \in Faces : BeginProbe(c, s, face)
      PROVE  \E call : calls' = [calls EXCEPT ![c] = call]
               /\ CallTyped(call, registry', settings', db'.audio_transcripts)
  <2>1. ASSUME NEW call, Waits(c, call), s \in registry, call.session = s,
               call.kind \in {"enrol", "probe", "transcribing"},
               call.kind # "transcribing" => settings.identity
        PROVE  calls' = [calls EXCEPT ![c] = call]
                 /\ CallTyped(call, registry', settings', db'.audio_transcripts)
    BY <2>1 DEF Waits, CallTyped
  <2>2. CASE BeginChunk(c, s)
    BY <2>1, <2>2 DEF BeginChunk
  <2>3. ASSUME NEW captures \in CaptureSets, BeginEnrol(c, s, captures)
        PROVE  \E call : calls' = [calls EXCEPT ![c] = call]
                 /\ CallTyped(call, registry', settings', db'.audio_transcripts)
    BY <2>1, <2>3 DEF BeginEnrol
  <2>4. ASSUME NEW face \in Faces, BeginProbe(c, s, face)
        PROVE  \E call : calls' = [calls EXCEPT ![c] = call]
                 /\ CallTyped(call, registry', settings', db'.audio_transcripts)
    BY <2>1, <2>4 DEF BeginProbe
  <2> QED BY <1>4, <2>2, <2>3, <2>4
<1>5. ASSUME NEW c \in Calls, Transcribed(c)
      PROVE  \E call : calls' = [calls EXCEPT ![c] = call]
               /\ CallTyped(call, registry', settings', db'.audio_transcripts)
  <2> DEFINE s == calls[c].session
             call == [kind |-> "classifying", session |-> s, transcript |-> uuids, now |-> now]
  <2>1. s \in registry /\ now \in Nat /\ IsStore(db)
    BY <1>5, TypesOfUse DEF Transcribed, CallsTyped, CallTyped
  <2>2. CASE settings.audio = "classify"
    <3>1. db'.audio_transcripts =
            Upsert(db.audio_transcripts, uuids, [session_id |-> s, recorded_ms |-> now])
      BY <1>5, <2>1, TranscriptSaved DEF Transcribed
    <3>2. /\ uuids \in DOMAIN db'.audio_transcripts
          /\ db'.audio_transcripts[uuids] = [session_id |-> s, recorded_ms |-> now]
      BY <3>1 DEF Upsert
    <3>3. UNCHANGED <<settings, registry, now>> /\ calls' = [calls EXCEPT ![c] = call]
      BY <1>5, <2>2 DEF Transcribed
    <3>4. /\ call.kind = "classifying" /\ call.session = s /\ call.transcript = uuids
          /\ call.now = now
      OBVIOUS
    <3> HIDE DEF call, s
    <3>5. CallTyped(call, registry', settings', db'.audio_transcripts)
      BY <2>1, <2>2, <3>2, <3>3, <3>4 DEF CallTyped
    <3> QED BY <3>3, <3>5
  <2>3. CASE settings.audio # "classify"
    BY <1>1, <1>5, <2>3 DEF Transcribed
  <2> QED BY <2>2, <2>3
<1>6. ASSUME NEW c \in Calls, NEW write,
             \/ Refused(c) \/ FinishEnrol(c, write) \/ FinishProbe(c, write)
             \/ \E answer \in Answers : Classified(c, answer, write)
      PROVE  calls' = [calls EXCEPT ![c] = Idle]
  BY <1>6 DEF Refused, FinishEnrol, FinishProbe, Classified, Ends
<1>7. CASE Dies
  BY <1>7 DEF Dies, CrashInProbe, CrashInPoorProbe, DiesInProbe, Start
<1>8. CASE Restart
  BY <1>8 DEF Restart, Start
<1>9. CASE Day \/ StepBack \/ UNCHANGED vars
  BY <1>9 DEF Day, StepBack, vars, memory
<1>10. \A c \in Calls : Refused(c) => calls' = [calls EXCEPT ![c] = Idle]
  BY DEF Refused, Ends
<1> QED BY <1>1, <1>2, <1>3, <1>4, <1>5, <1>6, <1>7, <1>8, <1>9, <1>10 DEF Next, Dies

LEMMA CallsStayTyped ==
  ASSUME Typed, CallsTyped, OwnRowsAreKnown, [Next]_vars
  PROVE  CallsTyped'
<1>1. ASSUME NEW call, CallTyped(call, registry, settings, db.audio_transcripts), Works
      PROVE  CallTyped(call, registry', settings', db'.audio_transcripts)
  BY <1>1, WorkKeeps DEF CallTyped
<1>2. CASE calls' = [c \in Calls |-> Idle]
  BY <1>2 DEF CallsTyped, CallTyped, Idle
<1>3. CASE calls' # [c \in Calls |-> Idle]
  <2>1. Works
    BY <1>3, StepWorksOrStarts, StartLeaves
  <2>2. CASE calls' = calls
    BY <1>1, <2>1, <2>2 DEF CallsTyped
  <2>3. ASSUME NEW c \in Calls, NEW call, calls' = [calls EXCEPT ![c] = call],
                 CallTyped(call, registry', settings', db'.audio_transcripts)
        PROVE  CallsTyped'
    <3>1. DOMAIN calls' = Calls
      BY <2>3 DEF CallsTyped
    <3>2. ASSUME NEW x \in Calls
          PROVE  CallTyped(calls'[x], registry', settings', db'.audio_transcripts)
      <4>1. CASE x = c
        BY <2>3, <4>1 DEF CallsTyped
      <4>2. CASE x # c
        <5>1. calls'[x] = calls[x]
                /\ CallTyped(calls[x], registry, settings, db.audio_transcripts)
          BY <2>3, <4>2 DEF CallsTyped
        <5> QED BY <1>1, <2>1, <5>1
      <4> QED BY <4>1, <4>2
    <3> QED BY <3>1, <3>2 DEF CallsTyped
  <2> QED BY <1>3, <2>2, <2>3, CallsStep
<1> QED BY <1>2, <1>3

\* What a step at work does to the verifier and to the templates.
VerifierStep ==
  /\ embedder' = embedder
  /\ \/ verifier' = verifier /\ db'.identity_templates = db.identity_templates
     \/ \E s \in Sessions : \E o :
          /\ verifier' = [verifier EXCEPT ![s] = Probe(@, o)]
          /\ db'.identity_templates = db.identity_templates
     \/ \E s \in Sessions : \E r :
          /\ settings.identity
          /\ verifier' = [verifier EXCEPT ![s] = Enrol(@, r)]
          /\ \/ db'.identity_templates =
                  Upsert(db.identity_templates, s,
                         [embedder |-> embedder, reference |-> r, created_ms |-> now])
             \/ db'.identity_templates = db.identity_templates /\ s \in failed'

LEMMA JudgeProbes ==
  ASSUME Typed, NEW s \in registry, NEW outcome, NEW write, Judge(s, outcome, write)
  PROVE  VerifierStep
<1>0. IsStore(db) /\ s \in Sessions
  BY TypesOfUse
<1>1. PICK checked : checked = AppendIdentityCheck(db, s, outcome, now)
  OBVIOUS
<1>2. IsStore(checked) /\ checked.identity_templates = db.identity_templates
  BY <1>0, <1>1, CheckAppended DEF SameBut
<1>3. \A v : /\ IsStore(AppendViolation(checked, v, now))
             /\ AppendViolation(checked, v, now).identity_templates = db.identity_templates
  BY <1>2, ViolationAppended DEF SameBut
<1>4. \/ db' = db \/ db' = checked \/ \E v : db' = AppendViolation(checked, v, now)
  BY <1>1 DEF Judge
<1>5. db'.identity_templates = db.identity_templates
  BY <1>2, <1>3, <1>4
<1>6. verifier' = [verifier EXCEPT ![s] = Probe(@, outcome)] /\ embedder' = embedder
  BY DEF Judge
<1> QED BY <1>0, <1>5, <1>6 DEF VerifierStep

LEMMA RequestsProbe ==
  ASSUME Typed, CallsTyped, NEW c \in Calls, NEW write,
         \/ \E s \in Sessions :
              \/ BeginChunk(c, s)
              \/ \E captures \in CaptureSets : BeginEnrol(c, s, captures)
              \/ \E face \in Faces : BeginProbe(c, s, face)
         \/ Transcribed(c) \/ Refused(c)
         \/ FinishEnrol(c, write) \/ FinishProbe(c, write)
         \/ \E answer \in Answers : Classified(c, answer, write)
  PROVE  VerifierStep /\ left' \in Lefts
<1>0. /\ now \in Nat /\ IsStore(db) /\ registry \subseteq Sessions /\ left \in Lefts
      /\ calls[c].kind \in {"enrol", "probe", "transcribing", "classifying"} =>
           calls[c].session \in registry
      /\ calls[c].kind \in {"enrol", "probe"} => settings.identity
  BY TypesOfUse DEF CallsTyped, CallTyped, Typed, Lefts
<1>1. ASSUME NEW s \in Sessions,
             \/ BeginChunk(c, s)
             \/ \E captures \in CaptureSets : BeginEnrol(c, s, captures)
             \/ \E face \in Faces : BeginProbe(c, s, face)
      PROVE  VerifierStep /\ left' \in Lefts
  <2>1. ASSUME NEW call, Waits(c, call) PROVE VerifierStep /\ left' \in Lefts
    BY <2>1, LeftIs DEF Waits, VerifierStep
  <2> QED BY <1>1, <2>1 DEF BeginChunk, BeginEnrol, BeginProbe
<1>2. CASE Transcribed(c)
  <2>1. db'.identity_templates = db.identity_templates
    <3>1. SameBut(db, db', {"transcripts"})
      BY <1>0, <1>2, TranscriptSaved DEF Transcribed
    <3> QED BY <3>1 DEF SameBut
  <2> QED BY <1>0, <1>2, <2>1 DEF Transcribed, VerifierStep
<1>3. CASE Refused(c)
  BY <1>0, <1>3 DEF Refused, VerifierStep
<1>4. CASE FinishEnrol(c, write)
  <2> DEFINE s == calls[c].session
             reference == BuildEnrolment(calls[c].captures)
  <2>1. s \in Sessions /\ settings.identity
    BY <1>0, <1>4 DEF FinishEnrol
  <2>2. CASE Consistent(calls[c].captures)
    <3>1. SaveTemplate(db, s, embedder, reference, now).identity_templates =
            Upsert(db.identity_templates, s,
                   [embedder |-> embedder, reference |-> reference, created_ms |-> now])
      BY <1>0, TemplateSaved
    <3>2. /\ verifier' = [verifier EXCEPT ![s] = Enrol(@, reference)] /\ embedder' = embedder
          /\ db' = IF write = "none" THEN SaveTemplate(db, s, embedder, reference, now) ELSE db
          /\ Raises(s, write)
      BY <1>4, <2>2 DEF FinishEnrol
    <3>3. left' \in Lefts /\ (write # "none" => s \in failed')
      BY <3>2, LeftIs
    <3> HIDE DEF s, reference
    <3> QED BY <2>1, <3>1, <3>2, <3>3 DEF VerifierStep
  <2>3. CASE ~Consistent(calls[c].captures)
    BY <1>0, <1>4, <2>3 DEF FinishEnrol, VerifierStep
  <2> QED BY <2>2, <2>3
<1>5. CASE FinishProbe(c, write)
  <2> DEFINE s == calls[c].session
  <2>1. s \in registry
    BY <1>0, <1>5 DEF FinishProbe
  <2>2. CASE verifier[s].enrolment = None
    BY <1>0, <1>5, <2>2 DEF FinishProbe, VerifierStep
  <2>3. CASE verifier[s].enrolment # None
    <3>1. /\ Judge(s, Compare(calls[c].face, verifier[s].enrolment, {}), write)
          /\ Raises(s, write)
      BY <1>5, <2>3 DEF FinishProbe
    <3> HIDE DEF s
    <3> QED BY <2>1, <3>1, JudgeProbes, LeftIs
  <2> QED BY <2>2, <2>3
<1>6. ASSUME NEW answer \in Answers, Classified(c, answer, write)
      PROVE  VerifierStep /\ left' \in Lefts
  <2> DEFINE s == calls[c].session
  <2>1. PICK label, checked :
               checked = AppendAudioCheck(db, s, calls[c].transcript, label, calls[c].now)
                              /\ label = Classify(answer)
    OBVIOUS
  <2>2. IsStore(checked) /\ checked.identity_templates = db.identity_templates
    BY <1>0, <2>1, CheckAppended DEF SameBut
  <2>3. \A v : /\ IsStore(AppendViolation(checked, v, now))
               /\ AppendViolation(checked, v, now).identity_templates = db.identity_templates
    BY <2>2, ViolationAppended DEF SameBut
  <2>4. /\ \/ db' = db \/ db' = checked \/ \E v : db' = AppendViolation(checked, v, now)
        /\ UNCHANGED <<verifier, embedder>> /\ Raises(s, write)
    BY <1>6, <2>1 DEF Classified
  <2>5. db'.identity_templates = db.identity_templates
    BY <2>2, <2>3, <2>4
  <2> HIDE DEF s
  <2> QED BY <2>4, <2>5, LeftIs DEF VerifierStep
<1> QED BY <1>1, <1>2, <1>3, <1>4, <1>5, <1>6

LEMMA VerifierStepIs ==
  ASSUME Typed, CallsTyped, OwnRowsAreKnown, [Next]_vars
  PROVE  left' \in Lefts /\ (VerifierStep \/ \E d : Starts(d))
<1>0. now \in Nat /\ IsStore(db) /\ registry \subseteq Sessions /\ left \in Lefts
  BY TypesOfUse DEF Typed, Lefts
<1>1. \A v, s : /\ IsStore(AppendViolation(db, v, now))
                /\ AppendViolation(db, v, now).identity_templates = db.identity_templates
                /\ SaveSession(db, s, now).identity_templates = db.identity_templates
                /\ SaveSession(AppendViolation(db, v, now), s, now).identity_templates =
                     db.identity_templates
  <2>1. ASSUME NEW v
        PROVE  /\ IsStore(AppendViolation(db, v, now))
               /\ AppendViolation(db, v, now).identity_templates = db.identity_templates
    BY <1>0, ViolationAppended DEF SameBut
  <2>2. ASSUME NEW d, IsStore(d), NEW s
        PROVE  SaveSession(d, s, now).identity_templates = d.identity_templates
    <3>1. SameBut(d, SaveSession(d, s, now), {"sessions"})
      BY <2>2, SessionSaved
    <3> QED BY <3>1 DEF SameBut
  <2>3. ASSUME NEW v, NEW s
        PROVE  SaveSession(AppendViolation(db, v, now), s, now).identity_templates =
                 db.identity_templates
    <3>1. PICK d : d = AppendViolation(db, v, now)
      OBVIOUS
    <3> QED BY <2>1, <2>2, <3>1
  <2> QED BY <1>0, <2>1, <2>2, <2>3
<1>2. ASSUME NEW s \in Sessions, CreateSession(s) \/ Checkpoint(s)
      PROVE  left' \in Lefts /\ VerifierStep
  BY <1>0, <1>1, <1>2, LeftIs DEF CreateSession, Checkpoint, memory, VerifierStep
<1>3. ASSUME NEW s \in Sessions, NEW write \in Writes, PoorProbe(s, {"no_face"}, write)
      PROVE  left' \in Lefts /\ VerifierStep
  <2>1. left' \in Lefts
    <3>1. CASE write = "none"
      BY <1>3, <3>1, LeftIs DEF PoorProbe
    <3>2. CASE write # "none"
      BY <1>3, <3>2, LeftIs DEF PoorProbe
    <3> QED BY <3>1, <3>2
  <2>2. /\ s \in registry
        /\ Judge(s, Compare(None, verifier[s].enrolment, {"no_face"}), write)
    BY <1>3 DEF PoorProbe
  <2> QED BY <2>1, <2>2, JudgeProbes
<1>4. ASSUME NEW s \in Sessions, NEW checkpoint \in BOOLEAN, RuleFlag(s, checkpoint)
      PROVE  left' \in Lefts /\ VerifierStep
  BY <1>1, <1>4, LeftIs DEF RuleFlag, VerifierStep
<1>5. ASSUME NEW i, RuleResolution(i) PROVE left' \in Lefts /\ VerifierStep
  BY <1>1, <1>5, LeftIs DEF RuleResolution, VerifierStep
<1>6. ASSUME NEW c \in Calls, NEW s \in Sessions,
             \/ BeginChunk(c, s)
             \/ \E captures \in CaptureSets : BeginEnrol(c, s, captures)
             \/ \E face \in Faces : BeginProbe(c, s, face)
      PROVE  left' \in Lefts /\ VerifierStep
  BY <1>6, RequestsProbe
<1>7. ASSUME NEW c \in Calls, NEW write,
             \/ Transcribed(c) \/ Refused(c)
             \/ FinishEnrol(c, write) \/ FinishProbe(c, write)
             \/ \E answer \in Answers : Classified(c, answer, write)
      PROVE  left' \in Lefts /\ VerifierStep
  BY <1>7, RequestsProbe
<1>8. ASSUME NEW d, Starts(d) PROVE left' \in Lefts
  BY <1>8, StartLeaves
<1>9. CASE Day \/ StepBack \/ UNCHANGED vars
  BY <1>0, <1>9 DEF Day, StepBack, vars, memory, VerifierStep, Lefts
<1>10. CASE Restart \/ Dies
  BY <1>8, <1>10, DiesIn, EndingStarts
<1> QED BY <1>2, <1>3, <1>4, <1>5, <1>6, <1>7, <1>8, <1>9, <1>10 DEF Next, Dies

\* What a start puts in the verifier.
LEMMA RestoredVerifier ==
  ASSUME Typed, NEW d, Starts(d), NEW s \in Sessions
  PROVE  /\ VerifierTyped(verifier')
         /\ verifier'[s].enrolment =
              IF /\ settings.identity /\ s \in DOMAIN db'.identity_templates
                 /\ db'.identity_templates[s].embedder = embedder'
              THEN db'.identity_templates[s].reference ELSE None
<1>1. IsIdentity(NewIdentity) /\ NewIdentity.enrolment = None
  BY DEF IsIdentity, NewIdentity
<1>2. \A r : IsIdentity(Enrol(NewIdentity, r)) /\ Enrol(NewIdentity, r).enrolment = r
  BY <1>1, IdentityIs
<1>3. verifier' = IF settings.identity THEN RestoredTemplates(db', embedder')
                  ELSE [x \in Sessions |-> NewIdentity]
  BY StartLeaves
<1>4. CASE settings.identity
  BY <1>1, <1>2, <1>3, <1>4 DEF RestoredTemplates, LoadTemplates, VerifierTyped
<1>5. CASE ~settings.identity
  BY <1>1, <1>3, <1>5 DEF VerifierTyped
<1> QED BY <1>4, <1>5

LEMMA StaysTyped ==
  ASSUME Typed, CallsTyped, IdsAreUnique, OwnRowsAreKnown, [Next]_vars
  PROVE  Typed'
<1>1. left' \in Lefts /\ (VerifierStep \/ \E d : Starts(d)) /\ (Works \/ \E d : Starts(d))
  BY VerifierStepIs, StepWorksOrStarts
<1>2. ASSUME NEW d, Starts(d) PROVE Typed'
  <2>1. StoreTyped(db)' /\ BoardTyped(board') /\ registry' \subseteq Sessions
    BY <1>2, StartIsTyped
  <2>2. UNCHANGED <<settings, now, uuids>>
    BY <1>2, StartLeaves
  <2>3. VerifierTyped(verifier')
    <3>1. CASE Sessions = {}
      BY <1>2, <3>1, StartLeaves DEF RestoredTemplates, VerifierTyped
    <3>2. CASE Sessions # {}
      BY <1>2, <3>2, RestoredVerifier
    <3> QED BY <3>1, <3>2
  <2>4. boot'.flags \in Nat
    <3>1. db'.violations \in Seq(Row) /\ boot'.flags = Len(db'.violations)
      BY <1>2, <2>1, StartLeaves DEF StoreTyped
    <3> QED BY <3>1, RowsAre
  <2>5. {boot'.cutoff, boot'.templates, boot'.transcripts} \subseteq Int
    <3>1. /\ boot'.cutoff = Cutoff(RetentionDays) /\ boot'.templates = Cutoff(TemplateDays)
          /\ boot'.transcripts = Cutoff(TranscriptDays)
      BY <1>2, StartLeaves
    <3>2. /\ Cutoff(RetentionDays) \in Int /\ Cutoff(TemplateDays) \in Int
          /\ Cutoff(TranscriptDays) \in Int
      BY CutoffIs
    <3> QED BY <3>1, <3>2
  <2> QED BY <1>1, <2>1, <2>2, <2>3, <2>4, <2>5 DEF Typed, Lefts
<1>3. CASE Works /\ VerifierStep
  <2>1. StoreTyped(db)' /\ BoardTyped(board') /\ registry' \subseteq Sessions /\ uuids' \in Nat
    BY <1>3, TablesStayTyped
  <2>2. UNCHANGED <<settings, boot>>
    BY <1>3 DEF Works
  <2>3. now' \in Nat
    BY <1>3, TypesOfUse DEF Works, ClockStep
  <2>4. VerifierTyped(verifier')
    <3>0. VerifierTyped(verifier)
      BY DEF Typed
    <3>1. CASE verifier' = verifier
      BY <3>0, <3>1
    <3>2. ASSUME NEW s \in Sessions, NEW v, IsIdentity(v), verifier' =
                   [verifier EXCEPT ![s] = v]
          PROVE  VerifierTyped(verifier')
      BY <3>0, <3>2 DEF VerifierTyped
    <3>3. ASSUME NEW s \in Sessions, NEW o, verifier' = [verifier EXCEPT ![s] = Probe(@, o)]
          PROVE  VerifierTyped(verifier')
      <4>1. IsIdentity(Probe(verifier[s], o))
        BY <3>0, IdentityIs DEF VerifierTyped
      <4> QED BY <3>2, <3>3, <4>1
    <3>4. ASSUME NEW s \in Sessions, NEW r, verifier' = [verifier EXCEPT ![s] = Enrol(@, r)]
          PROVE  VerifierTyped(verifier')
      <4>1. IsIdentity(Enrol(verifier[s], r))
        BY <3>0, IdentityIs DEF VerifierTyped
      <4> QED BY <3>2, <3>4, <4>1
    <3> QED BY <1>3, <3>1, <3>3, <3>4 DEF VerifierStep
  <2> QED BY <1>1, <2>1, <2>2, <2>3, <2>4 DEF Typed, Lefts
<1> QED BY <1>1, <1>2, <1>3

\* A process compares with what is stored.
LEMMA EnrolmentStaysStored ==
  ASSUME Typed, CallsTyped, OwnRowsAreKnown, EnrolmentIsStored, [Next]_vars
  PROVE  EnrolmentIsStored'
<1> DEFINE Stored(s) ==
      IF /\ settings.identity /\ s \in DOMAIN db.identity_templates
         /\ db.identity_templates[s].embedder = embedder
      THEN db.identity_templates[s].reference ELSE None
<1>1. ASSUME NEW d, Starts(d) PROVE EnrolmentIsStored'
  <2>1. settings' = settings
    BY <1>1, StartLeaves
  <2>2. ASSUME NEW s \in Sessions
        PROVE  verifier'[s].enrolment =
                 IF /\ settings'.identity /\ s \in DOMAIN db'.identity_templates
                    /\ db'.identity_templates[s].embedder = embedder'
                 THEN db'.identity_templates[s].reference ELSE None
    <3>1. verifier'[s].enrolment =
            IF /\ settings.identity /\ s \in DOMAIN db'.identity_templates
               /\ db'.identity_templates[s].embedder = embedder'
            THEN db'.identity_templates[s].reference ELSE None
      BY <1>1, RestoredVerifier
    <3> QED BY <2>1, <3>1
  <2> QED BY <2>2 DEF EnrolmentIsStored
<1>2. ASSUME Works, VerifierStep, NEW s \in Sessions, s \notin failed' 
      PROVE  verifier'[s].enrolment = Stored(s)'
  <2>1. /\ settings' = settings /\ embedder' = embedder /\ s \notin failed
        /\ VerifierTyped(verifier) /\ verifier[s].enrolment = Stored(s)
    BY <1>2 DEF Works, VerifierStep, EnrolmentIsStored, Typed
  <2>2. CASE db'.identity_templates = db.identity_templates
             /\ verifier'[s].enrolment = verifier[s].enrolment
    BY <2>1, <2>2
  <2>3. ASSUME NEW t \in Sessions, NEW o, verifier' = [verifier EXCEPT ![t] = Probe(@, o)]
        PROVE  verifier'[s].enrolment = verifier[s].enrolment
    <3>1. Probe(verifier[t], o).enrolment = verifier[t].enrolment
      BY <2>1, IdentityIs DEF VerifierTyped
    <3> QED BY <2>1, <2>3, <3>1 DEF VerifierTyped
  <2>4. ASSUME NEW t \in Sessions, NEW r, settings.identity,
               verifier' = [verifier EXCEPT ![t] = Enrol(@, r)],
               \/ db'.identity_templates =
                    Upsert(db.identity_templates, t,
                           [embedder |-> embedder, reference |-> r, created_ms |-> now])
               \/ db'.identity_templates = db.identity_templates /\ t \in failed'
        PROVE  verifier'[s].enrolment = Stored(s)'
    <3>1. Enrol(verifier[t], r).enrolment = r
      BY <2>1, IdentityIs DEF VerifierTyped
    <3>2. CASE t = s
      <4>1. db'.identity_templates =
              Upsert(db.identity_templates, s,
                     [embedder |-> embedder, reference |-> r, created_ms |-> now])
        BY <1>2, <2>4, <3>2
      <4>2. /\ s \in DOMAIN db'.identity_templates
            /\ db'.identity_templates[s] =
                 [embedder |-> embedder, reference |-> r, created_ms |-> now]
        BY <4>1 DEF Upsert
      <4>3. verifier'[s].enrolment = r
        BY <2>1, <2>4, <3>1, <3>2 DEF VerifierTyped
      <4> QED BY <2>1, <2>4, <4>2, <4>3
    <3>3. CASE t # s
      <4>1. verifier'[s] = verifier[s]
        BY <2>1, <2>4, <3>3 DEF VerifierTyped
      <4>2. /\ s \in DOMAIN db'.identity_templates <=> s \in DOMAIN db.identity_templates
            /\ s \in DOMAIN db.identity_templates =>
                 db'.identity_templates[s] = db.identity_templates[s]
        BY <2>4, <3>3 DEF Upsert
      <4> QED BY <2>1, <4>1, <4>2
    <3> QED BY <3>2, <3>3
  <2> HIDE DEF Stored
  <2> QED BY <1>2, <2>2, <2>3, <2>4 DEF VerifierStep
<1>3. CASE Works /\ VerifierStep
  BY <1>2, <1>3 DEF EnrolmentIsStored
<1> QED BY <1>1, <1>3, VerifierStepIs, StepWorksOrStarts

---------------------------------------------------------------------------
(* Rows and board.                                                         *)

\* A row written, and shown.
Adds(v) ==
  /\ v.session_id \in registry /\ registry' = registry
  /\ uuids =< uuids' /\ v.id < uuids'
  /\ \A j \in DOMAIN db.violations : db.violations[j].id = v.id =>
       db.violations[j].session_id = v.session_id /\ v.resolved
  /\ board' = RecordViolation(board, v)
  /\ db'.violations = Append(db.violations, v)

\* A row shown whose write raised.
Misses(v) ==
  /\ v.session_id \in registry /\ v.session_id \in failed' /\ UNCHANGED registry
  /\ uuids =< uuids' /\ db'.violations = db.violations
  /\ board' = RecordViolation(board, v)

LEMMA RowsStepIs ==
  ASSUME Typed, IdsAreUnique, OwnRowsAreKnown, RowsStep
  PROVE  \/ /\ UNCHANGED <<board, registry>> /\ db'.violations = db.violations
            /\ uuids =< uuids'
         \/ \E s \in Sessions : Admits(s)
         \/ \E v \in Row : Adds(v) \/ Misses(v)
<1>0. /\ uuids \in Nat /\ DOMAIN db.violations \subseteq Nat
      /\ \A i \in DOMAIN db.violations :
           i \in Nat /\ db.violations[i].id \in Nat /\ db.violations[i].id < uuids
  BY RowsAre, RowIs DEF Typed, StoreTyped, IdsAreUnique
<1>1. CASE Quiet
  BY <1>0, <1>1 DEF Quiet
<1>2. ASSUME NEW v \in Row, Fires(v) PROVE Adds(v) \/ Misses(v)
  <2>1. \A i \in DOMAIN db.violations : db.violations[i].id # uuids
    BY <1>0
  <2> QED BY <1>0, <1>2, <2>1 DEF Fires, Adds, Misses
<1>3. ASSUME NEW i \in DOMAIN db.violations, NEW v \in Row, Resolves(i, v) PROVE Adds(v)
  <2>1. v.session_id \in registry
    BY <1>3 DEF Resolves, OwnRowsAreKnown
  <2>2. ASSUME NEW j \in DOMAIN db.violations, db.violations[j].id = v.id
        PROVE  db.violations[j].session_id = v.session_id
    <3>1. db.violations[j].id = db.violations[i].id
            /\ v.session_id = db.violations[i].session_id
      BY <1>3, <2>2 DEF Resolves
    <3>2. i = j \/ i < j \/ j < i
      BY <1>0
    <3> QED BY <3>1, <3>2 DEF IdsAreUnique
  <2> QED BY <1>0, <1>3, <2>1, <2>2 DEF Resolves, Adds
<1> QED BY <1>1, <1>2, <1>3 DEF RowsStep

\* After a row was added.
LEMMA AddKeepsRows ==
  ASSUME Typed, RowsInv, UNCHANGED boot, failed \subseteq failed', uuids' \in Nat,
         NEW v \in Row, Adds(v)
  PROVE  RowsInv'
<1> DEFINE n == Len(db.violations) + 1
<1>0. PICK p \in Seq(Row) : p = db.violations
  BY DEF Typed, StoreTyped
<1>1. PICK q \in Seq(Row) : q = db'.violations /\ q = Append(p, v)
  <2>1. Append(p, v) \in Seq(Row)
    OBVIOUS
  <2> QED BY <1>0, <2>1 DEF Adds
<1>2. /\ n \in Nat /\ DOMAIN q = DOMAIN p \cup {n} /\ q[n] = v
      /\ \A i \in DOMAIN p : q[i] = p[i] /\ i < n /\ i \in Nat
  BY <1>0, <1>1, RowAppended
<1>3. /\ BoardTyped(board') /\ DOMAIN board' = DOMAIN board \cup {v.session_id}
      /\ \A k : k # v.session_id => OpenOn(board', k) = OpenOn(board, k)
      /\ OpenOn(board', v.session_id) = Opened(OpenOn(board, v.session_id), v)
      /\ \A k \in DOMAIN board' : board'[k].known => k \in DOMAIN board /\ board[k].known
  <2>1. BoardTyped(board)
    BY DEF Typed
  <2>2. board' = RecordViolation(board, v)
    BY DEF Adds
  <2> QED BY <2>1, <2>2, Recorded
<1>4. /\ v.session_id \in registry /\ registry' = registry /\ uuids \in Nat
      /\ uuids =< uuids' /\ v.id < uuids' /\ v.id \in Nat /\ v.resolved \in BOOLEAN
      /\ \A j \in DOMAIN p : p[j].id = v.id => p[j].session_id = v.session_id /\ v.resolved
  BY <1>0, TypesOfUse, RowIs DEF Adds
<1>5. \A i \in DOMAIN p : p[i].id \in Nat
  BY RowsAre, RowIs
<1> HIDE DEF n
<1>6. IdsAreUnique'
  <2>1. \A i \in DOMAIN p : p[i].id < uuids /\ p[i].id \in Nat
    BY <1>0, <1>5 DEF RowsInv, IdsAreUnique
  <2>2. ASSUME NEW i \in DOMAIN q, NEW j \in DOMAIN q, q[i].id = q[j].id, i < j
        PROVE  q[j].session_id = q[i].session_id /\ q[j].resolved
    <3>1. i \in DOMAIN p
      BY <1>2, <2>2
    <3>2. CASE j \in DOMAIN p
      BY <1>0, <1>2, <2>2, <3>1, <3>2 DEF RowsInv, IdsAreUnique
    <3>3. CASE j = n
      BY <1>2, <1>4, <2>2, <3>1, <3>3
    <3> QED BY <1>2, <3>2, <3>3
  <2>3. \A i \in DOMAIN q : q[i].id < uuids'
    BY <1>2, <1>4, <2>1
  <2> QED BY <1>1, <2>2, <2>3 DEF IdsAreUnique
<1>7. OwnRowsAreKnown'
  BY <1>0, <1>1, <1>2, <1>4 DEF RowsInv, OwnRowsAreKnown
<1>8. BoardIsKnown'
  <2>1. \A s \in DOMAIN board' : board'[s].known => s \in registry'
    BY <1>3, <1>4 DEF RowsInv, BoardIsKnown
  <2>2. ASSUME NEW s \in DOMAIN board' \ registry'
        PROVE  \E i \in DOMAIN q : q[i].session_id = s
    <3>1. s \in DOMAIN board \ registry
      BY <1>3, <1>4
    <3>2. PICK i \in DOMAIN p : p[i].session_id = s
      BY <1>0, <3>1 DEF RowsInv, BoardIsKnown
    <3> QED BY <1>2, <3>2
  <2>3. ~boot'.bare => \A i \in DOMAIN q : q[i].session_id \in DOMAIN board'
    BY <1>0, <1>2, <1>3 DEF RowsInv, BoardIsKnown
  <2> QED BY <1>1, <2>1, <2>2, <2>3 DEF BoardIsKnown
<1>9. InOrder(q) => InOrder(p)
  BY <1>1, InOrderBefore
<1>10. OpenIsStored'
  <2> SUFFICES ASSUME NEW s \in Sessions \ failed', NEW id \in OpenOn(board', s)
               PROVE  /\ \E i \in DOMAIN q : q[i].id = id /\ q[i].session_id = s
                           /\ ~q[i].resolved
                      /\ InOrder(q) => NeverResolved(q, id)
    BY <1>1 DEF OpenIsStored
  <2>1. CASE s = v.session_id /\ id = v.id /\ ~v.resolved
    <3>1. \A j \in DOMAIN p : p[j].id # id
      BY <1>4, <2>1
    <3>2. NeverResolved(q, id)
      BY <1>2, <2>1, <3>1 DEF NeverResolved
    <3> QED BY <1>2, <2>1, <3>2
  <2>2. CASE ~(s = v.session_id /\ id = v.id /\ ~v.resolved)
    <3>1. id \in OpenOn(board, s) /\ (s = v.session_id => id # v.id)
      <4>1. CASE s # v.session_id
        BY <1>3, <4>1
      <4>2. CASE s = v.session_id
        BY <1>3, <2>2, <4>2 DEF Opened
      <4> QED BY <4>1, <4>2
    <3>2. PICK i \in DOMAIN p : p[i].id = id /\ p[i].session_id = s /\ ~p[i].resolved
      BY <1>0, <3>1 DEF RowsInv, OpenIsStored
    <3>3. InOrder(p) => NeverResolved(p, id)
      BY <1>0, <3>1 DEF RowsInv, OpenIsStored
    <3>4. id # v.id
      BY <1>4, <3>1, <3>2
    <3>5. InOrder(q) => NeverResolved(q, id)
      BY <1>2, <1>9, <3>3, <3>4 DEF NeverResolved
    <3> QED BY <1>2, <3>2, <3>5
  <2> QED BY <2>1, <2>2
<1>11. StoredIsOpen'
  <2> SUFFICES ASSUME NEW s \in Sessions \ failed', InOrder(q), ~boot.bare,
                      NEW i \in NewestOf(q, s, RestoredPerSession),
                      NeverResolved(q, q[i].id)
               PROVE  q[i].id \in OpenOn(board', s)
    BY <1>1 DEF StoredIsOpen
  <2>1. i \in DOMAIN q /\ q[i].session_id = s
    BY DEF NewestOf, RowsOf
  <2>2. CASE i = n
    <3>1. ~v.resolved
      BY <1>2, <2>1, <2>2 DEF NeverResolved
    <3> QED BY <1>2, <1>3, <2>1, <2>2, <3>1 DEF Opened
  <2>3. CASE i \in DOMAIN p
    <3>1. i \in NewestOf(p, s, RestoredPerSession)
      BY <1>1, <2>3, NewestWereNewest, MonitorsAssumption
    <3>2. NeverResolved(p, p[i].id) /\ q[i].id = p[i].id
      BY <1>2, <2>3 DEF NeverResolved
    <3>3. p[i].id \in OpenOn(board, s)
      BY <1>0, <1>9, <3>1, <3>2 DEF RowsInv, StoredIsOpen
    <3>4. CASE s # v.session_id
      BY <1>3, <3>2, <3>3, <3>4
    <3>5. CASE s = v.session_id
      <4>1. v.resolved => v.id # p[i].id
        BY <1>2, <3>2 DEF NeverResolved
      <4> QED BY <1>3, <3>2, <3>3, <3>5, <4>1 DEF Opened
    <3> QED BY <3>4, <3>5
  <2> QED BY <1>2, <2>1, <2>2, <2>3
<1> QED BY <1>6, <1>7, <1>8, <1>10, <1>11 DEF RowsInv

LEMMA WorkKeepsRows ==
  ASSUME Typed, RowsInv, Works
  PROVE  RowsInv'
<1>0. /\ UNCHANGED boot /\ failed \subseteq failed' /\ uuids' \in Nat /\ uuids \in Nat
      /\ BoardTyped(board)
      /\ \A i \in DOMAIN db.violations : db.violations[i].id \in Nat
  BY TablesStayTyped, RowsAre, RowIs DEF Works, Typed, StoreTyped
<1>1. ASSUME UNCHANGED <<board, registry>>, db'.violations = db.violations, uuids =< uuids'
      PROVE  RowsInv'
  <2>1. IdsAreUnique'
    BY <1>0, <1>1 DEF RowsInv, IdsAreUnique
  <2>2. OwnRowsAreKnown' /\ BoardIsKnown'
    BY <1>0, <1>1 DEF RowsInv, OwnRowsAreKnown, BoardIsKnown
  <2>3. OpenIsStored' /\ StoredIsOpen'
    BY <1>0, <1>1 DEF RowsInv, OpenIsStored, StoredIsOpen
  <2> QED BY <2>1, <2>2, <2>3 DEF RowsInv
<1>2. ASSUME NEW s \in Sessions, Admits(s) PROVE RowsInv'
  <2>0. /\ registry' = registry \cup {s} /\ db'.violations = db.violations /\ uuids' = uuids
        /\ TRUE \in BOOLEAN /\ board' = Ensure(board, s, TRUE)
    BY <1>2 DEF Admits
  <2> DEFINE f == Ensure(board, s, TRUE)
  <2>1. TRUE \in BOOLEAN
    OBVIOUS
  <2>2. /\ DOMAIN f = DOMAIN board \cup {s}
        /\ \A k : OpenOn(f, k) = OpenOn(board, k)
        /\ \A k \in DOMAIN f :
             f[k].known = IF k = s THEN KnownOn(board, s) \/ TRUE ELSE board[k].known
    BY <1>0, <2>1, Ensured
  <2>3. f = board'
    BY <2>0
  <2> HIDE DEF f
  <2>4. /\ DOMAIN board' = DOMAIN board \cup {s}
        /\ \A k : OpenOn(board', k) = OpenOn(board, k)
    BY <2>2, <2>3
  <2>5. IdsAreUnique' /\ OwnRowsAreKnown'
    BY <1>0, <2>0 DEF RowsInv, IdsAreUnique, OwnRowsAreKnown
  <2>6. \A k \in DOMAIN board' : k # s => k \in DOMAIN board /\ board'[k].known = board[k].known
    BY <2>2, <2>3
  <2>7. BoardIsKnown'
    BY <1>0, <2>0, <2>4, <2>6 DEF RowsInv, BoardIsKnown
  <2>8. OpenIsStored'
    <3> SUFFICES ASSUME NEW k \in Sessions \ failed', NEW id \in OpenOn(board', k)
                 PROVE  /\ \E i \in DOMAIN db'.violations :
                             /\ db'.violations[i].id = id
                             /\ db'.violations[i].session_id = k
                             /\ ~db'.violations[i].resolved
                        /\ InOrder(db'.violations) => NeverResolved(db'.violations, id)
      BY DEF OpenIsStored
    <3>1. k \in Sessions \ failed /\ id \in OpenOn(board, k)
      BY <1>0, <2>4
    <3> QED BY <2>0, <3>1 DEF RowsInv, OpenIsStored
  <2>9. StoredIsOpen'
    BY <1>0, <2>0, <2>4 DEF RowsInv, StoredIsOpen
  <2> QED BY <2>5, <2>7, <2>8, <2>9 DEF RowsInv
<1>3. ASSUME NEW v \in Row, Misses(v) PROVE RowsInv'
  <2>0. /\ registry' = registry /\ db'.violations = db.violations /\ uuids =< uuids'
        /\ v.session_id \in registry /\ v.session_id \in failed'
        /\ board' = RecordViolation(board, v)
    BY <1>3 DEF Misses
  <2>1. /\ DOMAIN board' = DOMAIN board \cup {v.session_id}
        /\ \A k : k # v.session_id => OpenOn(board', k) = OpenOn(board, k)
        /\ \A k \in DOMAIN board' : board'[k].known => k \in DOMAIN board /\ board[k].known
    BY <1>0, <2>0, Recorded
  <2>2. IdsAreUnique' /\ OwnRowsAreKnown'
    BY <1>0, <2>0 DEF RowsInv, IdsAreUnique, OwnRowsAreKnown
  <2>3. BoardIsKnown'
    BY <1>0, <2>0, <2>1 DEF RowsInv, BoardIsKnown
  <2>4. OpenIsStored'
    BY <1>0, <2>0, <2>1 DEF RowsInv, OpenIsStored
  <2>5. StoredIsOpen'
    BY <1>0, <2>0, <2>1 DEF RowsInv, StoredIsOpen
  <2> QED BY <2>2, <2>3, <2>4, <2>5 DEF RowsInv
<1>4. ASSUME NEW v \in Row, Adds(v) PROVE RowsInv'
  BY <1>0, <1>4, AddKeepsRows
<1> QED BY <1>1, <1>2, <1>3, <1>4, RowsStepIs DEF Works, RowsInv

LEMMA StartKeepsRows ==
  ASSUME Typed, RowsInv, NEW d, Starts(d)
  PROVE  RowsInv'
<1>0. /\ StoreTyped(db) /\ uuids' = uuids /\ registry' = LoadSessions(db')
      /\ board' = Restored(db') /\ boot'.flags = Len(db'.violations)
      /\ boot'.bare = (registry' = {})
      /\ db'.violations = Younger(db.violations, Cutoff(RetentionDays))
  BY StartLeaves DEF Typed, LoadSessions
<1>1. PICK p \in Seq(Row) : p = db.violations
  BY <1>0 DEF StoreTyped
<1>2. PICK q \in Seq(Row) : q = db'.violations
  BY StartIsTyped DEF RowsInv, StoreTyped
<1>3. OneFiring(q) /\ \A k \in DOMAIN q : \E i \in DOMAIN p : q[k] = p[i]
  <2>1. OneFiring(p)
    BY <1>1 DEF RowsInv, IdsAreUnique, OneFiring
  <2> QED BY <1>0, <1>1, <1>2, <2>1, YoungerRows
<1>4. IdsAreUnique'
  <2>1. \A i \in DOMAIN p : p[i].id < uuids
    BY <1>1 DEF RowsInv, IdsAreUnique
  <2> QED BY <1>0, <1>2, <1>3, <2>1 DEF IdsAreUnique, OneFiring
<1>5. OwnRowsAreKnown'
  <2>1. \A i \in DOMAIN q : ~(i > Len(q))
    BY RowsAre
  <2> QED BY <1>0, <1>2, <2>1 DEF OwnRowsAreKnown
<1>6. CASE registry' = {}
  <2>1. boot'.bare /\ DOMAIN board' = {}
    <3>1. LoadSessions(db') = {} /\ DOMAIN <<>> = {}
      BY <1>0, <1>6
    <3>2. board' = <<>>
      BY <1>0, <3>1 DEF Restored
    <3>3. boot'.bare
      BY <1>0, <1>6, Zenon
    <3> QED BY <3>1, <3>2, <3>3
  <2>2. BoardIsKnown' /\ OpenIsStored' /\ StoredIsOpen'
    BY <2>1 DEF BoardIsKnown, OpenIsStored, StoredIsOpen, OpenOn
  <2> QED BY <1>4, <1>5, <2>2 DEF RowsInv
<1>7. CASE registry' # {}
  <2> DEFINE r(s) == LoadViolations(db', s, RestoredPerSession)
  <2>0. RestoredPerSession \in Nat
    BY MonitorsAssumption
  <2>1. /\ DOMAIN board' = registry' \cup {q[i].session_id : i \in DOMAIN q}
        /\ \A s \in DOMAIN board' :
             board'[s] = [known |-> s \in registry', open |-> LeftOpen(r(s), DOMAIN r(s))]
    <3>1. /\ db'.violations \in Seq(Row) /\ OneFiring(db'.violations)
          /\ LoadSessions(db') # {}
      BY <1>0, <1>2, <1>3, <1>7
    <3>2. /\ DOMAIN Restored(db') =
               LoadSessions(db') \cup {db'.violations[i].session_id : i \in DOMAIN db'.violations}
          /\ \A s \in DOMAIN Restored(db') :
               Restored(db')[s] =
                 [known |-> s \in LoadSessions(db'), open |-> LeftOpen(r(s), DOMAIN r(s))]
      BY <3>1, RestoredBoard
    <3>3. q = db'.violations /\ board' = Restored(db') /\ registry' = LoadSessions(db')
      BY <1>0, <1>2
    <3> HIDE DEF r
    <3> QED BY <3>2, <3>3
  <2>2. ASSUME NEW s
        PROVE  /\ \A id \in LeftOpen(r(s), DOMAIN r(s)) :
                    /\ \E i \in DOMAIN q : q[i].id = id /\ q[i].session_id = s /\ ~q[i].resolved
                    /\ InOrder(q) => NeverResolved(q, id)
               /\ \A i \in NewestOf(q, s, RestoredPerSession) :
                    NeverResolved(q, q[i].id) => q[i].id \in LeftOpen(r(s), DOMAIN r(s))
    BY <1>2, <1>3, <2>0, ReplayedOpen
  <2> DEFINE open(s) == LeftOpen(r(s), DOMAIN r(s))
  <2> HIDE DEF r
  <2>3. ASSUME NEW s \in DOMAIN board'
        PROVE  board'[s].open = open(s) /\ (board'[s].known => s \in registry')
    <3> DEFINE known == s \in registry'
    <3>1. board'[s] = [known |-> known, open |-> open(s)]
      BY <2>1
    <3> HIDE DEF known, open
    <3>2. board'[s].open = open(s) /\ board'[s].known = known
      BY <3>1
    <3> QED BY <3>2, Zenon DEF known
  <2>4. BoardIsKnown'
    <3>1. \A s \in DOMAIN board' : board'[s].known => s \in registry'
      BY <2>3
    <3>2. \A s \in DOMAIN board' \ registry' : \E i \in DOMAIN q : q[i].session_id = s
      BY <2>1
    <3>3. \A i \in DOMAIN q : q[i].session_id \in DOMAIN board'
      BY <2>1
    <3> QED BY <1>2, <3>1, <3>2, <3>3 DEF BoardIsKnown
  <2>5. \A s \in DOMAIN board' : OpenOn(board', s) = LeftOpen(r(s), DOMAIN r(s))
    BY <2>3 DEF OpenOn
  <2>6. OpenIsStored'
    <3> SUFFICES ASSUME NEW s \in Sessions, NEW id \in OpenOn(board', s)
                 PROVE  /\ \E i \in DOMAIN q : q[i].id = id /\ q[i].session_id = s
                             /\ ~q[i].resolved
                        /\ InOrder(q) => NeverResolved(q, id)
      BY <1>2 DEF OpenIsStored
    <3>1. s \in DOMAIN board'
      BY DEF OpenOn
    <3> QED BY <2>2, <2>5, <3>1
  <2>7. StoredIsOpen'
    <3> SUFFICES ASSUME NEW s \in Sessions, NEW i \in NewestOf(q, s, RestoredPerSession),
                        NeverResolved(q, q[i].id)
                 PROVE  q[i].id \in OpenOn(board', s)
      BY <1>2 DEF StoredIsOpen
    <3>1. s \in DOMAIN board'
      BY <2>1 DEF NewestOf, RowsOf
    <3> QED BY <2>2, <2>5, <3>1
  <2> QED BY <1>4, <1>5, <2>4, <2>6, <2>7 DEF RowsInv
<1> QED BY <1>6, <1>7

---------------------------------------------------------------------------
(* The clock.                                                              *)

LEMMA ClockTypes ==
  ASSUME Typed
  PROVE  /\ now \in Nat /\ left.steps_back \in Nat /\ settings.steps_back \in Nat
         /\ {RetentionDays, TemplateDays, TranscriptDays} \subseteq Nat
         /\ {boot.cutoff, boot.templates, boot.transcripts} \subseteq Int
BY MonitorsAssumption DEF Typed, Deployment

LEMMA ClockStays ==
  ASSUME Typed, ClockInv, Works \/ \E d : Starts(d)
  PROVE  ClockInv'
<1>0. /\ now \in Nat /\ left.steps_back \in Nat /\ settings.steps_back \in Nat
      /\ {RetentionDays, TemplateDays, TranscriptDays} \subseteq Nat
      /\ {boot.cutoff, boot.templates, boot.transcripts} \subseteq Int
  BY ClockTypes
<1>1. CASE Works
  <2>1. UNCHANGED <<settings, boot>> /\ ClockStep
    BY <1>1 DEF Works
  <2>2. /\ left'.steps_back =< settings'.steps_back
        /\ now' + SteppedBack' >= now + SteppedBack /\ now' + SteppedBack' \in Int
    BY <1>0, <2>1 DEF ClockStep, SteppedBack, ClockInv
  <2>3. ASSUME NEW cutoff \in Int, NEW days \in Nat, IsBehind(cutoff, days)
        PROVE  cutoff = -1 \/ (days # 0 /\ cutoff + days =< now' + SteppedBack')
    BY <1>0, <2>2, <2>3 DEF IsBehind, SteppedBack
  <2> QED BY <1>0, <2>1, <2>2, <2>3 DEF ClockInv, IsBehind
<1>2. ASSUME NEW d, Starts(d) PROVE ClockInv'
  <2>1. /\ UNCHANGED <<settings, now>> /\ left'.steps_back = left.steps_back
        /\ boot'.cutoff = Cutoff(RetentionDays)
        /\ boot'.templates = Cutoff(TemplateDays)
        /\ boot'.transcripts = Cutoff(TranscriptDays)
    BY <1>2, StartLeaves
  <2>2. now =< now' + SteppedBack' /\ left'.steps_back =< settings'.steps_back
    BY <1>0, <2>1 DEF ClockInv, SteppedBack
  <2>3. ASSUME NEW days \in {RetentionDays, TemplateDays, TranscriptDays}
        PROVE  Cutoff(days) = -1 \/ (days # 0 /\ Cutoff(days) + days =< now' + SteppedBack')
    <3>1. Cutoff(days) = IF days = 0 THEN -1 ELSE now - days
      BY CutoffIs
    <3> QED BY <1>0, <2>2, <3>1
  <2> QED BY <2>1, <2>2, <2>3 DEF ClockInv, IsBehind
<1> QED BY <1>1, <1>2

\* No cutoff of the last start is ahead of the clock.
LEMMA CutoffsArePast ==
  ASSUME Typed, ClockInv, StepsWithinRetention
  PROVE  boot.cutoff =< now /\ boot.templates =< now /\ boot.transcripts =< now
<1>0. /\ now \in Nat /\ left.steps_back \in Nat /\ settings.steps_back \in Nat
      /\ {RetentionDays, TemplateDays, TranscriptDays} \subseteq Nat
      /\ {boot.cutoff, boot.templates, boot.transcripts} \subseteq Int
  BY ClockTypes
<1>1. ASSUME NEW days \in {RetentionDays, TemplateDays, TranscriptDays}, NEW cutoff \in Int,
             IsBehind(cutoff, days)
      PROVE  cutoff =< now
  <2>1. days = 0 \/ settings.steps_back =< days
    BY DEF StepsWithinRetention, Typed
  <2> QED BY <1>0, <1>1, <2>1 DEF IsBehind, SteppedBack
<1> QED BY <1>0, <1>1 DEF ClockInv

LEMMA NewRowIs ==
  ASSUME Works
  PROVE  \/ db'.violations = db.violations
         \/ \E v \in Row : /\ db'.violations = Append(db.violations, v)
                           /\ v.recorded_ms = now /\ Evidence(v)
BY DEF Works, RowsStep, Quiet, Admits, Fires, Resolves, Evidence

LEMMA NothingExpires ==
  ASSUME Typed, ClockInv, StepsWithinRetention, NothingStoredHasExpired,
         Works \/ \E d : Starts(d)
  PROVE  NothingStoredHasExpired'
<1>0. /\ now \in Nat /\ boot.cutoff =< now /\ boot.templates =< now
      /\ boot.transcripts =< now /\ db.violations \in Seq(Row)
      /\ {boot.cutoff, boot.templates, boot.transcripts} \subseteq Int
  BY ClockTypes, CutoffsArePast DEF Typed, StoreTyped
<1>1. CASE Works
  <2>0. boot' = boot /\ TablesStep
    BY <1>1 DEF Works
  <2>1. /\ registry' \subseteq DOMAIN db'.sessions
        /\ \A s \in DOMAIN db'.sessions : db'.sessions[s].updated_ms >= boot'.cutoff
    <3>1. CASE db'.sessions = db.sessions /\ registry' = registry
      BY <2>0, <3>1 DEF NothingStoredHasExpired
    <3>2. ASSUME NEW s \in Sessions,
                 db'.sessions = Upsert(db.sessions, s, [updated_ms |-> now]),
                 registry' \in {registry, registry \cup {s}}
          PROVE  <2>1
      BY <1>0, <2>0, <3>2 DEF NothingStoredHasExpired, Upsert
    <3> QED BY <2>0, <3>1, <3>2 DEF TablesStep
  <2>2. \A i \in DOMAIN db'.violations : db'.violations[i].recorded_ms >= boot'.cutoff
    <3>1. CASE db'.violations = db.violations
      BY <2>0, <3>1 DEF NothingStoredHasExpired
    <3>2. ASSUME NEW v \in Row, db'.violations = Append(db.violations, v), v.recorded_ms = now
          PROVE  <2>2
      BY <1>0, <2>0, <3>2, RowAppended DEF NothingStoredHasExpired
    <3> QED BY <1>1, <3>1, <3>2, NewRowIs
  <2>3. \A s \in DOMAIN db'.identity_templates :
          db'.identity_templates[s].created_ms >= boot'.templates
    <3>1. CASE db'.identity_templates = db.identity_templates
      BY <2>0, <3>1 DEF NothingStoredHasExpired
    <3>2. ASSUME NEW s \in Sessions, NEW e, NEW r,
                 db'.identity_templates =
                   Upsert(db.identity_templates, s,
                          [embedder |-> e, reference |-> r, created_ms |-> now])
          PROVE  <2>3
      BY <1>0, <2>0, <3>2 DEF NothingStoredHasExpired, Upsert
    <3> QED BY <2>0, <3>1, <3>2 DEF TablesStep
  <2>4. \A id \in DOMAIN db'.audio_transcripts :
          db'.audio_transcripts[id].recorded_ms >= boot'.transcripts
    <3>1. CASE db'.audio_transcripts = db.audio_transcripts
      BY <2>0, <3>1 DEF NothingStoredHasExpired
    <3>2. ASSUME NEW s \in Sessions,
                 db'.audio_transcripts =
                   Upsert(db.audio_transcripts, uuids, [session_id |-> s, recorded_ms |-> now])
          PROVE  <2>4
      BY <1>0, <2>0, <3>2 DEF NothingStoredHasExpired, Upsert
    <3> QED BY <2>0, <3>1, <3>2 DEF TablesStep
  <2> QED BY <2>1, <2>2, <2>3, <2>4 DEF NothingStoredHasExpired
<1>2. ASSUME NEW d, Starts(d) PROVE NothingStoredHasExpired'
  <2>1. /\ registry' = DOMAIN db'.sessions
        /\ boot'.cutoff = Cutoff(RetentionDays)
        /\ boot'.templates = Cutoff(TemplateDays)
        /\ boot'.transcripts = Cutoff(TranscriptDays)
        /\ KeptOf(db'.sessions, db.sessions, Updated, Cutoff(RetentionDays))
        /\ KeptOf(db'.identity_templates, db.identity_templates, Created, Cutoff(TemplateDays))
        /\ KeptOf(db'.audio_transcripts, db.audio_transcripts, Made, Cutoff(TranscriptDays))
        /\ db'.violations = Younger(db.violations, Cutoff(RetentionDays))
    BY <1>2, StartLeaves
  <2>2. \A i \in DOMAIN db'.violations : db'.violations[i].recorded_ms >= boot'.cutoff
    <3>1. PICK q : q = Younger(db.violations, Cutoff(RetentionDays))
      OBVIOUS
    <3>2. \A k \in DOMAIN q : \E i \in DOMAIN db.violations :
            q[k] = db.violations[i] /\ db.violations[i].recorded_ms >= Cutoff(RetentionDays)
      BY <1>0, <3>1, YoungerRows
    <3> QED BY <2>1, <3>1, <3>2
  <2> QED BY <2>1, <2>2 DEF NothingStoredHasExpired, KeptOf, Updated, Created, Made
<1> QED BY <1>1, <1>2

LEMMA TranscriptsStay ==
  ASSUME Typed, ClockInv, ClassifiersKeepTime, TranscriptsAreKept,
         Works \/ \E d : Starts(d)
  PROVE  TranscriptsAreKept'
<1> DEFINE Kept(v, transcripts, cutoff, mode) ==
      v.transcript_ref # None =>
        /\ mode = "classify"
        /\ \/ /\ v.transcript_ref \in DOMAIN transcripts
              /\ transcripts[v.transcript_ref] =
                   [session_id |-> v.session_id, recorded_ms |-> v.opened_at_ms]
           \/ v.opened_at_ms < cutoff
<1>0. /\ now \in Nat /\ left.steps_back \in Nat /\ settings.steps_back \in Nat
      /\ {RetentionDays, TemplateDays, TranscriptDays} \subseteq Nat
      /\ {boot.cutoff, boot.templates, boot.transcripts} \subseteq Int
      /\ db.violations \in Seq(Row)
  BY ClockTypes DEF Typed, StoreTyped
<1>1. \A i \in DOMAIN db.violations :
        /\ db.violations[i].opened_at_ms \in Nat
        /\ Kept(db.violations[i], db.audio_transcripts, boot.transcripts, settings.audio)
  BY <1>0, RowsAre, RowIs DEF TranscriptsAreKept
<1>2. CASE Works
  <2>1. /\ UNCHANGED <<settings, boot>>
        /\ \A id \in DOMAIN db.audio_transcripts :
             /\ id \in DOMAIN db'.audio_transcripts
             /\ db'.audio_transcripts[id] = db.audio_transcripts[id]
    BY <1>2, WorkKeeps
  <2>2. \A v : Kept(v, db.audio_transcripts, boot.transcripts, settings.audio) =>
                 Kept(v, db'.audio_transcripts, boot'.transcripts, settings'.audio)
    BY <2>1
  <2>3. CASE db'.violations = db.violations
    BY <1>1, <2>2, <2>3 DEF TranscriptsAreKept
  <2>4. ASSUME NEW v \in Row, db'.violations = Append(db.violations, v), Evidence(v)
        PROVE  TranscriptsAreKept'
    <3>1. Kept(v, db.audio_transcripts, boot.transcripts, settings.audio)
      BY <2>4 DEF Evidence
    <3>2. \A i \in DOMAIN db'.violations :
            db'.violations[i] = v \/ \E j \in DOMAIN db.violations :
              db'.violations[i] = db.violations[j]
      BY <1>0, <2>4, RowAppended
    <3> HIDE DEF Kept
    <3>3. \A i \in DOMAIN db'.violations :
            Kept(db'.violations[i], db'.audio_transcripts, boot'.transcripts, settings'.audio)
      BY <1>1, <2>2, <3>1, <3>2
    <3> QED BY <3>3 DEF TranscriptsAreKept, Kept
  <2> QED BY <1>2, <2>3, <2>4, NewRowIs
<1>3. ASSUME NEW d, Starts(d) PROVE TranscriptsAreKept'
  <2>1. /\ UNCHANGED <<settings, now>>
        /\ boot'.transcripts = Cutoff(TranscriptDays)
        /\ KeptOf(db'.audio_transcripts, db.audio_transcripts, Made, Cutoff(TranscriptDays))
        /\ db'.violations = Younger(db.violations, Cutoff(RetentionDays))
    BY <1>3, StartLeaves
  <2>2. Cutoff(TranscriptDays) \in Int
        /\ Cutoff(TranscriptDays) = IF TranscriptDays = 0 THEN -1 ELSE now - TranscriptDays
    BY CutoffIs
  <2>3. settings.audio = "classify" => \A t \in Nat : t < boot.transcripts =>
          t < Cutoff(TranscriptDays)
    <3>1. settings.audio = "classify" => settings.steps_back = 0
      BY DEF ClassifiersKeepTime, Typed
    <3>2. /\ now \in Nat /\ TranscriptDays \in Nat /\ boot.transcripts \in Int
          /\ left.steps_back \in Nat /\ settings.steps_back \in Nat
          /\ left.steps_back =< settings.steps_back
      BY ClockTypes DEF ClockInv
    <3>3. settings.audio = "classify" => SteppedBack = 0
      BY <3>1, <3>2 DEF SteppedBack
    <3>4. settings.audio = "classify" =>
            \/ boot.transcripts = -1
            \/ TranscriptDays # 0 /\ boot.transcripts + TranscriptDays =< now
      BY <3>2, <3>3 DEF ClockInv, IsBehind
    <3>5. ASSUME settings.audio = "classify", NEW t \in Nat, t < boot.transcripts
          PROVE  t < Cutoff(TranscriptDays)
      <4>1. boot.transcripts # -1
        BY <3>5
      <4>2. TranscriptDays # 0 /\ boot.transcripts + TranscriptDays =< now
        BY <3>4, <3>5, <4>1
      <4>3. t < now - TranscriptDays
        BY <3>2, <3>5, <4>2
      <4> QED BY <2>2, <4>2, <4>3
    <3> QED BY <3>5
  <2>4. ASSUME NEW i \in DOMAIN db.violations
        PROVE  Kept(db.violations[i], db'.audio_transcripts, Cutoff(TranscriptDays), settings.audio)
    <3>1. PICK v : v = db.violations[i]
      OBVIOUS
    <3>2. v.opened_at_ms \in Nat
            /\ Kept(v, db.audio_transcripts, boot.transcripts, settings.audio)
      BY <1>1, <3>1
    <3>3. ASSUME v.transcript_ref # None
          PROVE  \/ /\ v.transcript_ref \in DOMAIN db'.audio_transcripts
                    /\ db'.audio_transcripts[v.transcript_ref] =
                         [session_id |-> v.session_id, recorded_ms |-> v.opened_at_ms]
                 \/ v.opened_at_ms < Cutoff(TranscriptDays)
      <4>1. CASE v.opened_at_ms < boot.transcripts
        BY <2>3, <3>2, <3>3, <4>1
      <4>2. CASE /\ v.transcript_ref \in DOMAIN db.audio_transcripts
                 /\ db.audio_transcripts[v.transcript_ref] =
                      [session_id |-> v.session_id, recorded_ms |-> v.opened_at_ms]
        <5>1. Made(db.audio_transcripts[v.transcript_ref]) = v.opened_at_ms
          BY <4>2 DEF Made
        <5>2. v.transcript_ref \in DOMAIN db'.audio_transcripts
                \/ v.opened_at_ms < Cutoff(TranscriptDays)
          BY <2>1, <2>2, <3>2, <4>2, <5>1 DEF KeptOf
        <5> QED BY <2>1, <4>2, <5>2 DEF KeptOf
      <4> QED BY <3>2, <3>3, <4>1, <4>2
    <3> QED BY <3>1, <3>2, <3>3
  <2>5. PICK q : q = Younger(db.violations, Cutoff(RetentionDays))
    OBVIOUS
  <2>6. \A k \in DOMAIN q : \E i \in DOMAIN db.violations : q[k] = db.violations[i]
    BY <1>0, <2>5, YoungerRows
  <2> HIDE DEF Kept
  <2>7. \A k \in DOMAIN q :
          Kept(q[k], db'.audio_transcripts, boot'.transcripts, settings'.audio)
    BY <2>1, <2>4, <2>6
  <2> QED BY <2>1, <2>5, <2>7 DEF TranscriptsAreKept, Kept
<1> QED BY <1>2, <1>3

---------------------------------------------------------------------------
(* Windows.                                                                *)

\* e lists the members of a set of numbers.
Ascends(e, S) ==
  /\ Cardinality(S) \in Nat /\ DOMAIN e = 1 .. Cardinality(S)
  /\ \A k \in 1 .. Cardinality(S) :
       e[k] \in S /\ Cardinality({j \in S : j < e[k]}) = k - 1
  /\ \A k, l \in 1 .. Cardinality(S) : k < l => e[k] < e[l]
  /\ \A i \in S : \E k \in 1 .. Cardinality(S) : e[k] = i

LEMMA SortedAscends ==
  ASSUME NEW S \in SUBSET Nat, IsFiniteSet(S)
  PROVE  /\ Ascends(Sorted(S, <), S)
         /\ \A i, j \in S :
              Cardinality({x \in S : x < i}) = Cardinality({x \in S : x < j}) => i = j
<1> DEFINE R == {x \in S \X S : x[1] < x[2]}
           n == Cardinality(S)
           e == Sorted(S, <)
<1>1. \A i, j \in S : <<i, j>> \in R <=> i < j
  OBVIOUS
<1> HIDE DEF R
<1>2. StrictOrder(R, S)
  BY <1>1 DEF StrictOrder
<1>3. \A i \in S : Preceding(R, S, i) = {j \in S : j < i}
  BY <1>1 DEF Preceding
<1>4. Ranks(e, R, S)
  <2>1. ASSUME NEW k \in 1 .. n
        PROVE  e[k] \in S /\ Cardinality(Preceding(R, S, e[k])) = k - 1
    <3>1. PICK i \in S : Cardinality(Preceding(R, S, i)) = k - 1
      BY <1>2, EveryRankIsTaken
    <3>2. Cardinality({j \in S : j < i}) = k - 1
      BY <1>3, <3>1
    <3>3. e[k] = CHOOSE x \in S : Cardinality({j \in S : j < x}) = k - 1
      BY DEF Sorted
    <3>4. e[k] \in S /\ Cardinality({j \in S : j < e[k]}) = k - 1
      BY <3>2, <3>3
    <3> QED BY <1>3, <3>4
  <2>2. DOMAIN e = 1 .. n
    BY DEF Sorted
  <2> QED BY <2>1, <2>2 DEF Ranks
<1> HIDE DEF e
<1>5. /\ n \in Nat /\ DOMAIN e = 1 .. n
      /\ \A k \in 1 .. n : e[k] \in S
      /\ \A k, l \in 1 .. n : k < l => <<e[k], e[l]>> \in R
      /\ \A i \in S : \E k \in 1 .. n : e[k] = i
  BY <1>2, <1>4, RankedIsSorted
<1>6. \A k \in 1 .. n : Cardinality({j \in S : j < e[k]}) = k - 1
  BY <1>3, <1>4, <1>5 DEF Ranks
<1>7. \A k, l \in 1 .. n : k < l => e[k] < e[l]
  BY <1>1, <1>5
<1>8. Ascends(e, S)
  BY <1>5, <1>6, <1>7 DEF Ascends
<1>9. ASSUME NEW i \in S, NEW j \in S,
             Cardinality({x \in S : x < i}) = Cardinality({x \in S : x < j})
      PROVE  i = j
  <2>1. \A x, y \in S : <<x, y>> \in R =>
          Cardinality(Preceding(R, S, x)) < Cardinality(Preceding(R, S, y))
    BY <1>2, EveryRankIsTaken
  <2>2. \A x \in S : Cardinality(Preceding(R, S, x)) \in Int
    BY <1>2, EveryRankIsTaken
  <2>3. Cardinality(Preceding(R, S, i)) = Cardinality(Preceding(R, S, j))
    BY <1>3, <1>9
  <2>4. <<i, j>> \notin R /\ <<j, i>> \notin R
    BY <2>1, <2>2, <2>3
  <2> QED BY <1>1, <2>4
<1> QED BY <1>8, <1>9 DEF e

\* One more, greater than all of them.
Grown(f, e, S, n) ==
  LET c == Cardinality(S) IN
  /\ c \in Nat /\ DOMAIN e = 1 .. c /\ DOMAIN f = 1 .. c + 1
  /\ f[c + 1] = n /\ \A k \in 1 .. c : f[k] = e[k] /\ e[k] \in S

LEMMA SortedGrows ==
  ASSUME NEW S \in SUBSET Nat, IsFiniteSet(S), NEW n \in Nat, \A i \in S : i < n
  PROVE  Grown(Sorted(S \cup {n}, <), Sorted(S, <), S, n)
<1> DEFINE e == Sorted(S, <)
           U == S \cup {n}
           f == Sorted(U, <)
           c == Cardinality(S)
<1>1. U \in SUBSET Nat /\ IsFiniteSet(U) /\ Cardinality(U) = c + 1 /\ c \in Nat
  <2>1. n \notin S
    OBVIOUS
  <2> QED BY <2>1, FS_AddElement, FS_CardinalityType
<1>2. Ascends(e, S)
  BY SortedAscends
<1>3. Ascends(f, U) /\ \A i, j \in U :
        Cardinality({x \in U : x < i}) = Cardinality({x \in U : x < j}) => i = j
  <2> HIDE DEF U
  <2> QED BY <1>1, SortedAscends
<1> HIDE DEF e, f
<1>4. ASSUME NEW i \in S PROVE i \in U /\ {x \in U : x < i} = {x \in S : x < i}
  <2>1. ~(n < i)
    OBVIOUS
  <2> QED BY <2>1
<1>5. n \in U /\ {x \in U : x < n} = S
  <2>1. \A x \in U : x < n <=> x \in S
    OBVIOUS
  <2>2. S \subseteq U /\ n \in U
    OBVIOUS
  <2> HIDE DEF U
  <2> QED BY <2>1, <2>2
<1> HIDE DEF U
<1>6. ASSUME NEW k \in 1 .. c PROVE f[k] = e[k] /\ e[k] \in S
  <2>1. e[k] \in S /\ Cardinality({x \in S : x < e[k]}) = k - 1
    BY <1>2 DEF Ascends
  <2>2. f[k] \in U /\ Cardinality({x \in U : x < f[k]}) = k - 1
    <3>1. k \in 1 .. Cardinality(U)
      BY <1>1
    <3> QED BY <1>3, <3>1 DEF Ascends
  <2>3. e[k] \in U /\ Cardinality({x \in U : x < e[k]}) = k - 1
    BY <1>4, <2>1
  <2> QED BY <1>3, <2>1, <2>2, <2>3
<1>7. f[c + 1] = n
  <2>1. f[c + 1] \in U /\ Cardinality({x \in U : x < f[c + 1]}) = c
    <3>1. PICK k \in 1 .. Cardinality(U) : k = c + 1 /\ k - 1 = c
      BY <1>1
    <3>2. f[k] \in U /\ Cardinality({x \in U : x < f[k]}) = k - 1
      BY <1>3 DEF Ascends
    <3> QED BY <3>1, <3>2
  <2> QED BY <1>3, <1>5, <2>1
<1>8. DOMAIN e = 1 .. c /\ DOMAIN f = 1 .. c + 1
  BY <1>1, <1>2, <1>3 DEF Ascends
<1> QED BY <1>1, <1>6, <1>7, <1>8 DEF e, f, U, Grown

LEMMA PositionsAre ==
  ASSUME NEW T, NEW p \in Seq(T)
  PROVE  /\ Len(p) \in Nat /\ DOMAIN p = 1 .. Len(p) /\ IsFiniteSet(DOMAIN p)
         /\ \A i \in DOMAIN p : i \in Nat /\ i =< Len(p) /\ p[i] \in T
<1>1. Len(p) \in Nat /\ DOMAIN p = 1 .. Len(p)
  OBVIOUS
<1>2. IsFiniteSet(1 .. Len(p))
  BY <1>1, FS_Interval
<1>3. \A i \in 1 .. Len(p) : i \in Nat /\ i =< Len(p) /\ p[i] \in T
  BY <1>1
<1> QED BY <1>1, <1>2, <1>3

\* The positions of the rows of a session since a start.
SinceAt(p, s, start) == {i \in RowsOf(p, s) : i > start}

\* z has the rows of p at the positions S, which e lists.
Lists(z, p, T, S, e) ==
  /\ S \in SUBSET DOMAIN p /\ S \in SUBSET Nat /\ IsFiniteSet(S) /\ Ascends(e, S)
  /\ z = [k \in 1 .. Cardinality(S) |-> p[e[k]]]
  /\ z \in Seq(T) /\ Len(z) = Cardinality(S)

LEMMA SinceIs ==
  ASSUME NEW T, NEW p \in Seq(T), NEW s, NEW start
  PROVE  Lists(Since(p, s, start), p, T, SinceAt(p, s, start), Sorted(SinceAt(p, s, start), <))
<1> DEFINE S == SinceAt(p, s, start)
           e == Sorted(S, <)
           n == Cardinality(S)
<1>1. S \in SUBSET DOMAIN p
  BY DEF SinceAt, RowsOf
<1>2. S \in SUBSET Nat /\ IsFiniteSet(S)
  BY <1>1, PositionsAre, FS_Subset
<1>3. Since(p, s, start) = [k \in DOMAIN e |-> p[e[k]]]
  BY DEF Since, SinceAt
<1> HIDE DEF S
<1>4. Ascends(e, S)
  BY <1>2, SortedAscends
<1> HIDE DEF e
<1>5. n \in Nat /\ DOMAIN e = 1 .. n /\ \A k \in 1 .. n : e[k] \in S
  BY <1>4 DEF Ascends
<1>6. \A k \in 1 .. n : p[e[k]] \in T
  BY <1>1, <1>5, PositionsAre
<1>7. Since(p, s, start) = [k \in 1 .. n |-> p[e[k]]]
  BY <1>3, <1>5
<1>8. Since(p, s, start) \in Seq(T) /\ Len(Since(p, s, start)) = n
  BY <1>5, <1>6, <1>7
<1> QED BY <1>1, <1>2, <1>4, <1>7, <1>8 DEF S, e, Lists

LEMMA SinceGrows ==
  ASSUME NEW T, NEW p \in Seq(T), NEW r \in T, NEW s, NEW start \in Nat, start =< Len(p)
  PROVE  Since(Append(p, r), s, start) =
           IF r.session_id = s THEN Append(Since(p, s, start), r) ELSE Since(p, s, start)
<1> DEFINE q == Append(p, r)
           S == SinceAt(p, s, start)
           U == SinceAt(q, s, start)
           m == Len(p) + 1
           e == Sorted(S, <)
           f == Sorted(U, <)
           n == Cardinality(S)
<1>1. /\ q \in Seq(T) /\ m \in Nat /\ DOMAIN q = DOMAIN p \cup {m} /\ q[m] = r
      /\ \A i \in DOMAIN p : q[i] = p[i] /\ i < m
  <2>1. Len(p) \in Nat /\ DOMAIN p = 1 .. Len(p)
    BY PositionsAre
  <2>2. q \in Seq(T) /\ DOMAIN q = 1 .. m /\ q[m] = r
    OBVIOUS
  <2>3. \A i \in 1 .. Len(p) : q[i] = p[i]
    OBVIOUS
  <2>4. 1 .. m = (1 .. Len(p)) \cup {m} /\ \A i \in 1 .. Len(p) : i < m
    BY <2>1
  <2> HIDE DEF q, m
  <2> QED BY <2>1, <2>2, <2>3, <2>4 DEF m
<1>2. /\ S \in SUBSET DOMAIN p /\ S \in SUBSET Nat /\ IsFiniteSet(S) /\ Ascends(e, S)
      /\ Since(p, s, start) = [k \in 1 .. n |-> p[e[k]]]
      /\ Since(p, s, start) \in Seq(T) /\ Len(Since(p, s, start)) = n
  <2>1. Lists(Since(p, s, start), p, T, S, e)
    BY SinceIs
  <2> HIDE DEF S, e
  <2> QED BY <2>1 DEF Lists
<1>3. Since(q, s, start) = [k \in 1 .. Cardinality(U) |-> q[f[k]]] /\ Ascends(f, U)
  <2> HIDE DEF q
  <2>1. Lists(Since(q, s, start), q, T, U, f)
    BY <1>1, SinceIs
  <2> HIDE DEF U, f
  <2> QED BY <2>1 DEF Lists
<1>4. m > start
  BY PositionsAre
<1> HIDE DEF q, m
<1>5. CASE r.session_id = s
  <2>1. U = S \cup {m}
    BY <1>1, <1>4, <1>5 DEF SinceAt, RowsOf
  <2>2. \A i \in S : i < m
    BY <1>1, <1>2
  <2> HIDE DEF S, U
  <2>3. /\ n \in Nat /\ DOMAIN f = 1 .. n + 1
        /\ f[n + 1] = m /\ \A k \in 1 .. n : f[k] = e[k] /\ e[k] \in S
    <3>1. Grown(Sorted(S \cup {m}, <), Sorted(S, <), S, m)
      BY <1>1, <1>2, <2>2, SortedGrows
    <3>2. Grown(f, e, S, m)
      BY <2>1, <3>1
    <3> HIDE DEF e, f
    <3> QED BY <3>2 DEF Grown
  <2> HIDE DEF e, f
  <2>4. Cardinality(U) = n + 1
    <3>1. m \notin S
      BY <1>2, <2>2
    <3> QED BY <1>2, <2>1, <3>1, FS_AddElement
  <2>5. \A k \in 1 .. n : q[f[k]] = p[e[k]]
    BY <1>1, <1>2, <2>3
  <2>6. Since(q, s, start) = [k \in 1 .. n + 1 |-> IF k = n + 1 THEN r ELSE p[e[k]]]
    BY <1>1, <1>3, <2>3, <2>4, <2>5
  <2> HIDE DEF n
  <2>7. PICK z \in Seq(T) : z = Since(p, s, start) /\ z = [k \in 1 .. n |-> p[e[k]]]
               /\ Len(z) = n
    BY <1>2
  <2>8. Append(z, r) = [k \in 1 .. n + 1 |-> IF k = n + 1 THEN r ELSE p[e[k]]]
    BY <2>3, <2>7
  <2> QED BY <1>5, <2>6, <2>7, <2>8 DEF q
<1>6. CASE r.session_id # s
  <2>1. U = S
    BY <1>1, <1>4, <1>6 DEF SinceAt, RowsOf
  <2>2. \A k \in 1 .. n : q[e[k]] = p[e[k]]
    BY <1>1, <1>2 DEF Ascends
  <2> HIDE DEF S, U
  <2>3. f = e /\ Cardinality(U) = n
    BY <2>1
  <2> HIDE DEF e, f, n
  <2>4. Since(q, s, start) = [k \in 1 .. n |-> p[e[k]]]
    BY <1>3, <2>2, <2>3
  <2> QED BY <1>2, <1>6, <2>4 DEF q
<1> QED BY <1>5, <1>6

\* How many a window of n takes of q, and which.
Room(q, n) == IF n =< Len(q) THEN n ELSE Len(q)
Latest(q, n) == [k \in 1 .. Room(q, n) |-> q[Len(q) - Room(q, n) + k]]

LEMMA LastOfIs ==
  ASSUME NEW T, NEW q \in Seq(T), NEW n \in Nat
  PROVE  /\ Room(q, n) \in Nat /\ Room(q, n) =< Len(q)
         /\ LastOf(q, n) = Latest(q, n) /\ LastOf(q, n) \in Seq(T)
         /\ Len(LastOf(q, n)) = Room(q, n)
<1>1. Len(q) \in Nat
  OBVIOUS
<1>2. Min({n, Len(q)}) = Room(q, n)
  <2>1. Room(q, n) \in {n, Len(q)} /\ \A y \in {n, Len(q)} : Room(q, n) =< y
    BY <1>1 DEF Room
  <2>2. ASSUME NEW x \in {n, Len(q)}, \A y \in {n, Len(q)} : x =< y PROVE x = Room(q, n)
    BY <1>1, <2>2 DEF Room
  <2> QED BY <2>1, <2>2 DEF Min
<1>3. PICK m \in Nat : m = Room(q, n) /\ m =< Len(q)
  BY <1>1 DEF Room
<1>4. LastOf(q, n) = SubSeq(q, Len(q) - m + 1, Len(q))
  BY <1>2, <1>3 DEF LastOf
<1>5. PICK z \in Seq(T) : /\ z = LastOf(q, n) /\ Len(z) = m
                          /\ \A k \in 1 .. m : z[k] = q[Len(q) - m + k]
  <2>1. /\ Len(SubSeq(q, Len(q) - m + 1, Len(q))) = m
        /\ SubSeq(q, Len(q) - m + 1, Len(q)) \in Seq(T)
    BY <1>1, <1>3
  <2>2. \A k \in 1 .. m : SubSeq(q, Len(q) - m + 1, Len(q))[k] = q[Len(q) - m + k]
    BY <1>1, <1>3
  <2> QED BY <1>4, <2>1, <2>2
<1>6. z = [k \in 1 .. m |-> q[Len(q) - m + k]]
  BY <1>5
<1> QED BY <1>3, <1>5, <1>6 DEF Latest

\* A deque holds the last of what was pushed.
LEMMA PushedIs ==
  ASSUME NEW T, NEW q \in Seq(T), NEW n \in Nat, NEW x \in T
  PROVE  Pushed(LastOf(q, n), x, n) = LastOf(Append(q, x), n)
<1> DEFINE m == Room(q, n)
           c == Len(q)
           r == LastOf(q, n)
           a == Append(q, x)
           b == Append(r, x)
<1>1. /\ m \in Nat /\ m =< c /\ c \in Nat /\ r \in Seq(T) /\ Len(r) = m
      /\ \A k \in 1 .. m : r[k] = q[c - m + k]
  <2>1. m \in Nat /\ m =< c /\ r = Latest(q, n) /\ r \in Seq(T) /\ Len(r) = m
    BY LastOfIs
  <2> HIDE DEF r
  <2> QED BY <2>1 DEF Latest
<1>2. m = IF n =< c THEN n ELSE c
  BY DEF Room
<1>3. /\ a \in Seq(T) /\ Len(a) = c + 1 /\ a[c + 1] = x /\ \A k \in 1 .. c : a[k] = q[k]
  OBVIOUS
<1>4. /\ b \in Seq(T) /\ Len(b) = m + 1 /\ b[m + 1] = x /\ \A k \in 1 .. m : b[k] = r[k]
  BY <1>1
<1>5. /\ LastOf(a, n) = Latest(a, n)
      /\ LastOf(b, n) = Latest(b, n)
  BY <1>3, <1>4, LastOfIs
<1> HIDE DEF m, c, r, a, b
<1>6. Room(a, n) = Room(b, n)
  BY <1>1, <1>2, <1>3, <1>4 DEF Room
<1>7. PICK z \in Nat : z = Room(b, n) /\ z =< m + 1 /\ z =< c + 1
  BY <1>1, <1>4 DEF Room
<1>8. ASSUME NEW k \in 1 .. z PROVE a[c + 1 - z + k] = b[m + 1 - z + k]
  <2>1. CASE k = z
    BY <1>1, <1>3, <1>4, <1>7, <2>1
  <2>2. CASE k < z
    <3>1. m \in Nat /\ c \in Nat /\ m =< c /\ z =< m + 1
      BY <1>1, <1>7
    <3>2. PICK i \in Int : i = m + 1 - z + k
      BY <3>1
    <3>3. i \in 1 .. m /\ c - m + i = c + 1 - z + k /\ c - m + i \in 1 .. c
      BY <2>2, <3>1, <3>2
    <3>4. b[i] = r[i] /\ r[i] = q[c - m + i] /\ a[c - m + i] = q[c - m + i]
      BY <1>1, <1>3, <1>4, <3>3
    <3> QED BY <3>2, <3>3, <3>4
  <2> QED BY <2>1, <2>2
<1>9. LastOf(a, n) = LastOf(b, n)
  <2>1. Room(a, n) = z /\ Room(b, n) = z /\ Len(a) = c + 1 /\ Len(b) = m + 1
    BY <1>3, <1>4, <1>6, <1>7
  <2>2. ASSUME NEW k \in 1 .. z
        PROVE  a[Len(a) - Room(a, n) + k] = b[Len(b) - Room(b, n) + k]
    <3>1. /\ Len(a) - Room(a, n) + k = c + 1 - z + k
          /\ Len(b) - Room(b, n) + k = m + 1 - z + k
      BY <1>1, <2>1
    <3> QED BY <1>8, <3>1
  <2>3. [k \in 1 .. Room(a, n) |-> a[Len(a) - Room(a, n) + k]] =
          [k \in 1 .. Room(b, n) |-> b[Len(b) - Room(b, n) + k]]
    BY <2>1, <2>2
  <2> QED BY <1>5, <2>3 DEF Latest
<1> QED BY <1>9 DEF Pushed, r, a, b

\* A window of a longer window.
LEMMA LastOfLast ==
  ASSUME NEW T, NEW q \in Seq(T), NEW n \in Nat, NEW w \in Nat, w =< n
  PROVE  LastOf(LastOf(q, n), w) = LastOf(q, w)
<1> DEFINE m == Room(q, n)
           c == Len(q)
           r == LastOf(q, n)
<1>1. /\ m \in Nat /\ m =< c /\ c \in Nat /\ r \in Seq(T) /\ Len(r) = m
      /\ \A k \in 1 .. m : r[k] = q[c - m + k]
  <2>1. m \in Nat /\ m =< c /\ r = Latest(q, n) /\ r \in Seq(T) /\ Len(r) = m
    BY LastOfIs
  <2> HIDE DEF r
  <2> QED BY <2>1 DEF Latest
<1>2. m = IF n =< c THEN n ELSE c
  BY DEF Room
<1>3. /\ LastOf(q, w) = Latest(q, w) /\ LastOf(r, w) = Latest(r, w)
      /\ Room(q, w) \in Nat /\ Room(q, w) =< c
  BY <1>1, LastOfIs
<1> HIDE DEF m, r
<1>4. PICK z \in Nat : z = Room(q, w) /\ z = Room(r, w) /\ z =< m
  BY <1>1, <1>2, <1>3 DEF Room
<1>5. \A k \in 1 .. z : r[m - z + k] = q[c - z + k]
  <2> SUFFICES ASSUME NEW k \in 1 .. z PROVE r[m - z + k] = q[c - z + k]
    OBVIOUS
  <2>1. PICK i \in 1 .. m : i = m - z + k /\ c - m + i = c - z + k
    BY <1>1, <1>4
  <2> QED BY <1>1, <2>1
<1>6. LastOf(r, w) = LastOf(q, w)
  BY <1>1, <1>3, <1>4, <1>5 DEF Latest
<1> QED BY <1>6 DEF r

---------------------------------------------------------------------------
(* What the monitors remember.                                             *)

IdentityCheck ==
  [session_id : Sessions, outcome : {"match", "mismatch", "not_assessable"}, recorded_ms : Nat]

AudioCheck ==
  [session_id : Sessions, transcript_id : Nat, label : IntentLabels, recorded_ms : Nat]

ChecksTyped ==
  /\ db.identity_checks \in Seq(IdentityCheck) /\ db.audio_checks \in Seq(AudioCheck)
  /\ boot.checks \in Nat /\ boot.checks =< Len(db.identity_checks)
  /\ boot.audio \in Nat /\ boot.audio =< Len(db.audio_checks)
  /\ boot.flags =< Len(db.violations)
  /\ DOMAIN enrolled = Sessions /\ DOMAIN audio = Sessions
  /\ \A s \in Sessions : enrolled[s] \in Nat /\ enrolled[s] =< Len(db.identity_checks)

\* The deque of labels is that of the stored ones, and the status follows it.
AudioRemembers ==
  \A s \in Sessions :
    /\ audio[s].recent = LastOf(Labels(db, s, boot.audio), RecentLabels)
    /\ audio[s].status = IF HelpIn(Judged(audio[s].recent)) >= HelpRequired
                         THEN "sustained_help_suspected" ELSE "quiet"

\* So is the deque of outcomes, but an enrolment takes the status back until
\* the next probe.
VerifierRemembers ==
  \A s \in Sessions \ failed :
    /\ verifier[s].recent = LastOf(Outcomes(db, s, boot.checks), RecentOutcomes)
    /\ Outcomes(db, s, enrolled[s]) # <<>>
         /\ Mismatched(verifier[s].recent) >= MismatchesRequired
         => verifier[s].status \in {"mismatch_suspected", "unobservable"}

\* A flag of the process, in its store.
Flagged(d, start, s, rule) ==
  \E i \in DOMAIN d.violations :
    i > start.flags /\ d.violations[i].session_id = s /\ d.violations[i].rule_id = rule

ConclusionsAreFlagged ==
  \A s \in Sessions \ failed :
    /\ verifier[s].status \in {"mismatch_suspected", "unobservable"} =>
         Flagged(db, boot, s, IdentityRule(verifier[s].status))
    /\ audio[s].status = "sustained_help_suspected" =>
         Flagged(db, boot, s, "audio_seeking_help")

RemembersInv == ChecksTyped /\ AudioRemembers /\ VerifierRemembers /\ ConclusionsAreFlagged

ProbeOutcomes == {"match", "mismatch", "not_assessable"}

LEMMA OutcomesAre ==
  ASSUME NEW d, d.identity_checks \in Seq(IdentityCheck), NEW s, NEW start
  PROVE  Outcomes(d, s, start) \in Seq(ProbeOutcomes)
<1>1. PICK z \in Seq(IdentityCheck) : z = Since(d.identity_checks, s, start)
  <2>1. Lists(Since(d.identity_checks, s, start), d.identity_checks, IdentityCheck,
              SinceAt(d.identity_checks, s, start),
              Sorted(SinceAt(d.identity_checks, s, start), <))
    BY SinceIs
  <2> QED BY <2>1 DEF Lists
<1>2. Outcomes(d, s, start) = [i \in DOMAIN z |-> z[i].outcome]
  BY <1>1 DEF Outcomes
<1>3. DOMAIN z = 1 .. Len(z) /\ Len(z) \in Nat /\ \A i \in DOMAIN z : z[i] \in IdentityCheck
  BY PositionsAre
<1>4. \A i \in DOMAIN z : z[i].outcome \in ProbeOutcomes
  BY <1>3 DEF IdentityCheck, ProbeOutcomes
<1> QED BY <1>2, <1>3, <1>4

\* A check is added to those of d.
ChecksGrow(d, e, r, start) ==
  /\ d.identity_checks \in Seq(IdentityCheck) /\ r \in IdentityCheck
  /\ e.identity_checks = Append(d.identity_checks, r)
  /\ start \in Nat /\ start =< Len(d.identity_checks)

LEMMA OutcomesGrow ==
  ASSUME NEW d, NEW e, NEW r, NEW start, ChecksGrow(d, e, r, start), NEW s
  PROVE  Outcomes(e, s, start) =
           IF r.session_id = s THEN Append(Outcomes(d, s, start), r.outcome)
           ELSE Outcomes(d, s, start)
<1>0. /\ d.identity_checks \in Seq(IdentityCheck) /\ r \in IdentityCheck
      /\ e.identity_checks = Append(d.identity_checks, r)
      /\ start \in Nat /\ start =< Len(d.identity_checks)
  BY DEF ChecksGrow
<1>1. PICK z \in Seq(IdentityCheck) : z = Since(d.identity_checks, s, start)
  <2>1. Lists(Since(d.identity_checks, s, start), d.identity_checks, IdentityCheck,
              SinceAt(d.identity_checks, s, start),
              Sorted(SinceAt(d.identity_checks, s, start), <))
    BY <1>0, SinceIs
  <2> QED BY <2>1 DEF Lists
<1>2. Since(e.identity_checks, s, start) = IF r.session_id = s THEN Append(z, r) ELSE z
  <2>1. Since(Append(d.identity_checks, r), s, start) =
          IF r.session_id = s THEN Append(Since(d.identity_checks, s, start), r)
          ELSE Since(d.identity_checks, s, start)
    BY <1>0, SinceGrows
  <2> QED BY <1>0, <1>1, <2>1
<1>3. Outcomes(d, s, start) = [i \in DOMAIN z |-> z[i].outcome]
  BY <1>1 DEF Outcomes
<1>4. CASE r.session_id # s
  BY <1>2, <1>3, <1>4 DEF Outcomes
<1>5. CASE r.session_id = s
  <2>1. PICK y : y = Append(z, r)
    BY <1>0
  <2>2. Outcomes(e, s, start) = [i \in DOMAIN y |-> y[i].outcome]
    BY <1>2, <1>5, <2>1 DEF Outcomes
  <2>3. /\ Len(z) \in Nat /\ DOMAIN z = 1 .. Len(z) /\ DOMAIN y = 1 .. Len(z) + 1
        /\ y[Len(z) + 1] = r /\ \A i \in 1 .. Len(z) : y[i] = z[i]
    BY <1>0, <2>1
  <2>4. PICK q \in Seq(ProbeOutcomes) : q = Outcomes(d, s, start)
    BY <1>0, OutcomesAre
  <2>5. Len(q) = Len(z) /\ \A i \in 1 .. Len(z) : q[i] = z[i].outcome
    BY <1>3, <2>3, <2>4
  <2>6. Append(q, r.outcome) = [i \in 1 .. Len(z) + 1 |-> y[i].outcome]
    BY <2>3, <2>4, <2>5
  <2> QED BY <1>5, <2>2, <2>3, <2>4, <2>6
<1> QED BY <1>4, <1>5

LEMMA LabelsAre ==
  ASSUME NEW d, d.audio_checks \in Seq(AudioCheck), NEW s, NEW start
  PROVE  Labels(d, s, start) \in Seq(IntentLabels)
<1>1. PICK z \in Seq(AudioCheck) : z = Since(d.audio_checks, s, start)
  <2>1. Lists(Since(d.audio_checks, s, start), d.audio_checks, AudioCheck,
              SinceAt(d.audio_checks, s, start),
              Sorted(SinceAt(d.audio_checks, s, start), <))
    BY SinceIs
  <2> QED BY <2>1 DEF Lists
<1>2. Labels(d, s, start) = [i \in DOMAIN z |-> z[i].label]
  BY <1>1 DEF Labels
<1>3. DOMAIN z = 1 .. Len(z) /\ Len(z) \in Nat /\ \A i \in DOMAIN z : z[i] \in AudioCheck
  BY PositionsAre
<1>4. \A i \in DOMAIN z : z[i].label \in IntentLabels
  BY <1>3 DEF AudioCheck
<1> QED BY <1>2, <1>3, <1>4

LEMMA LabelsGrow ==
  ASSUME NEW d, NEW e, d.audio_checks \in Seq(AudioCheck), NEW r \in AudioCheck,
         e.audio_checks = Append(d.audio_checks, r),
         NEW s, NEW start \in Nat, start =< Len(d.audio_checks)
  PROVE  Labels(e, s, start) =
           IF r.session_id = s THEN Append(Labels(d, s, start), r.label)
           ELSE Labels(d, s, start)
<1>1. PICK z \in Seq(AudioCheck) : z = Since(d.audio_checks, s, start)
  <2>1. Lists(Since(d.audio_checks, s, start), d.audio_checks, AudioCheck,
              SinceAt(d.audio_checks, s, start),
              Sorted(SinceAt(d.audio_checks, s, start), <))
    BY SinceIs
  <2> QED BY <2>1 DEF Lists
<1>2. Since(e.audio_checks, s, start) = IF r.session_id = s THEN Append(z, r) ELSE z
  <2>1. Since(Append(d.audio_checks, r), s, start) =
          IF r.session_id = s THEN Append(Since(d.audio_checks, s, start), r)
          ELSE Since(d.audio_checks, s, start)
    BY SinceGrows
  <2> QED BY <1>1, <2>1
<1>3. Labels(d, s, start) = [i \in DOMAIN z |-> z[i].label]
  BY <1>1 DEF Labels
<1>4. CASE r.session_id # s
  BY <1>2, <1>3, <1>4 DEF Labels
<1>5. CASE r.session_id = s
  <2>1. PICK y : y = Append(z, r)
    OBVIOUS
  <2>2. Labels(e, s, start) = [i \in DOMAIN y |-> y[i].label]
    BY <1>2, <1>5, <2>1 DEF Labels
  <2>3. /\ Len(z) \in Nat /\ DOMAIN z = 1 .. Len(z) /\ DOMAIN y = 1 .. Len(z) + 1
        /\ y[Len(z) + 1] = r /\ \A i \in 1 .. Len(z) : y[i] = z[i]
    BY <2>1
  <2>4. PICK q \in Seq(IntentLabels) : q = Labels(d, s, start)
    BY LabelsAre
  <2>5. Len(q) = Len(z) /\ \A i \in 1 .. Len(z) : q[i] = z[i].label
    BY <1>3, <2>3, <2>4
  <2>6. Append(q, r.label) = [i \in 1 .. Len(z) + 1 |-> y[i].label]
    BY <2>3, <2>4, <2>5
  <2> QED BY <1>5, <2>2, <2>3, <2>4, <2>6
<1> QED BY <1>4, <1>5

\* A process that starts has written nothing.
LEMMA NothingYet ==
  ASSUME NEW T, NEW p \in Seq(T), NEW s
  PROVE  Since(p, s, Len(p)) = <<>>
<1>1. Lists(Since(p, s, Len(p)), p, T, SinceAt(p, s, Len(p)), Sorted(SinceAt(p, s, Len(p)), <))
  BY SinceIs
<1>2. SinceAt(p, s, Len(p)) = {}
  BY PositionsAre DEF SinceAt, RowsOf
<1>3. Cardinality(SinceAt(p, s, Len(p))) = 0
  BY <1>2, FS_EmptySet
<1>4. Since(p, s, Len(p)) \in Seq(T) /\ Len(Since(p, s, Len(p))) = 0
  BY <1>1, <1>3 DEF Lists
<1> QED BY <1>4

\* A window without anything in it.
LEMMA EmptyWindow ==
  /\ \A n \in Nat : LastOf(<<>>, n) = <<>>
  /\ Mismatched(<<>>) = 0 /\ HelpIn(<<>>) = 0
<1>1. ASSUME NEW n \in Nat PROVE LastOf(<<>>, n) = <<>>
  <2>1. <<>> \in Seq({}) /\ Len(<<>>) = 0
    OBVIOUS
  <2>2. LastOf(<<>>, n) \in Seq({}) /\ Room(<<>>, n) =< 0 /\ Room(<<>>, n) \in Nat
        /\ Len(LastOf(<<>>, n)) = Room(<<>>, n)
    BY <2>1, LastOfIs
  <2> QED BY <2>2
<1>2. DOMAIN <<>> = {}
  OBVIOUS
<1>3. {i \in Assessed(<<>>) : <<>>[i] = "mismatch"} = {}
  BY <1>2 DEF Assessed, Assessable
<1>4. {i \in DOMAIN <<>> : <<>>[i] = "seeking_help"} = {}
  BY <1>2
<1> QED BY <1>1, <1>3, <1>4, FS_EmptySet DEF Mismatched, HelpIn

\* What a probe and an enrolment leave in the verifier.
LEMMA ProbeConcludes ==
  ASSUME NEW v, IsIdentity(v), NEW o
  PROVE  /\ Probe(v, o).recent = Pushed(v.recent, o, RecentOutcomes)
         /\ Mismatched(Probe(v, o).recent) >= MismatchesRequired =>
              Probe(v, o).status \in {"mismatch_suspected", "unobservable"}
         /\ Probe(v, o).status \in {"mismatch_suspected", "unobservable"} =>
              Probe(v, o).status = v.status \/ Probe(v, o).status \in Reportable
<1> DEFINE recent == Pushed(v.recent, o, RecentOutcomes)
           run == IF o = "not_assessable" THEN v.unassessable_run + 1 ELSE 0
           seen == [v EXCEPT !.recent = recent, !.unassessable_run = run]
           status == Evaluate(seen)
<1>1. Probe(v, o) = [seen EXCEPT !.status = status]
  BY DEF Probe
<1> HIDE DEF recent, run, status
<1>2. PICK a, b, c, e :
        v = [enrolment |-> a, recent |-> b, unassessable_run |-> c, status |-> e]
  BY DEF IsIdentity
<1>3. seen = [enrolment |-> a, recent |-> recent, unassessable_run |-> run, status |-> e]
  <2>1. PICK w : w = [v EXCEPT !.recent = recent]
    OBVIOUS
  <2>2. w = [enrolment |-> a, recent |-> recent, unassessable_run |-> c, status |-> e]
    BY <1>2, <2>1
  <2>3. [w EXCEPT !.unassessable_run = run] =
          [enrolment |-> a, recent |-> recent, unassessable_run |-> run, status |-> e]
    BY <2>2
  <2> QED BY <2>1, <2>3
<1> HIDE DEF seen
<1>4. Probe(v, o).recent = recent /\ Probe(v, o).status = status
  BY <1>1, <1>3
<1>5. seen.recent = recent
  BY <1>3
<1>6. ASSUME Mismatched(recent) >= MismatchesRequired
      PROVE  status \in {"mismatch_suspected", "unobservable"}
  <2>1. Assessable(recent) # {}
    <3>1. SUFFICES ASSUME Assessable(recent) = {} PROVE FALSE
      OBVIOUS
    <3>2. {i \in Assessed(recent) : recent[i] = "mismatch"} = {}
      BY <3>1 DEF Assessed
    <3>3. Mismatched(recent) = 0
      BY <3>2, FS_EmptySet DEF Mismatched
    <3> QED BY <1>6, <3>3, VerificationAssumption
  <2> QED BY <1>5, <1>6, <2>1 DEF status, Evaluate
<1> QED BY <1>4, <1>6 DEF recent, Reportable

LEMMA EnrolForgets ==
  ASSUME NEW v, IsIdentity(v), NEW r
  PROVE  Enrol(v, r).recent = v.recent /\ Enrol(v, r).status = "unverified"
<1>1. PICK a, b, c, e :
        v = [enrolment |-> a, recent |-> b, unassessable_run |-> c, status |-> e]
  BY DEF IsIdentity
<1>2. PICK w : w = [v EXCEPT !.enrolment = r]
  OBVIOUS
<1>3. w = [enrolment |-> r, recent |-> b, unassessable_run |-> c, status |-> e]
  BY <1>1, <1>2
<1>4. [w EXCEPT !.status = "unverified"] =
        [enrolment |-> r, recent |-> b, unassessable_run |-> c, status |-> "unverified"]
  BY <1>3
<1>5. Enrol(v, r) = [w EXCEPT !.status = "unverified"]
  BY <1>2 DEF Enrol
<1> QED BY <1>1, <1>4, <1>5

\* The tables of checks, and the methods that leave them alone.
KeepsChecks(d, e) == e.identity_checks = d.identity_checks /\ e.audio_checks = d.audio_checks

LEMMA ChecksAreKept ==
  ASSUME NEW d, IsStore(d)
  PROVE  /\ \A s, t : KeepsChecks(d, SaveSession(d, s, t))
         /\ \A s, m, r, t : KeepsChecks(d, SaveTemplate(d, s, m, r, t))
         /\ \A id, s, t : KeepsChecks(d, SaveTranscript(d, id, s, t))
         /\ \A v, t : KeepsChecks(d, AppendViolation(d, v, t))
         /\ \A v, s, t : KeepsChecks(d, SaveSession(AppendViolation(d, v, t), s, t))
<1>1. ASSUME NEW e, IsStore(e), NEW s, NEW t PROVE KeepsChecks(e, SaveSession(e, s, t))
  <2>1. PICK x : x = Upsert(e.sessions, s, [updated_ms |-> t])
    OBVIOUS
  <2>2. SaveSession(e, s, t) = [e EXCEPT !.sessions = x]
    BY <2>1 DEF SaveSession
  <2> QED BY <1>1, <2>2 DEF IsStore, KeepsChecks
<1>2. ASSUME NEW s, NEW m, NEW r, NEW t PROVE KeepsChecks(d, SaveTemplate(d, s, m, r, t))
  <2>1. PICK x : x = Upsert(d.identity_templates, s,
                            [embedder |-> m, reference |-> r, created_ms |-> t])
    OBVIOUS
  <2>2. SaveTemplate(d, s, m, r, t) = [d EXCEPT !.identity_templates = x]
    BY <2>1 DEF SaveTemplate
  <2> QED BY <2>2 DEF IsStore, KeepsChecks
<1>3. ASSUME NEW id, NEW s, NEW t PROVE KeepsChecks(d, SaveTranscript(d, id, s, t))
  <2>1. PICK x : x = Upsert(d.audio_transcripts, id, [session_id |-> s, recorded_ms |-> t])
    OBVIOUS
  <2>2. SaveTranscript(d, id, s, t) = [d EXCEPT !.audio_transcripts = x]
    BY <2>1 DEF SaveTranscript
  <2> QED BY <2>2 DEF IsStore, KeepsChecks
<1>4. ASSUME NEW v, NEW t PROVE KeepsChecks(d, AppendViolation(d, v, t))
  <2>1. PICK x : x = Append(d.violations, RowFor(v, t))
    OBVIOUS
  <2>2. AppendViolation(d, v, t) = [d EXCEPT !.violations = x]
    BY <2>1 DEF AppendViolation, RowFor
  <2> QED BY <2>2 DEF IsStore, KeepsChecks
<1>5. ASSUME NEW v, NEW s, NEW t
      PROVE  KeepsChecks(d, SaveSession(AppendViolation(d, v, t), s, t))
  <2>1. PICK e : e = AppendViolation(d, v, t)
    OBVIOUS
  <2>2. IsStore(e) /\ KeepsChecks(d, e)
    BY <1>4, <2>1, ViolationAppended DEF SameBut
  <2>3. KeepsChecks(e, SaveSession(e, s, t))
    BY <1>1, <2>2
  <2> QED BY <2>1, <2>2, <2>3 DEF KeepsChecks
<1> QED BY <1>1, <1>2, <1>3, <1>4, <1>5

\* The rows of a check.
ProbeRow(s, o, t) == [session_id |-> s, outcome |-> o, recorded_ms |-> t]
LabelRow(s, id, label, t) ==
  [session_id |-> s, transcript_id |-> id, label |-> label, recorded_ms |-> t]

LEMMA ChecksAppend ==
  ASSUME NEW d, IsStore(d), NEW s, NEW x, NEW t
  PROVE  /\ AppendIdentityCheck(d, s, x, t).identity_checks =
              Append(d.identity_checks, ProbeRow(s, x, t))
         /\ AppendIdentityCheck(d, s, x, t).audio_checks = d.audio_checks
         /\ \A y : /\ AppendAudioCheck(d, s, x, y, t).audio_checks =
                         Append(d.audio_checks, LabelRow(s, x, y, t))
                   /\ AppendAudioCheck(d, s, x, y, t).identity_checks = d.identity_checks
<1>1. PICK p : p = Append(d.identity_checks, ProbeRow(s, x, t))
  OBVIOUS
<1>2. AppendIdentityCheck(d, s, x, t) = [d EXCEPT !.identity_checks = p]
  BY <1>1 DEF AppendIdentityCheck, ProbeRow
<1>3. ASSUME NEW y
      PROVE  /\ AppendAudioCheck(d, s, x, y, t).audio_checks =
                  Append(d.audio_checks, LabelRow(s, x, y, t))
             /\ AppendAudioCheck(d, s, x, y, t).identity_checks = d.identity_checks
  <2>1. PICK q : q = Append(d.audio_checks, LabelRow(s, x, y, t))
    OBVIOUS
  <2>2. AppendAudioCheck(d, s, x, y, t) = [d EXCEPT !.audio_checks = q]
    BY <2>1 DEF AppendAudioCheck, LabelRow
  <2> QED BY <2>1, <2>2 DEF IsStore
<1> QED BY <1>1, <1>2, <1>3 DEF IsStore

\* What a step of a process does to the monitors and to what they wrote.
Reports(s, rule) ==
  \E v : db'.violations = Append(db.violations, v) /\ v.session_id = s /\ v.rule_id = rule

Stands ==
  /\ UNCHANGED <<verifier, audio, enrolled>> /\ KeepsChecks(db, db')
  /\ db'.violations = db.violations \/ \E s : Reports(s, "rule")

FindingIn(old, new) == new.status # old.status /\ new.status \in Reportable

Probes(s, o) ==
  /\ UNCHANGED <<audio, enrolled>> /\ db'.audio_checks = db.audio_checks
  /\ verifier' = [verifier EXCEPT ![s] = Probe(@, o)]
  /\ \/ KeepsChecks(db, db') /\ db'.violations = db.violations /\ s \in failed'
     \/ /\ db'.identity_checks = Append(db.identity_checks, ProbeRow(s, o, now))
        /\ \/ /\ db'.violations = db.violations
              /\ FindingIn(verifier[s], Probe(verifier[s], o)) => s \in failed'
           \/ /\ FindingIn(verifier[s], Probe(verifier[s], o))
              /\ Reports(s, IdentityRule(Probe(verifier[s], o).status))

Enrols(s, r) ==
  /\ audio' = audio /\ KeepsChecks(db, db') /\ db'.violations = db.violations
  /\ verifier' = [verifier EXCEPT ![s] = Enrol(@, r)]
  /\ enrolled' = [enrolled EXCEPT ![s] = Len(db.identity_checks)]

Sustained(old, new) == new.status # old.status /\ new.status # "quiet"

Hears(s, id, label, t) ==
  /\ UNCHANGED <<verifier, enrolled>> /\ db'.identity_checks = db.identity_checks
  /\ audio' = [audio EXCEPT ![s] = Record(@, label)]
  /\ db'.audio_checks = Append(db.audio_checks, LabelRow(s, id, label, t))
  /\ \/ /\ db'.violations = db.violations
        /\ Sustained(audio[s], Record(audio[s], label)) => s \in failed'
     \/ /\ Sustained(audio[s], Record(audio[s], label))
        /\ Reports(s, "audio_seeking_help")

MonitorStep ==
  \/ Stands
  \/ \E s \in registry, o \in ProbeOutcomes : Probes(s, o)
  \/ \E s \in registry : \E r : Enrols(s, r)
  \/ \E s \in registry, id \in Nat, label \in IntentLabels, t \in Nat : Hears(s, id, label, t)

LEMMA OutcomeIs ==
  ASSUME NEW a, NEW b, NEW issues
  PROVE  Compare(a, b, issues) \in ProbeOutcomes
BY DEF Compare, ProbeOutcomes

LEMMA JudgeIsProbe ==
  ASSUME Typed, NEW s, NEW o, NEW write, Judge(s, o, write), write # "none" => s \in failed'
  PROVE  Probes(s, o)
<1> DEFINE state == Probe(verifier[s], o)
           flag == Violation(s, uuids, IdentityRule(state.status), FALSE, now, None)
           row == RowFor(flag, now)
<1>1. PICK checked : checked = AppendIdentityCheck(db, s, o, now)
  OBVIOUS
<1>2. /\ IsStore(db) /\ IsStore(checked) /\ checked.violations = db.violations
      /\ checked.identity_checks = Append(db.identity_checks, ProbeRow(s, o, now))
      /\ checked.audio_checks = db.audio_checks
  <2>1. IsStore(db)
    BY TypesOfUse
  <2>2. SameBut(db, checked, {})
    BY <1>1, <2>1, CheckAppended
  <2>3. /\ AppendIdentityCheck(db, s, o, now).identity_checks =
             Append(db.identity_checks, ProbeRow(s, o, now))
        /\ AppendIdentityCheck(db, s, o, now).audio_checks = db.audio_checks
    BY <2>1, ChecksAppend
  <2> QED BY <1>1, <2>1, <2>2, <2>3 DEF SameBut
<1>3. row.session_id = s /\ row.rule_id = IdentityRule(state.status)
  <2>1. PICK rule : rule = IdentityRule(state.status)
    OBVIOUS
  <2>2. PICK v : v = RowFor(Violation(s, uuids, rule, FALSE, now, None), now)
    OBVIOUS
  <2>3. v.session_id = s /\ v.rule_id = rule
    BY <2>2 DEF RowFor, Violation
  <2> QED BY <2>1, <2>2, <2>3
<1>4. /\ AppendViolation(checked, flag, now).violations = Append(db.violations, row)
      /\ KeepsChecks(checked, AppendViolation(checked, flag, now))
  <2> HIDE DEF flag
  <2> QED BY <1>2, ViolationAppended, ChecksAreKept
<1>5. UNCHANGED <<audio, enrolled>> /\ verifier' = [verifier EXCEPT ![s] = Probe(@, o)]
  BY DEF Judge
<1>6. \/ write = "append_identity_check" /\ UNCHANGED <<db, board, uuids>>
      \/ write = "none" /\ ~FindingIn(verifier[s], state) /\ db' = checked
      \/ /\ write \in {"none", "append_violation"} /\ FindingIn(verifier[s], state)
         /\ db' = IF write = "none" THEN AppendViolation(checked, flag, now) ELSE checked
  BY <1>1 DEF Judge, FindingIn
<1> HIDE DEF state, flag, row
<1>7. CASE write = "append_identity_check" /\ UNCHANGED <<db, board, uuids>>
  BY <1>5, <1>7 DEF Probes, KeepsChecks
<1>8. CASE write = "none" /\ ~FindingIn(verifier[s], state) /\ db' = checked
  BY <1>2, <1>5, <1>8 DEF Probes, KeepsChecks, state
<1>9. CASE write = "none" /\ FindingIn(verifier[s], state)
           /\ db' = AppendViolation(checked, flag, now)
  <2>1. Reports(s, IdentityRule(state.status))
    BY <1>3, <1>4, <1>9 DEF Reports
  <2> QED BY <1>2, <1>4, <1>5, <1>9, <2>1 DEF Probes, KeepsChecks, state
<1>10. CASE write = "append_violation" /\ db' = checked
  BY <1>2, <1>5, <1>10 DEF Probes
<1> QED BY <1>6, <1>7, <1>8, <1>9, <1>10

LEMMA RequestsMonitor ==
  ASSUME Typed, CallsTyped, NEW c \in Calls, NEW write,
         \/ \E s \in Sessions :
              \/ BeginChunk(c, s)
              \/ \E captures \in CaptureSets : BeginEnrol(c, s, captures)
              \/ \E face \in Faces : BeginProbe(c, s, face)
         \/ Transcribed(c) \/ Refused(c)
         \/ FinishEnrol(c, write) \/ FinishProbe(c, write)
         \/ \E answer \in Answers : Classified(c, answer, write)
  PROVE  MonitorStep
<1>0. /\ now \in Nat /\ IsStore(db) /\ KeepsChecks(db, db)
      /\ calls[c].kind \in {"enrol", "probe", "transcribing", "classifying"} =>
           calls[c].session \in registry
      /\ calls[c].kind = "classifying" =>
           calls[c].now \in Nat /\ calls[c].transcript \in Nat
  BY TypesOfUse DEF CallsTyped, CallTyped, Typed, StoreTyped, KeepsChecks
<1>1. ASSUME NEW call, Waits(c, call) PROVE Stands
  BY <1>0, <1>1 DEF Waits, Stands
<1>2. ASSUME NEW s \in Sessions,
             \/ BeginChunk(c, s)
             \/ \E captures \in CaptureSets : BeginEnrol(c, s, captures)
             \/ \E face \in Faces : BeginProbe(c, s, face)
      PROVE  Stands
  BY <1>1, <1>2 DEF BeginChunk, BeginEnrol, BeginProbe
<1>3. CASE Transcribed(c)
  <2>1. SameBut(db, db', {"transcripts"}) /\ KeepsChecks(db, db')
    BY <1>0, <1>3, TranscriptSaved, ChecksAreKept DEF Transcribed
  <2> QED BY <1>3, <2>1 DEF Transcribed, Stands, SameBut, MonitorStep
<1>4. CASE Refused(c)
  BY <1>0, <1>4 DEF Refused, Stands, MonitorStep
<1>5. CASE FinishEnrol(c, write)
  <2>1. PICK s \in registry : s = calls[c].session
    BY <1>0, <1>5 DEF FinishEnrol
  <2>2. PICK reference : reference = BuildEnrolment(calls[c].captures)
    OBVIOUS
  <2>3. CASE Consistent(calls[c].captures)
    <3>1. /\ audio' = audio /\ verifier' = [verifier EXCEPT ![s] = Enrol(@, reference)]
          /\ enrolled' = [enrolled EXCEPT ![s] = Len(db.identity_checks)]
          /\ db' = db \/ db' = SaveTemplate(db, s, embedder, reference, now)
      BY <1>5, <2>1, <2>2, <2>3 DEF FinishEnrol
    <3>2. KeepsChecks(db, db') /\ db'.violations = db.violations
      <4>1. /\ SameBut(db, SaveTemplate(db, s, embedder, reference, now), {"templates"})
            /\ KeepsChecks(db, SaveTemplate(db, s, embedder, reference, now))
        BY <1>0, TemplateSaved, ChecksAreKept
      <4> QED BY <1>0, <3>1, <4>1 DEF SameBut
    <3>3. Enrols(s, reference)
      BY <3>1, <3>2 DEF Enrols
    <3> QED BY <3>3 DEF MonitorStep
  <2>4. CASE ~Consistent(calls[c].captures)
    BY <1>0, <1>5, <2>4 DEF FinishEnrol, Stands, MonitorStep
  <2> QED BY <2>3, <2>4
<1>6. CASE FinishProbe(c, write)
  <2>1. PICK s \in registry : s = calls[c].session
    BY <1>0, <1>6 DEF FinishProbe
  <2>2. CASE verifier[s].enrolment = None
    BY <1>0, <1>6, <2>1, <2>2 DEF FinishProbe, Stands, MonitorStep
  <2>3. CASE verifier[s].enrolment # None
    <3>1. PICK o \in ProbeOutcomes : o = Compare(calls[c].face, verifier[s].enrolment, {})
      BY OutcomeIs
    <3>2. Judge(s, o, write) /\ Raises(s, write)
      BY <1>6, <2>1, <2>3, <3>1 DEF FinishProbe
    <3>3. write # "none" => s \in failed'
      BY <3>2 DEF Raises
    <3>4. Probes(s, o)
      BY <3>2, <3>3, JudgeIsProbe
    <3> QED BY <3>4 DEF MonitorStep
  <2> QED BY <2>2, <2>3
<1>7. ASSUME NEW answer \in Answers, Classified(c, answer, write) PROVE MonitorStep
  <2>1. PICK s \in registry, id \in Nat, t \in Nat :
          s = calls[c].session /\ id = calls[c].transcript /\ t = calls[c].now
    BY <1>0, <1>7 DEF Classified
  <2>2. PICK label \in IntentLabels : label = Classify(answer)
    BY DEF Classify, IntentLabels
  <2>3. PICK state : state = Record(audio[s], label)
    OBVIOUS
  <2>4. PICK checked : checked = AppendAudioCheck(db, s, id, label, t)
    OBVIOUS
  <2>5. PICK flag : flag = Violation(s, uuids, "audio_seeking_help", FALSE, t, id)
    OBVIOUS
  <2>6. /\ IsStore(checked) /\ checked.violations = db.violations
        /\ checked.audio_checks = Append(db.audio_checks, LabelRow(s, id, label, t))
        /\ checked.identity_checks = db.identity_checks
    BY <1>0, <2>4, CheckAppended, ChecksAppend DEF SameBut
  <2>7. /\ AppendViolation(checked, flag, now).violations =
             Append(db.violations, RowFor(flag, now))
        /\ KeepsChecks(checked, AppendViolation(checked, flag, now))
        /\ RowFor(flag, now).session_id = s
        /\ RowFor(flag, now).rule_id = "audio_seeking_help"
    <3>1. RowFor(flag, now).session_id = s /\ RowFor(flag, now).rule_id = "audio_seeking_help"
      BY <2>5 DEF RowFor, Violation
    <3> QED BY <2>6, <3>1, ViolationAppended, ChecksAreKept
  <2>8. /\ UNCHANGED <<verifier, enrolled>> /\ Raises(s, write)
        /\ \/ write = "append_audio_check" /\ UNCHANGED <<audio, db>>
           \/ /\ write = "none" /\ ~Sustained(audio[s], state)
              /\ audio' = [audio EXCEPT ![s] = state] /\ db' = checked
           \/ /\ write \in {"none", "append_violation"} /\ Sustained(audio[s], state)
              /\ audio' = [audio EXCEPT ![s] = state]
              /\ db' = IF write = "none" THEN AppendViolation(checked, flag, now) ELSE checked
    BY <1>7, <2>1, <2>2, <2>3, <2>4, <2>5 DEF Classified, Sustained
  <2>9. write # "none" => s \in failed'
    BY <2>8 DEF Raises
  <2>10. CASE UNCHANGED <<audio, db>>
    BY <1>0, <2>8, <2>10 DEF Stands, MonitorStep
  <2>11. CASE /\ audio' = [audio EXCEPT ![s] = state] /\ db' = checked
              /\ Sustained(audio[s], state) => s \in failed'
    <3>1. Hears(s, id, label, t)
      BY <2>3, <2>6, <2>8, <2>11 DEF Hears
    <3> QED BY <3>1 DEF MonitorStep
  <2>12. CASE /\ audio' = [audio EXCEPT ![s] = state] /\ Sustained(audio[s], state)
              /\ db' = AppendViolation(checked, flag, now)
    <3>1. Reports(s, "audio_seeking_help")
      BY <2>7, <2>12 DEF Reports
    <3>2. Hears(s, id, label, t)
      BY <2>3, <2>6, <2>7, <2>8, <2>12, <3>1 DEF Hears, KeepsChecks
    <3> QED BY <3>2 DEF MonitorStep
  <2> QED BY <2>8, <2>9, <2>10, <2>11, <2>12
<1> QED BY <1>2, <1>3, <1>4, <1>5, <1>6, <1>7 DEF MonitorStep

\* The checks of a store, with the one a process left that died in a probe.
ChecksIn(d) ==
  d.identity_checks \in Seq(IdentityCheck) /\ d.audio_checks \in Seq(AudioCheck)

LEMMA MonitorsStepOrStart ==
  ASSUME Typed, CallsTyped, OwnRowsAreKnown, ChecksTyped, [Next]_vars
  PROVE  (Works /\ MonitorStep) \/ \E d : Starts(d) /\ ChecksIn(d)
<1>0. now \in Nat /\ IsStore(db) /\ registry \subseteq Sessions /\ KeepsChecks(db, db)
  BY TypesOfUse DEF KeepsChecks
<1>1. ASSUME NEW s \in Sessions, CreateSession(s) \/ Checkpoint(s)
      PROVE  Works /\ MonitorStep
  <2>1. SameBut(db, SaveSession(db, s, now), {"sessions"})
          /\ KeepsChecks(db, SaveSession(db, s, now))
    BY <1>0, SessionSaved, ChecksAreKept
  <2>2. Stands
    BY <1>1, <2>1 DEF CreateSession, Checkpoint, memory, Stands, SameBut
  <2> QED BY <1>1, <2>2, SessionsWork DEF MonitorStep
<1>2. ASSUME NEW s \in Sessions, NEW write \in Writes, PoorProbe(s, {"no_face"}, write)
      PROVE  Works /\ MonitorStep
  <2>1. PICK o \in ProbeOutcomes : o = Compare(None, verifier[s].enrolment, {"no_face"})
    BY OutcomeIs
  <2>2. /\ s \in registry /\ Judge(s, o, write)
        /\ write # "none" => s \in failed'
    BY <1>2, <2>1 DEF PoorProbe, Raises
  <2>3. Probes(s, o)
    BY <2>2, JudgeIsProbe
  <2> QED BY <1>2, <2>2, <2>3, SessionsWork DEF MonitorStep
<1>3. ASSUME NEW s, NEW id, NEW resolved, NEW flag,
             flag = Violation(s, id, "rule", resolved, now, None),
             \/ db' = AppendViolation(db, flag, now)
             \/ \E x : db' = SaveSession(AppendViolation(db, flag, now), x, now),
             UNCHANGED <<verifier, audio, enrolled>>
      PROVE  MonitorStep
  <2>1. RowFor(flag, now).session_id = s /\ RowFor(flag, now).rule_id = "rule"
    BY <1>3 DEF RowFor, Violation
  <2>2. PICK stored : stored = AppendViolation(db, flag, now)
    OBVIOUS
  <2>3. IsStore(stored) /\ stored.violations = Append(db.violations, RowFor(flag, now))
    BY <1>0, <2>2, ViolationAppended DEF SameBut
  <2>4. ASSUME NEW x PROVE SaveSession(stored, x, now).violations = stored.violations
    <3>1. SameBut(stored, SaveSession(stored, x, now), {"sessions"})
      BY <2>3, SessionSaved
    <3> QED BY <3>1 DEF SameBut
  <2>5. db'.violations = Append(db.violations, RowFor(flag, now))
    BY <1>3, <2>2, <2>3, <2>4
  <2>6. KeepsChecks(db, db')
    BY <1>0, <1>3, ChecksAreKept
  <2>7. Reports(s, "rule")
    BY <2>1, <2>5 DEF Reports
  <2> QED BY <1>3, <2>6, <2>7 DEF Stands, MonitorStep
<1>4. ASSUME NEW s \in Sessions, NEW checkpoint \in BOOLEAN, RuleFlag(s, checkpoint)
      PROVE  Works /\ MonitorStep
  <2>1. Works
    BY <1>4, SessionsWork
  <2>2. PICK flag : flag = Violation(s, uuids, "rule", FALSE, now, None)
    OBVIOUS
  <2>3. /\ \/ db' = AppendViolation(db, flag, now)
           \/ db' = SaveSession(AppendViolation(db, flag, now), s, now)
        /\ UNCHANGED <<verifier, audio, enrolled>>
    BY <1>4, <2>2 DEF RuleFlag
  <2> QED BY <1>3, <2>1, <2>2, <2>3
<1>5. ASSUME NEW i \in DOMAIN db.violations, RuleResolution(i)
      PROVE  Works /\ MonitorStep
  <2>1. Works
    BY <1>5, ResolutionWorks
  <2>2. PICK s, id, flag : /\ s = db.violations[i].session_id /\ id = db.violations[i].id
                           /\ flag = Violation(s, id, "rule", TRUE, now, None)
    OBVIOUS
  <2>3. /\ db' = SaveSession(AppendViolation(db, flag, now), s, now)
        /\ UNCHANGED <<verifier, audio, enrolled>>
    BY <1>5, <2>2 DEF RuleResolution
  <2> QED BY <1>3, <2>1, <2>2, <2>3
<1>6. ASSUME NEW c \in Calls, NEW write \in Writes,
             \/ \E s \in Sessions :
                  \/ BeginChunk(c, s)
                  \/ \E captures \in CaptureSets : BeginEnrol(c, s, captures)
                  \/ \E face \in Faces : BeginProbe(c, s, face)
             \/ Transcribed(c) \/ Refused(c)
             \/ FinishEnrol(c, write) \/ FinishProbe(c, write)
             \/ \E answer \in Answers : Classified(c, answer, write)
      PROVE  Works /\ MonitorStep
  <2>1. Works
    BY <1>6, RequestsWork
  <2>2. MonitorStep
    BY <1>6, RequestsMonitor
  <2> QED BY <2>1, <2>2
<1>7. ASSUME NEW c \in Calls,
             \/ \E s \in Sessions :
                  \/ BeginChunk(c, s)
                  \/ \E captures \in CaptureSets : BeginEnrol(c, s, captures)
                  \/ \E face \in Faces : BeginProbe(c, s, face)
             \/ Transcribed(c) \/ Refused(c)
      PROVE  Works /\ MonitorStep
  <2>1. "none" \in Writes
    BY DEF Writes
  <2> QED BY <1>6, <1>7, <2>1
<1>8. CASE Dies
  <2>0. PICK s \in Sessions : \E face, issues : DiesInProbe(s, face, issues)
    BY <1>8, DiesIn
  <2>1. PICK face, issues : DiesInProbe(s, face, issues)
    BY <2>0
  <2>2. PICK o \in ProbeOutcomes : o = Compare(face, verifier[s].enrolment, issues)
    BY OutcomeIs
  <2>3. PICK d : d = AppendIdentityCheck(db, s, o, now)
    OBVIOUS
  <2>4. Starts(d)
    <3>1. SameBut(db, d, {})
      BY <1>0, <2>3, CheckAppended
    <3> QED BY <2>1, <2>2, <2>3, <3>1 DEF DiesInProbe, Starts
  <2>5. ProbeRow(s, o, now) \in IdentityCheck
    BY <1>0 DEF ProbeRow, IdentityCheck, ProbeOutcomes
  <2>6. /\ d.identity_checks = Append(db.identity_checks, ProbeRow(s, o, now))
        /\ d.audio_checks = db.audio_checks
    BY <1>0, <2>3, ChecksAppend
  <2>7. ChecksIn(d)
    BY <2>5, <2>6 DEF ChecksIn, ChecksTyped
  <2> QED BY <2>4, <2>7
<1>9. CASE Restart
  <2>1. SameBut(db, db, {}) /\ ChecksIn(db)
    BY <1>0 DEF SameBut, ChecksIn, ChecksTyped
  <2> QED BY <1>9, <2>1 DEF Restart, Starts
<1>10. CASE Day \/ StepBack \/ UNCHANGED vars
  <2>1. Works
    BY <1>10, TimeWorks
  <2>2. Stands
    BY <1>0, <1>10 DEF Day, StepBack, vars, memory, Stands
  <2> QED BY <2>1, <2>2 DEF MonitorStep
<1> QED BY <1>1, <1>2, <1>4, <1>5, <1>6, <1>7, <1>8, <1>9, <1>10 DEF Next, Dies

LEMMA NoneYet ==
  ASSUME NEW d, ChecksIn(d), NEW s
  PROVE  /\ Outcomes(d, s, Len(d.identity_checks)) = <<>>
         /\ Labels(d, s, Len(d.audio_checks)) = <<>>
<1>1. /\ Since(d.identity_checks, s, Len(d.identity_checks)) = <<>>
      /\ Since(d.audio_checks, s, Len(d.audio_checks)) = <<>>
  BY NothingYet DEF ChecksIn
<1>2. DOMAIN <<>> = {}
  OBVIOUS
<1>3. \A f : [i \in {} |-> f[i]] = <<>>
  BY <1>2
<1>4. Outcomes(d, s, Len(d.identity_checks)) = [i \in {} |-> <<>>[i].outcome]
  BY <1>1, <1>2 DEF Outcomes
<1>5. Labels(d, s, Len(d.audio_checks)) = [i \in {} |-> <<>>[i].label]
  BY <1>1, <1>2 DEF Labels
<1> QED BY <1>4, <1>5

\* Tables the monitors write are read by nobody else: equal ones, equal
\* histories.
LEMMA SameHistory ==
  ASSUME NEW d, NEW e, NEW s, NEW start
  PROVE  /\ e.identity_checks = d.identity_checks =>
              Outcomes(e, s, start) = Outcomes(d, s, start)
         /\ e.audio_checks = d.audio_checks => Labels(e, s, start) = Labels(d, s, start)
BY DEF Outcomes, Labels

LEMMA FlaggedStays ==
  ASSUME Typed, Works, NEW s, NEW rule
  PROVE  /\ Flagged(db, boot, s, rule) => Flagged(db', boot', s, rule)
         /\ boot.flags =< Len(db.violations) /\ Reports(s, rule) => Flagged(db', boot', s, rule)
         /\ boot.flags =< Len(db.violations) => boot'.flags =< Len(db'.violations)
<1>1. boot' = boot /\ boot.flags \in Nat
  BY DEF Works, Typed
<1>2. PICK p \in Seq(Row) : p = db.violations
  BY DEF Typed, StoreTyped
<1>3. db'.violations = p \/ \E v \in Row : db'.violations = Append(p, v)
  BY <1>2 DEF Works, RowsStep, Quiet, Admits, Fires, Resolves
<1>4. ASSUME NEW v, db'.violations = Append(p, v)
      PROVE  /\ Len(p) \in Nat /\ DOMAIN p = 1 .. Len(p)
             /\ DOMAIN db'.violations = 1 .. Len(p) + 1
             /\ Len(db'.violations) = Len(p) + 1
             /\ db'.violations[Len(p) + 1] = v
             /\ \A i \in 1 .. Len(p) : db'.violations[i] = p[i]
  BY <1>4
<1>5. Flagged(db, boot, s, rule) => Flagged(db', boot', s, rule)
  <2> SUFFICES ASSUME NEW i \in DOMAIN p,
                      i > boot.flags, p[i].session_id = s, p[i].rule_id = rule
               PROVE  Flagged(db', boot', s, rule)
    BY <1>2 DEF Flagged
  <2>1. i \in DOMAIN db'.violations /\ db'.violations[i] = p[i]
    <3>1. CASE db'.violations = p
      BY <3>1
    <3>2. CASE \E v \in Row : db'.violations = Append(p, v)
      BY <1>4, <3>2
    <3> QED BY <1>3, <3>1, <3>2
  <2> QED BY <1>1, <2>1 DEF Flagged
<1>6. ASSUME boot.flags =< Len(p), NEW v, db'.violations = Append(p, v),
             v.session_id = s, v.rule_id = rule
      PROVE  Flagged(db', boot', s, rule)
  <2>1. PICK i \in DOMAIN db'.violations : i = Len(p) + 1 /\ i > boot.flags
    BY <1>1, <1>4, <1>6
  <2> QED BY <1>1, <1>4, <1>6, <2>1 DEF Flagged
<1>7. boot.flags =< Len(p) => boot'.flags =< Len(db'.violations)
  BY <1>1, <1>3, <1>4
<1> QED BY <1>2, <1>5, <1>6, <1>7 DEF Reports

\* Of a process at work, each conjunct in turn.
LEMMA ChecksStayTyped ==
  ASSUME Typed, ChecksTyped, Works, MonitorStep
  PROVE  ChecksTyped'
<1>0. /\ boot' = boot /\ now \in Nat /\ registry \subseteq Sessions
      /\ boot'.flags =< Len(db'.violations)
  BY FlaggedStays, TypesOfUse DEF Works, ChecksTyped
<1>1. PICK p \in Seq(IdentityCheck), a \in Seq(AudioCheck) :
        p = db.identity_checks /\ a = db.audio_checks
  BY DEF ChecksTyped
<1>2. /\ Len(p) \in Nat /\ Len(a) \in Nat
      /\ boot.checks \in Nat /\ boot.checks =< Len(p)
      /\ boot.audio \in Nat /\ boot.audio =< Len(a)
      /\ DOMAIN enrolled = Sessions /\ DOMAIN audio = Sessions
      /\ \A s \in Sessions : enrolled[s] \in Nat /\ enrolled[s] =< Len(p)
  BY <1>1 DEF ChecksTyped
<1>3. CASE Stands
  BY <1>0, <1>1, <1>2, <1>3 DEF Stands, KeepsChecks, ChecksTyped
<1>4. ASSUME NEW s \in registry, NEW o \in ProbeOutcomes, Probes(s, o) PROVE ChecksTyped'
  <2>1. ProbeRow(s, o, now) \in IdentityCheck
    BY <1>0 DEF ProbeRow, IdentityCheck, ProbeOutcomes
  <2>2. PICK q \in Seq(IdentityCheck) : q = db'.identity_checks /\ Len(q) >= Len(p)
    <3>1. PICK row \in IdentityCheck :
            db'.identity_checks = p \/ db'.identity_checks = Append(p, row)
      BY <1>1, <1>4, <2>1 DEF Probes, KeepsChecks
    <3>2. PICK q \in Seq(IdentityCheck) : q = Append(p, row) /\ Len(q) = Len(p) + 1
      <4>1. Append(p, row) \in Seq(IdentityCheck) /\ Len(Append(p, row)) = Len(p) + 1
        OBVIOUS
      <4> QED BY <4>1, Zenon
    <3>3. Len(p) >= Len(p) /\ Len(q) >= Len(p)
      BY <1>2, <3>2
    <3> QED BY <3>1, <3>2, <3>3
  <2>3. UNCHANGED <<audio, enrolled>> /\ db'.audio_checks = a
    BY <1>1, <1>4 DEF Probes
  <2>4. \A x \in Sessions : enrolled[x] =< Len(q)
    BY <1>2, <2>2
  <2> QED BY <1>0, <1>2, <2>2, <2>3, <2>4 DEF ChecksTyped
<1>5. ASSUME NEW s \in registry, NEW r, Enrols(s, r) PROVE ChecksTyped'
  BY <1>0, <1>1, <1>2, <1>5 DEF Enrols, KeepsChecks, ChecksTyped
<1>6. ASSUME NEW s \in registry, NEW id \in Nat, NEW label \in IntentLabels, NEW t \in Nat,
             Hears(s, id, label, t)
      PROVE  ChecksTyped'
  <2>1. LabelRow(s, id, label, t) \in AudioCheck
    BY <1>0 DEF LabelRow, AudioCheck
  <2>2. PICK q \in Seq(AudioCheck) : q = db'.audio_checks /\ Len(q) >= Len(a)
    <3>1. PICK row \in AudioCheck : db'.audio_checks = Append(a, row)
      BY <1>1, <1>6, <2>1 DEF Hears
    <3>2. PICK q \in Seq(AudioCheck) : q = Append(a, row) /\ Len(q) = Len(a) + 1
      <4>1. Append(a, row) \in Seq(AudioCheck) /\ Len(Append(a, row)) = Len(a) + 1
        OBVIOUS
      <4> QED BY <4>1, Zenon
    <3>3. Len(q) >= Len(a)
      BY <1>2, <3>2
    <3> QED BY <3>1, <3>2, <3>3
  <2>3. DOMAIN audio' = Sessions /\ enrolled' = enrolled /\ db'.identity_checks = p
    BY <1>1, <1>2, <1>6 DEF Hears
  <2> QED BY <1>0, <1>2, <2>2, <2>3 DEF ChecksTyped
<1> QED BY <1>3, <1>4, <1>5, <1>6 DEF MonitorStep

LEMMA LabelsAreRemembered ==
  ASSUME Typed, ChecksTyped, AudioRemembers, Works, MonitorStep
  PROVE  AudioRemembers'
<1>0. /\ boot' = boot /\ RecentLabels \in Nat /\ DOMAIN audio = Sessions
      /\ db.audio_checks \in Seq(AudioCheck) /\ boot.audio \in Nat
      /\ boot.audio =< Len(db.audio_checks)
  BY AudioAssumption DEF Works, ChecksTyped
<1>1. CASE audio' = audio /\ db'.audio_checks = db.audio_checks
  <2>1. \A s : Labels(db', s, boot'.audio) = Labels(db, s, boot.audio)
    BY <1>0, <1>1, SameHistory
  <2> QED BY <1>1, <2>1 DEF AudioRemembers
<1>2. ASSUME NEW s \in registry, NEW id \in Nat, NEW label \in IntentLabels, NEW t \in Nat,
             Hears(s, id, label, t)
      PROVE  AudioRemembers'
  <2>1. PICK row \in AudioCheck : row = LabelRow(s, id, label, t)
    BY TypesOfUse DEF LabelRow, AudioCheck
  <2>2. row.session_id = s /\ row.label = label
    BY <2>1 DEF LabelRow
  <2>3. /\ audio' = [audio EXCEPT ![s] = Record(@, label)]
        /\ db'.audio_checks = Append(db.audio_checks, row)
    BY <1>2, <2>1 DEF Hears
  <2>4. ASSUME NEW x
        PROVE  Labels(db', x, boot'.audio) =
                 IF x = s THEN Append(Labels(db, x, boot.audio), label)
                 ELSE Labels(db, x, boot.audio)
    <3>0. PICK start \in Nat : start = boot.audio
      BY <1>0
    <3>1. PICK d, e : d = db /\ e = db'
      OBVIOUS
    <3>2. /\ d.audio_checks \in Seq(AudioCheck) /\ start =< Len(d.audio_checks)
          /\ e.audio_checks = Append(d.audio_checks, row)
      BY <1>0, <2>3, <3>0, <3>1
    <3>3. Labels(e, x, start) =
            IF row.session_id = x THEN Append(Labels(d, x, start), row.label)
            ELSE Labels(d, x, start)
      BY <3>2, LabelsGrow
    <3> QED BY <1>0, <2>2, <3>0, <3>1, <3>3
  <2>5. ASSUME NEW x \in Sessions
        PROVE  /\ audio'[x].recent = LastOf(Labels(db', x, boot'.audio), RecentLabels)
               /\ audio'[x].status = IF HelpIn(Judged(audio'[x].recent)) >= HelpRequired
                                     THEN "sustained_help_suspected" ELSE "quiet"
    <3>1. CASE x # s
      BY <1>0, <2>3, <2>4, <3>1 DEF AudioRemembers
    <3>2. CASE x = s
      <4>1. PICK q \in Seq(IntentLabels) : q = Labels(db, s, boot.audio)
        BY <1>0, LabelsAre
      <4>2. audio[s].recent = LastOf(q, RecentLabels)
        BY <3>2, <4>1 DEF AudioRemembers
      <4>3. Pushed(audio[s].recent, label, RecentLabels) =
              LastOf(Append(q, label), RecentLabels)
        <5>1. Pushed(LastOf(q, RecentLabels), label, RecentLabels) =
                LastOf(Append(q, label), RecentLabels)
          BY <1>0, PushedIs
        <5> QED BY <4>2, <5>1
      <4>4. audio'[s] = Record(audio[s], label)
        BY <1>0, <2>3, <3>2
      <4>5. /\ audio'[s].recent = Pushed(audio[s].recent, label, RecentLabels)
            /\ audio'[s].status =
                 IF HelpIn(Judged(Pushed(audio[s].recent, label, RecentLabels))) >= HelpRequired
                 THEN "sustained_help_suspected" ELSE "quiet"
        <5>1. PICK recent : recent = Pushed(audio[s].recent, label, RecentLabels)
          OBVIOUS
        <5>2. Record(audio[s], label) =
                [recent |-> recent,
                 status |-> IF HelpIn(Judged(recent)) >= HelpRequired
                            THEN "sustained_help_suspected" ELSE "quiet"]
          BY <5>1 DEF Record
        <5> QED BY <4>4, <5>1, <5>2
      <4>6. Labels(db', s, boot'.audio) = Append(q, label)
        BY <2>4, <4>1
      <4> QED BY <3>2, <4>3, <4>5, <4>6
    <3> QED BY <3>1, <3>2
  <2> QED BY <2>5 DEF AudioRemembers
<1>3. MonitorStep => \/ audio' = audio /\ db'.audio_checks = db.audio_checks
                     \/ \E s \in registry, id \in Nat, label \in IntentLabels, t \in Nat :
                          Hears(s, id, label, t)
  BY DEF MonitorStep, Stands, Probes, Enrols, KeepsChecks
<1> QED BY <1>1, <1>2, <1>3

LEMMA OutcomesAreRemembered ==
  ASSUME Typed, ChecksTyped, VerifierRemembers, Works, MonitorStep
  PROVE  VerifierRemembers'
<1>0. /\ boot' = boot /\ failed \subseteq failed' /\ RecentOutcomes \in Nat
      /\ db.identity_checks \in Seq(IdentityCheck) /\ boot.checks \in Nat
      /\ boot.checks =< Len(db.identity_checks) /\ DOMAIN enrolled = Sessions
      /\ \A s \in Sessions : enrolled[s] \in Nat /\ enrolled[s] =< Len(db.identity_checks)
      /\ DOMAIN verifier = Sessions /\ \A s \in Sessions : IsIdentity(verifier[s])
  BY VerificationAssumption DEF Works, ChecksTyped, Typed, VerifierTyped
<1>1. CASE UNCHANGED <<verifier, enrolled>> /\ db'.identity_checks = db.identity_checks
  <2>1. \A s : /\ Outcomes(db', s, boot'.checks) = Outcomes(db, s, boot.checks)
               /\ Outcomes(db', s, enrolled'[s]) = Outcomes(db, s, enrolled[s])
    BY <1>0, <1>1 DEF Outcomes
  <2> QED BY <1>0, <1>1, <2>1 DEF VerifierRemembers
<1>2. ASSUME NEW s \in registry, NEW o \in ProbeOutcomes, Probes(s, o)
      PROVE  VerifierRemembers'
  <2>0. s \in Sessions /\ now \in Nat
    BY TypesOfUse
  <2>1. enrolled' = enrolled /\ verifier' = [verifier EXCEPT ![s] = Probe(@, o)]
    BY <1>2 DEF Probes
  <2>2. CASE db'.identity_checks = db.identity_checks /\ s \in failed'
    <3>1. \A x : /\ Outcomes(db', x, boot'.checks) = Outcomes(db, x, boot.checks)
                 /\ Outcomes(db', x, enrolled'[x]) = Outcomes(db, x, enrolled[x])
      BY <1>0, <2>1, <2>2 DEF Outcomes
    <3>2. \A x \in Sessions \ failed' : x \notin failed /\ verifier'[x] = verifier[x]
      BY <1>0, <2>1, <2>2
    <3> QED BY <3>1, <3>2 DEF VerifierRemembers
  <2>3. CASE db'.identity_checks = Append(db.identity_checks, ProbeRow(s, o, now))
    <3>1. PICK row \in IdentityCheck : row = ProbeRow(s, o, now)
      BY <2>0 DEF ProbeRow, IdentityCheck, ProbeOutcomes
    <3>2. row.session_id = s /\ row.outcome = o
      BY <3>1 DEF ProbeRow
    <3>3. ASSUME NEW x, NEW start \in Nat, start =< Len(db.identity_checks)
          PROVE  Outcomes(db', x, start) =
                   IF x = s THEN Append(Outcomes(db, x, start), o) ELSE Outcomes(db, x, start)
      <4>1. PICK d, e : d = db /\ e = db'
        OBVIOUS
      <4>2. ChecksGrow(d, e, row, start)
        BY <1>0, <2>3, <3>1, <3>3, <4>1 DEF ChecksGrow
      <4>3. Outcomes(e, x, start) =
              IF row.session_id = x THEN Append(Outcomes(d, x, start), row.outcome)
              ELSE Outcomes(d, x, start)
        BY <4>2, OutcomesGrow
      <4> QED BY <3>2, <4>1, <4>3
    <3>4. ASSUME NEW x \in Sessions \ failed'
          PROVE  /\ verifier'[x].recent = LastOf(Outcomes(db', x, boot'.checks), RecentOutcomes)
                 /\ /\ Outcomes(db', x, enrolled'[x]) # <<>>
                    /\ Mismatched(verifier'[x].recent) >= MismatchesRequired
                    => verifier'[x].status \in {"mismatch_suspected", "unobservable"}
      <4>1. /\ verifier[x].recent = LastOf(Outcomes(db, x, boot.checks), RecentOutcomes)
            /\ /\ Outcomes(db, x, enrolled[x]) # <<>>
               /\ Mismatched(verifier[x].recent) >= MismatchesRequired
               => verifier[x].status \in {"mismatch_suspected", "unobservable"}
        BY <1>0 DEF VerifierRemembers
      <4>2. CASE x # s
        <5>1. /\ Outcomes(db', x, boot'.checks) = Outcomes(db, x, boot.checks)
              /\ Outcomes(db', x, enrolled'[x]) = Outcomes(db, x, enrolled[x])
          BY <1>0, <2>1, <3>3, <4>2
        <5>2. verifier'[x] = verifier[x]
          BY <1>0, <2>1, <4>2
        <5> QED BY <4>1, <5>1, <5>2
      <4>3. CASE x = s
        <5>1. PICK q \in Seq(ProbeOutcomes) : q = Outcomes(db, s, boot.checks)
          BY <1>0, OutcomesAre
        <5>2. Outcomes(db', s, boot'.checks) = Append(q, o)
          BY <1>0, <3>3, <5>1
        <5>3. Pushed(verifier[s].recent, o, RecentOutcomes) =
                LastOf(Append(q, o), RecentOutcomes)
          <6>1. Pushed(LastOf(q, RecentOutcomes), o, RecentOutcomes) =
                  LastOf(Append(q, o), RecentOutcomes)
            BY <1>0, PushedIs
          <6> QED BY <4>1, <4>3, <5>1, <6>1
        <5>4. verifier'[s] = Probe(verifier[s], o) /\ IsIdentity(verifier[s])
          BY <1>0, <2>0, <2>1
        <5>5. /\ Probe(verifier[s], o).recent = Pushed(verifier[s].recent, o, RecentOutcomes)
              /\ Mismatched(Probe(verifier[s], o).recent) >= MismatchesRequired =>
                   Probe(verifier[s], o).status \in {"mismatch_suspected", "unobservable"}
          BY <5>4, ProbeConcludes
        <5> QED BY <4>3, <5>2, <5>3, <5>4, <5>5
      <4> QED BY <4>2, <4>3
    <3> QED BY <3>4 DEF VerifierRemembers
  <2> QED BY <1>2, <2>2, <2>3 DEF Probes, KeepsChecks
<1>3. ASSUME NEW s \in registry, NEW r, Enrols(s, r) PROVE VerifierRemembers'
  <2>0. s \in Sessions
    BY TypesOfUse
  <2>1. /\ verifier' = [verifier EXCEPT ![s] = Enrol(@, r)]
        /\ enrolled' = [enrolled EXCEPT ![s] = Len(db.identity_checks)]
        /\ db'.identity_checks = db.identity_checks
    BY <1>3 DEF Enrols, KeepsChecks
  <2>2. \A x, start : Outcomes(db', x, start) = Outcomes(db, x, start)
    BY <2>1, SameHistory
  <2>3. ASSUME NEW x \in Sessions \ failed'
        PROVE  /\ verifier'[x].recent = LastOf(Outcomes(db', x, boot'.checks), RecentOutcomes)
               /\ /\ Outcomes(db', x, enrolled'[x]) # <<>>
                  /\ Mismatched(verifier'[x].recent) >= MismatchesRequired
                  => verifier'[x].status \in {"mismatch_suspected", "unobservable"}
    <3>1. /\ verifier[x].recent = LastOf(Outcomes(db, x, boot.checks), RecentOutcomes)
          /\ /\ Outcomes(db, x, enrolled[x]) # <<>>
             /\ Mismatched(verifier[x].recent) >= MismatchesRequired
             => verifier[x].status \in {"mismatch_suspected", "unobservable"}
      BY <1>0 DEF VerifierRemembers
    <3>2. CASE x # s
      <4>1. verifier'[x] = verifier[x] /\ enrolled'[x] = enrolled[x]
        BY <1>0, <2>1, <3>2
      <4> QED BY <1>0, <2>2, <3>1, <4>1
    <3>3. CASE x = s
      <4>1. verifier'[s] = Enrol(verifier[s], r) /\ enrolled'[s] = Len(db.identity_checks)
        BY <1>0, <2>0, <2>1
      <4>2. verifier'[s].recent = verifier[s].recent
        BY <1>0, <2>0, <4>1, EnrolForgets
      <4>3. Outcomes(db', s, Len(db'.identity_checks)) = <<>>
        <5>1. Since(db'.identity_checks, s, Len(db'.identity_checks)) = <<>>
          BY <1>0, <2>1, NothingYet
        <5>2. \A f : [i \in DOMAIN <<>> |-> f[i]] = <<>>
          OBVIOUS
        <5> QED BY <5>1 DEF Outcomes
      <4> QED BY <1>0, <2>1, <2>2, <3>1, <3>3, <4>1, <4>2, <4>3
    <3> QED BY <3>2, <3>3
  <2> QED BY <2>3 DEF VerifierRemembers
<1>4. MonitorStep =>
        \/ UNCHANGED <<verifier, enrolled>> /\ db'.identity_checks = db.identity_checks
        \/ \E s \in registry, o \in ProbeOutcomes : Probes(s, o)
        \/ \E s \in registry : \E r : Enrols(s, r)
  BY DEF MonitorStep, Stands, Hears, KeepsChecks
<1> QED BY <1>1, <1>2, <1>3, <1>4

LEMMA ConclusionsStayFlagged ==
  ASSUME Typed, ChecksTyped, ConclusionsAreFlagged, Works, MonitorStep
  PROVE  ConclusionsAreFlagged'
<1> DEFINE Found == {"mismatch_suspected", "unobservable"}
<1>0. /\ failed \subseteq failed' /\ boot.flags =< Len(db.violations)
      /\ DOMAIN audio = Sessions
      /\ DOMAIN verifier = Sessions /\ \A s \in Sessions : IsIdentity(verifier[s])
  BY DEF Works, ChecksTyped, Typed, VerifierTyped
<1>1. \A s, rule : Flagged(db, boot, s, rule) \/ Reports(s, rule) =>
        Flagged(db', boot', s, rule)
  BY <1>0, FlaggedStays
<1>2. ASSUME NEW s \in Sessions \ failed', verifier'[s].status = verifier[s].status,
             verifier'[s].status \in Found
      PROVE  Flagged(db', boot', s, IdentityRule(verifier'[s].status))
  <2>1. PICK rule : rule = IdentityRule(verifier[s].status)
    OBVIOUS
  <2>2. Flagged(db, boot, s, rule)
    BY <1>0, <1>2, <2>1 DEF ConclusionsAreFlagged
  <2>3. Flagged(db', boot', s, rule)
    BY <1>1, <2>2
  <2>4. rule = IdentityRule(verifier'[s].status)
    BY <1>2, <2>1
  <2> QED BY <2>3, <2>4
<1>3. ASSUME NEW s \in Sessions \ failed', verifier'[s].status \in Found
      PROVE  Flagged(db', boot', s, IdentityRule(verifier'[s].status))
  <2>1. CASE verifier' = verifier
    BY <1>2, <1>3, <2>1
  <2>2. ASSUME NEW x \in registry, NEW o \in ProbeOutcomes, Probes(x, o)
        PROVE  Flagged(db', boot', s, IdentityRule(verifier'[s].status))
    <3>1. verifier' = [verifier EXCEPT ![x] = Probe(@, o)]
      BY <2>2 DEF Probes
    <3>2. CASE x # s
      <4>1. verifier'[s] = verifier[s]
        BY <1>0, <3>1, <3>2
      <4> QED BY <1>2, <1>3, <4>1
    <3>3. CASE x = s
      <4>1. verifier'[s] = Probe(verifier[s], o) /\ IsIdentity(verifier[s])
        BY <1>0, <3>1, <3>3
      <4>2. PICK state, rule : state = Probe(verifier[s], o)
                   /\ rule = IdentityRule(state.status)
        OBVIOUS
      <4>3. FindingIn(verifier[s], state) \/ state.status = verifier[s].status
        BY <1>3, <4>1, <4>2, ProbeConcludes DEF FindingIn
      <4>4. CASE state.status = verifier[s].status
        BY <1>2, <1>3, <4>1, <4>2, <4>4
      <4>5. CASE FindingIn(verifier[s], state)
        <5>1. Reports(s, rule)
          BY <2>2, <3>3, <4>2, <4>5 DEF Probes
        <5>2. Flagged(db', boot', s, rule)
          BY <1>1, <5>1
        <5>3. rule = IdentityRule(verifier'[s].status)
          BY <4>1, <4>2
        <5> QED BY <5>2, <5>3
      <4> QED BY <4>3, <4>4, <4>5
    <3> QED BY <3>2, <3>3
  <2>3. ASSUME NEW x \in registry, NEW r, Enrols(x, r)
        PROVE  Flagged(db', boot', s, IdentityRule(verifier'[s].status))
    <3>1. verifier' = [verifier EXCEPT ![x] = Enrol(@, r)]
      BY <2>3 DEF Enrols
    <3>2. CASE x # s
      <4>1. verifier'[s] = verifier[s]
        BY <1>0, <3>1, <3>2
      <4> QED BY <1>2, <1>3, <4>1
    <3>3. CASE x = s
      <4>1. verifier'[s] = Enrol(verifier[s], r) /\ IsIdentity(verifier[s])
        BY <1>0, <3>1, <3>3
      <4>2. verifier'[s].status = "unverified"
        BY <4>1, EnrolForgets
      <4> QED BY <1>3, <4>2
    <3> QED BY <3>2, <3>3
  <2> QED BY <2>1, <2>2, <2>3 DEF MonitorStep, Stands, Hears
<1>4. ASSUME NEW s \in Sessions \ failed', audio'[s].status = "sustained_help_suspected"
      PROVE  Flagged(db', boot', s, "audio_seeking_help")
  <2>1. CASE audio'[s] = audio[s]
    <3>1. Flagged(db, boot, s, "audio_seeking_help")
      BY <1>0, <1>4, <2>1 DEF ConclusionsAreFlagged
    <3> QED BY <1>1, <3>1
  <2>2. ASSUME NEW x \in registry, NEW id \in Nat, NEW label \in IntentLabels, NEW t \in Nat,
               Hears(x, id, label, t)
        PROVE  Flagged(db', boot', s, "audio_seeking_help")
    <3>1. audio' = [audio EXCEPT ![x] = Record(@, label)]
      BY <2>2 DEF Hears
    <3>2. CASE x # s
      BY <1>0, <2>1, <3>1, <3>2
    <3>3. CASE x = s
      <4>1. audio'[s] = Record(audio[s], label)
        BY <1>0, <3>1, <3>3
      <4>2. CASE Sustained(audio[s], Record(audio[s], label))
        <5>1. Reports(s, "audio_seeking_help")
          BY <2>2, <3>3, <4>2 DEF Hears
        <5> QED BY <1>1, <5>1
      <4>3. CASE ~Sustained(audio[s], Record(audio[s], label))
        <5>1. audio[s].status = "sustained_help_suspected"
          BY <1>4, <4>1, <4>3 DEF Sustained
        <5>2. Flagged(db, boot, s, "audio_seeking_help")
          BY <1>0, <5>1 DEF ConclusionsAreFlagged
        <5> QED BY <1>1, <5>2
      <4> QED BY <4>2, <4>3
    <3> QED BY <3>2, <3>3
  <2> QED BY <2>1, <2>2 DEF MonitorStep, Stands, Probes, Enrols
<1> HIDE DEF Found
<1>5. ASSUME NEW s \in Sessions \ failed'
      PROVE  /\ verifier'[s].status \in {"mismatch_suspected", "unobservable"} =>
                  Flagged(db', boot', s, IdentityRule(verifier'[s].status))
             /\ audio'[s].status = "sustained_help_suspected" =>
                  Flagged(db', boot', s, "audio_seeking_help")
  BY <1>3, <1>4 DEF Found
<1> QED BY <1>5 DEF ConclusionsAreFlagged

\* Of a process that starts.
LEMMA YoungerOf ==
  ASSUME NEW T, NEW p \in Seq(T), NEW cutoff
  PROVE  Younger(p, cutoff) \in Seq(T)
<1> DEFINE S == {i \in DOMAIN p : p[i].recorded_ms >= cutoff}
           e == Sorted(S, <)
<1>1. S \in SUBSET DOMAIN p
  OBVIOUS
<1>2. Younger(p, cutoff) = [k \in DOMAIN e |-> p[e[k]]]
  BY DEF Younger
<1> HIDE DEF S
<1>3. S \in SUBSET Nat /\ IsFiniteSet(S)
  BY <1>1, PositionsAre, FS_Subset
<1>4. Ascends(e, S)
  BY <1>3, SortedAscends
<1> HIDE DEF e
<1>5. PICK n \in Nat : DOMAIN e = 1 .. n /\ \A k \in 1 .. n : e[k] \in DOMAIN p
  BY <1>1, <1>4 DEF Ascends
<1>6. \A k \in 1 .. n : p[e[k]] \in T
  BY <1>5, PositionsAre
<1> QED BY <1>2, <1>5, <1>6

LEMMA PurgedChecks ==
  ASSUME NEW d, IsStore(d), ChecksIn(d)
  PROVE  ChecksIn(Purged(d))
<1>1. PICK cutoff, p, a, v, x :
        /\ cutoff = Cutoff(RetentionDays)
        /\ p = Younger(d.identity_checks, cutoff) /\ a = Younger(d.audio_checks, cutoff)
        /\ v = Younger(d.violations, cutoff)
        /\ x = RestrictTo(d.sessions, {s \in DOMAIN d.sessions : d.sessions[s].updated_ms >= cutoff})
  OBVIOUS
<1>2. p \in Seq(IdentityCheck) /\ a \in Seq(AudioCheck)
  BY <1>1, YoungerOf DEF ChecksIn
<1>3. PICK k : k = PurgeOlderThan(d, cutoff)
  OBVIOUS
<1>4. IsStore(k) /\ k.identity_checks = p /\ k.audio_checks = a
  BY <1>1, <1>3 DEF PurgeOlderThan, IsStore
<1>5. PICK l : l = PurgeTemplatesOlderThan(k, Cutoff(TemplateDays))
  OBVIOUS
<1>6. IsStore(l) /\ l.identity_checks = p /\ l.audio_checks = a
  BY <1>4, <1>5 DEF PurgeTemplatesOlderThan, IsStore
<1>7. PICK m : m = PurgeTranscriptsOlderThan(l, Cutoff(TranscriptDays))
  OBVIOUS
<1>8. m.identity_checks = p /\ m.audio_checks = a
  BY <1>6, <1>7 DEF PurgeTranscriptsOlderThan, IsStore
<1>9. m = Purged(d)
  BY <1>1, <1>3, <1>5, <1>7 DEF Purged
<1> QED BY <1>2, <1>8, <1>9 DEF ChecksIn

\* Nothing is remembered that was not written, of a process that has written
\* nothing.
Fresh ==
  /\ ChecksIn(db)
  /\ boot.checks = Len(db.identity_checks) /\ boot.audio = Len(db.audio_checks)
  /\ boot.flags =< Len(db.violations)
  /\ enrolled = [s \in Sessions |-> 0] /\ audio = [s \in Sessions |-> NewAudio]
  /\ \A s \in Sessions : verifier[s].recent = <<>> /\ verifier[s].status = "unverified"

LEMMA FreshRemembers == Fresh => RemembersInv
<1> SUFFICES ASSUME Fresh PROVE RemembersInv
  OBVIOUS
<1> USE DEF Fresh
<1>1. ChecksTyped
  <2>1. \A T : \A p \in Seq(T) : Len(p) \in Nat /\ Len(p) =< Len(p)
    OBVIOUS
  <2>2. /\ Len(db.identity_checks) \in Nat /\ Len(db.audio_checks) \in Nat
        /\ 0 =< Len(db.identity_checks)
    BY <2>1 DEF ChecksIn
  <2> QED BY <2>2 DEF ChecksTyped, ChecksIn
<1>2. \A s : Outcomes(db, s, boot.checks) = <<>> /\ Labels(db, s, boot.audio) = <<>>
  BY NoneYet
<1>3. /\ LastOf(<<>>, RecentOutcomes) = <<>> /\ LastOf(<<>>, RecentLabels) = <<>>
      /\ LastOf(<<>>, HelpWindow) = <<>>
  BY EmptyWindow, VerificationAssumption, AudioAssumption
<1>4. AudioRemembers
  <2>1. \A s \in Sessions : audio[s].recent = <<>> /\ audio[s].status = "quiet"
    BY DEF NewAudio
  <2>2. ~(HelpIn(Judged(<<>>)) >= HelpRequired)
    BY <1>3, EmptyWindow, AudioAssumption DEF Judged
  <2> QED BY <1>2, <1>3, <2>1, <2>2 DEF AudioRemembers
<1>5. VerifierRemembers
  <2>1. ~(Mismatched(<<>>) >= MismatchesRequired)
    BY EmptyWindow, VerificationAssumption
  <2> QED BY <1>2, <1>3, <2>1 DEF VerifierRemembers
<1>6. ConclusionsAreFlagged
  BY DEF ConclusionsAreFlagged, NewAudio
<1> QED BY <1>1, <1>4, <1>5, <1>6 DEF RemembersInv

LEMMA StartRemembers ==
  ASSUME Typed, NEW d, Starts(d), ChecksIn(d)
  PROVE  RemembersInv'
<1>1. /\ db' = Purged(d) /\ IsStore(d)
      /\ boot'.checks = Len(db'.identity_checks) /\ boot'.audio = Len(db'.audio_checks)
      /\ boot'.flags = Len(db'.violations)
      /\ enrolled' = [s \in Sessions |-> 0] /\ audio' = [s \in Sessions |-> NewAudio]
  BY DEF Starts, Start, SameBut
<1>2. ChecksIn(db')
  BY <1>1, PurgedChecks
<1>3. boot'.flags =< Len(db'.violations)
  <2>1. db'.violations = Younger(db.violations, Cutoff(RetentionDays))
    BY StartLeaves
  <2>2. db.violations \in Seq(Row)
    BY DEF Typed, StoreTyped
  <2>3. Len(db'.violations) \in Nat
    BY <2>1, <2>2, YoungerRows
  <2> QED BY <1>1, <2>3
<1>4. ASSUME NEW s \in Sessions
      PROVE  verifier'[s].recent = <<>> /\ verifier'[s].status = "unverified"
  <2>1. /\ IsIdentity(NewIdentity)
        /\ NewIdentity.recent = <<>> /\ NewIdentity.status = "unverified"
    BY DEF NewIdentity, IsIdentity
  <2>2. \A r : Enrol(NewIdentity, r).recent = <<>>
          /\ Enrol(NewIdentity, r).status = "unverified"
    BY <2>1, EnrolForgets
  <2>3. verifier'[s] = NewIdentity \/ \E r : verifier'[s] = Enrol(NewIdentity, r)
    BY StartLeaves DEF RestoredTemplates
  <2> QED BY <2>1, <2>2, <2>3
<1>5. Fresh'
  BY <1>1, <1>2, <1>3, <1>4 DEF Fresh
<1> QED BY <1>5, FreshRemembers, PTL

---------------------------------------------------------------------------
(* The invariant holds.                                                    *)

MonitorsInv == Typed /\ CallsTyped /\ EnrolmentIsStored /\ RowsInv /\ ClockInv

LEMMA InitMonitorsInv ==
  ASSUME Init
  PROVE  MonitorsInv /\ NothingStoredHasExpired /\ TranscriptsAreKept
<1>0. DOMAIN <<>> = {} /\ <<>> \in Seq(Row) /\ Len(<<>>) = 0
  OBVIOUS
<1>1. /\ settings \in Deployments /\ settings \in Deployment /\ now = 0 /\ uuids = 0
      /\ registry = {} /\ board = <<>> /\ failed = {}
      /\ verifier = [s \in Sessions |-> NewIdentity] /\ calls = [c \in Calls |-> Idle]
      /\ db = EmptyStore /\ boot = Unstarted
      /\ left = [requests |-> settings.requests, telemetry |-> settings.telemetry,
                 restarts |-> settings.restarts, failures |-> settings.failures,
                 steps_back |-> settings.steps_back]
  BY MonitorsAssumption DEF Init
<1>2. /\ IsStore(db) /\ db.violations = <<>> /\ db.sessions = <<>>
      /\ db.identity_templates = <<>> /\ db.audio_transcripts = <<>>
  BY <1>1 DEF EmptyStore, IsStore
<1>3. /\ boot.flags = 0 /\ boot.cutoff = -1 /\ boot.templates = -1 /\ boot.transcripts = -1
  BY <1>1 DEF Unstarted
<1>4. left \in Lefts /\ left.steps_back = settings.steps_back
  BY <1>1 DEF Deployment, Lefts
<1>5. IsIdentity(NewIdentity) /\ NewIdentity.enrolment = None
  BY DEF IsIdentity, NewIdentity
<1>6. Typed
  <2>1. VerifierTyped(verifier)
    BY <1>1, <1>5 DEF VerifierTyped
  <2>2. StoreTyped(db)
    BY <1>0, <1>2 DEF StoreTyped
  <2>3. BoardTyped(board)
    BY <1>0, <1>1 DEF BoardTyped
  <2> QED BY <1>1, <1>3, <1>4, <2>1, <2>2, <2>3 DEF Typed, Lefts
<1>7. CallsTyped
  BY <1>1 DEF CallsTyped, CallTyped, Idle
<1>8. EnrolmentIsStored
  BY <1>0, <1>1, <1>2, <1>5 DEF EnrolmentIsStored
<1>9. RowsInv
  <2>1. DOMAIN db.violations = {} /\ DOMAIN board = {}
    BY <1>0, <1>1, <1>2
  <2>2. \A s : OpenOn(board, s) = {} /\ NewestOf(db.violations, s, RestoredPerSession) = {}
    BY <2>1 DEF OpenOn, NewestOf, RowsOf
  <2>3. IdsAreUnique /\ OwnRowsAreKnown /\ BoardIsKnown
    BY <2>1 DEF IdsAreUnique, OwnRowsAreKnown, BoardIsKnown
  <2>4. OpenIsStored /\ StoredIsOpen
    BY <2>2 DEF OpenIsStored, StoredIsOpen
  <2> QED BY <2>3, <2>4 DEF RowsInv
<1>10. ClockInv
  <2>1. left.steps_back =< settings.steps_back
    BY <1>1, <1>4 DEF Deployment
  <2> QED BY <1>3, <2>1 DEF ClockInv, IsBehind
<1>11. NothingStoredHasExpired
  BY <1>0, <1>1, <1>2 DEF NothingStoredHasExpired
<1>12. TranscriptsAreKept
  BY <1>0, <1>2 DEF TranscriptsAreKept
<1> QED BY <1>6, <1>7, <1>8, <1>9, <1>10, <1>11, <1>12 DEF MonitorsInv

LEMMA StepMonitorsInv ==
  ASSUME MonitorsInv, [Next]_vars
  PROVE  MonitorsInv' /\ (Works \/ \E d : Starts(d))
<1>0. /\ Typed /\ CallsTyped /\ EnrolmentIsStored /\ RowsInv /\ ClockInv
      /\ IdsAreUnique /\ OwnRowsAreKnown
  BY DEF MonitorsInv, RowsInv
<1>1. Works \/ \E d : Starts(d)
  BY <1>0, StepWorksOrStarts
<1>2. Typed' /\ CallsTyped' /\ EnrolmentIsStored'
  BY <1>0, StaysTyped, CallsStayTyped, EnrolmentStaysStored
<1>3. RowsInv'
  BY <1>0, <1>1, WorkKeepsRows, StartKeepsRows
<1>4. ClockInv'
  BY <1>0, <1>1, ClockStays
<1> QED BY <1>1, <1>2, <1>3, <1>4 DEF MonitorsInv

LEMMA InitRemembers ==
  ASSUME Init PROVE RemembersInv
<1>1. /\ db = EmptyStore /\ boot = Unstarted
      /\ enrolled = [s \in Sessions |-> 0] /\ audio = [s \in Sessions |-> NewAudio]
      /\ verifier = [s \in Sessions |-> NewIdentity]
  BY DEF Init
<1>2. <<>> \in Seq(IdentityCheck) /\ <<>> \in Seq(AudioCheck) /\ Len(<<>>) = 0
  OBVIOUS
<1>3. db.identity_checks = <<>> /\ db.audio_checks = <<>> /\ db.violations = <<>>
  BY <1>1 DEF EmptyStore
<1>4. boot.checks = 0 /\ boot.audio = 0 /\ boot.flags = 0
  BY <1>1 DEF Unstarted
<1>5. \A s \in Sessions : verifier[s].recent = <<>> /\ verifier[s].status = "unverified"
  BY <1>1 DEF NewIdentity
<1>6. Fresh
  BY <1>1, <1>2, <1>3, <1>4, <1>5 DEF Fresh, ChecksIn
<1> QED BY <1>6, FreshRemembers

LEMMA StepRemembers ==
  ASSUME MonitorsInv, RemembersInv, [Next]_vars
  PROVE  RemembersInv'
<1>0. /\ Typed /\ CallsTyped /\ OwnRowsAreKnown
      /\ ChecksTyped /\ AudioRemembers /\ VerifierRemembers /\ ConclusionsAreFlagged
  BY DEF MonitorsInv, RowsInv, RemembersInv
<1>1. CASE Works /\ MonitorStep
  <2>1. ChecksTyped'
    BY <1>0, <1>1, ChecksStayTyped
  <2>2. AudioRemembers'
    BY <1>0, <1>1, LabelsAreRemembered
  <2>3. VerifierRemembers'
    BY <1>0, <1>1, OutcomesAreRemembered
  <2>4. ConclusionsAreFlagged'
    BY <1>0, <1>1, ConclusionsStayFlagged
  <2> QED BY <2>1, <2>2, <2>3, <2>4 DEF RemembersInv
<1>2. ASSUME NEW d, Starts(d), ChecksIn(d) PROVE RemembersInv'
  BY <1>0, <1>2, StartRemembers
<1> QED BY <1>0, <1>1, <1>2, MonitorsStepOrStart

---------------------------------------------------------------------------
(* What it says of the properties.                                         *)

LEMMA FlagsAreFound ==
  ASSUME Typed, NEW s, NEW rule, Flagged(db, boot, s, rule)
  PROVE  rule \in {v.rule_id : v \in ToSet(Since(db.violations, s, boot.flags))}
<1> DEFINE S == SinceAt(db.violations, s, boot.flags)
           e == Sorted(S, <)
           z == Since(db.violations, s, boot.flags)
<1>1. Lists(z, db.violations, Row, S, e)
  <2>1. db.violations \in Seq(Row)
    BY DEF Typed, StoreTyped
  <2> QED BY <2>1, SinceIs
<1>2. PICK i \in DOMAIN db.violations :
        i > boot.flags /\ db.violations[i].session_id = s /\ db.violations[i].rule_id = rule
  BY DEF Flagged
<1>3. i \in S
  BY <1>2 DEF SinceAt, RowsOf
<1> HIDE DEF S, e, z
<1>4. PICK k \in 1 .. Cardinality(S) : e[k] = i
  BY <1>1, <1>3 DEF Lists, Ascends
<1>5. k \in DOMAIN z /\ z[k] = db.violations[i]
  BY <1>1, <1>4 DEF Lists
<1>6. db.violations[i] \in ToSet(z)
  BY <1>5 DEF ToSet
<1> QED BY <1>2, <1>6 DEF z

LEMMA SustainedAreFlagged ==
  ASSUME MonitorsInv, RemembersInv
  PROVE  SustainedIsFlagged
<1>0. /\ Typed /\ ChecksTyped /\ AudioRemembers /\ VerifierRemembers /\ ConclusionsAreFlagged
  BY DEF MonitorsInv, RemembersInv
<1> DEFINE flagged(s) == {v.rule_id : v \in ToSet(Since(db.violations, s, boot.flags))}
           outcomes(s) == Outcomes(db, s, boot.checks)
           labels(s) == Labels(db, s, boot.audio)
<1>1. \A s, rule : Flagged(db, boot, s, rule) => rule \in flagged(s)
  BY <1>0, FlagsAreFound
<1> HIDE DEF flagged
<1>2. ASSUME NEW s \in Sessions \ failed
      PROVE  /\ Outcomes(db, s, enrolled[s]) # <<>>
                /\ Mismatched(LastOf(outcomes(s), RecentOutcomes)) >= MismatchesRequired
                => verifier[s].status \in {"mismatch_suspected", "unobservable"}
             /\ HelpIn(Judged(labels(s))) >= HelpRequired
                  => audio[s].status = "sustained_help_suspected"
             /\ verifier[s].status \in {"mismatch_suspected", "unobservable"}
                  => IdentityRule(verifier[s].status) \in flagged(s)
             /\ audio[s].status = "sustained_help_suspected" =>
                  "audio_seeking_help" \in flagged(s)
  <2>1. verifier[s].recent = LastOf(outcomes(s), RecentOutcomes)
    BY <1>0 DEF VerifierRemembers
  <2>2. Outcomes(db, s, enrolled[s]) # <<>>
          /\ Mismatched(verifier[s].recent) >= MismatchesRequired
          => verifier[s].status \in {"mismatch_suspected", "unobservable"}
    BY <1>0 DEF VerifierRemembers
  <2>3. /\ audio[s].recent = LastOf(labels(s), RecentLabels)
        /\ HelpIn(Judged(audio[s].recent)) >= HelpRequired
             => audio[s].status = "sustained_help_suspected"
    BY <1>0 DEF AudioRemembers
  <2>4. Judged(audio[s].recent) = Judged(labels(s))
    <3>1. PICK q \in Seq(IntentLabels) : q = labels(s)
      BY <1>0, LabelsAre DEF ChecksTyped
    <3>2. LastOf(LastOf(q, RecentLabels), HelpWindow) = LastOf(q, HelpWindow)
      BY LastOfLast, AudioAssumption
    <3> QED BY <2>3, <3>1, <3>2 DEF Judged
  <2>5. /\ verifier[s].status \in {"mismatch_suspected", "unobservable"}
             => IdentityRule(verifier[s].status) \in flagged(s)
        /\ audio[s].status = "sustained_help_suspected" => "audio_seeking_help" \in flagged(s)
    BY <1>0, <1>1 DEF ConclusionsAreFlagged
  <2> HIDE DEF outcomes, labels
  <2> QED BY <2>1, <2>2, <2>3, <2>4, <2>5
<1> QED BY <1>2 DEF SustainedIsFlagged, flagged

LEMMA RowsShown ==
  ASSUME MonitorsInv
  PROVE  BoardShowsStoredFlags
<1>0. Typed /\ RowsInv /\ RestoredPerSession \in Nat
  BY MonitorsAssumption DEF MonitorsInv
<1>1. PICK p \in Seq(Row) : p = db.violations
  BY <1>0 DEF Typed, StoreTyped
<1>2. OneFiring(p)
  BY <1>0, <1>1 DEF RowsInv, IdsAreUnique, OneFiring
<1>3. \A i \in DOMAIN p : i \in Nat /\ p[i].recorded_ms \in Nat
  BY RowsAre, RowIs
<1>4. ASSUME NEW s \in Sessions \ failed, InOrder(p)
      PROVE  OpenOn(board, s) \subseteq Unresolved(RowsOn(p, s))
  <2> SUFFICES ASSUME NEW id \in OpenOn(board, s) PROVE id \in Unresolved(RowsOn(p, s))
    OBVIOUS
  <2>1. /\ \E i \in DOMAIN p : p[i].id = id /\ p[i].session_id = s /\ ~p[i].resolved
        /\ NeverResolved(p, id)
    BY <1>0, <1>1, <1>4 DEF RowsInv, OpenIsStored
  <2>2. \E v \in RowsOn(p, s) : v.id = id /\ ~v.resolved
    BY <2>1 DEF RowsOn, ToSet
  <2>3. \A v \in RowsOn(p, s) : v.id = id => ~v.resolved
    BY <2>1 DEF RowsOn, ToSet, NeverResolved
  <2> QED BY <2>2, <2>3 DEF Unresolved
<1>5. ASSUME NEW s \in Sessions \ failed, InOrder(p), ~boot.bare
      PROVE  Unresolved(ToSet(LoadViolations(db, s, RestoredPerSession))) \subseteq OpenOn(board, s)
  <2>1. PICK q : q = LoadViolations(db, s, RestoredPerSession)
    OBVIOUS
  <2>2. PICK n, e :
          /\ Picks(q, p, e, n)
          /\ \A k \in 1 .. n : e[k] \in NewestOf(p, s, RestoredPerSession)
          /\ \A i \in NewestOf(p, s, RestoredPerSession) : \E k \in 1 .. n : e[k] = i
    <3>1. HasNewest(LoadViolations(db, s, RestoredPerSession), db.violations, s, RestoredPerSession)
      BY <1>1, LoadedAreNewest
    <3>2. HasNewest(q, p, s, RestoredPerSession)
      BY <1>1, <2>1, <3>1
    <3> QED BY <3>2 DEF HasNewest
  <2>3. /\ DOMAIN q = 1 .. n
        /\ \A k \in 1 .. n : q[k] = p[e[k]] /\ e[k] \in DOMAIN p
    BY <2>2, PicksAreRows DEF Picks
  <2>4. ASSUME NEW id \in Unresolved(ToSet(q)) PROVE id \in OpenOn(board, s)
    <3>1. PICK k \in 1 .. n : q[k].id = id /\ ~q[k].resolved
      BY <2>3 DEF Unresolved, ToSet
    <3>2. \A l \in 1 .. n : q[l].id = id => ~q[l].resolved
      BY <2>3 DEF Unresolved, ToSet
    <3>3. PICK i \in DOMAIN p : i = e[k]
      BY <2>3
    <3>4. /\ i \in NewestOf(p, s, RestoredPerSession)
          /\ p[i].id = id /\ ~p[i].resolved
      BY <2>2, <2>3, <3>1, <3>3
    <3>5. ASSUME NEW j \in DOMAIN p, p[j].id = id, p[j].resolved PROVE FALSE
      <4>1. i # j /\ ~(j < i)
        BY <1>2, <3>4, <3>5 DEF OneFiring
      <4>2. i < j /\ p[i].session_id = s
        BY <1>3, <3>4, <4>1 DEF NewestOf, RowsOf
      <4>3. p[j].session_id = s /\ RecordedBefore(p, i, j)
        BY <1>2, <1>3, <1>5, <3>4, <3>5, <4>2 DEF OneFiring, InOrder, RecordedBefore
      <4>4. j \in NewestOf(p, s, RestoredPerSession)
        BY <1>0, <3>4, <4>3, NewerAreNewest DEF RowsOf
      <4>5. PICK l \in 1 .. n : e[l] = j
        BY <2>2, <4>4
      <4> QED BY <2>3, <3>2, <3>5, <4>5
    <3>6. NeverResolved(p, p[i].id)
      BY <3>4, <3>5 DEF NeverResolved
    <3> QED BY <1>0, <1>1, <1>5, <3>4, <3>6 DEF RowsInv, StoredIsOpen
  <2> QED BY <2>1, <2>4
<1> QED BY <1>1, <1>4, <1>5 DEF BoardShowsStoredFlags, OpenOn

LEMMA EvidenceIsThere ==
  ASSUME MonitorsInv, TranscriptsAreKept
  PROVE  EvidenceResolves
<1>0. Typed /\ RowsInv /\ BoardTyped(board)
  BY DEF MonitorsInv, Typed
<1>1. PICK p \in Seq(Row) : p = db.violations
  BY <1>0 DEF Typed, StoreTyped
<1>2. OneFiring(p)
  BY <1>0, <1>1 DEF RowsInv, IdsAreUnique, OneFiring
<1>3. ASSUME NEW s \in DOMAIN board \ failed, NEW id \in board[s].open
      PROVE  LoadViolation(db, id).session_id = s /\ ~LoadViolation(db, id).resolved
  <2>1. s \in Sessions \ failed /\ id \in OpenOn(board, s)
    BY <1>0 DEF BoardTyped, OpenOn
  <2>2. PICK i \in DOMAIN p : p[i].id = id /\ p[i].session_id = s /\ ~p[i].resolved
    BY <1>0, <1>1, <2>1 DEF RowsInv, OpenIsStored
  <2> DEFINE S == {j \in DOMAIN p : p[j].id = id}
  <2>3. S \in SUBSET Nat /\ S # {} /\ S \in SUBSET DOMAIN p /\ i \in S
    BY <2>2, RowsAre
  <2>4. \A j \in S : p[j].id = id
    OBVIOUS
  <2>5. LoadViolation(db, id) = p[Min(S)]
    BY <1>1 DEF LoadViolation
  <2> HIDE DEF S
  <2>6. PICK m \in S : m = Min(S) /\ \A j \in S : m =< j
    <3>1. \E m \in S : \A j \in S : m =< j
      BY <2>3, HasLeast
    <3> QED BY <3>1 DEF Min
  <2>7. m = i \/ m < i
    BY <2>3, <2>6
  <2>8. m = i
    BY <1>2, <2>2, <2>3, <2>4, <2>7 DEF OneFiring
  <2> QED BY <2>2, <2>5, <2>6, <2>8
<1>4. ASSUME NEW i \in DOMAIN db.violations, db.violations[i].transcript_ref # None
      PROVE  LET v == db.violations[i] IN
             \/ /\ v.transcript_ref \in DOMAIN db.audio_transcripts
                /\ LoadTranscript(db, v.transcript_ref).session_id = v.session_id
             \/ v.opened_at_ms < boot.transcripts
  <2>1. PICK v : v = db.violations[i]
    OBVIOUS
  <2>2. CASE /\ v.transcript_ref \in DOMAIN db.audio_transcripts
             /\ db.audio_transcripts[v.transcript_ref] =
                  [session_id |-> v.session_id, recorded_ms |-> v.opened_at_ms]
    BY <2>1, <2>2 DEF LoadTranscript
  <2>3. CASE v.opened_at_ms < boot.transcripts
    BY <2>1, <2>3
  <2> QED BY <1>4, <2>1, <2>2, <2>3 DEF TranscriptsAreKept
<1> QED BY <1>3, <1>4 DEF EvidenceResolves

LEMMA ServedIsYoung ==
  ASSUME MonitorsInv, NothingStoredHasExpired
  PROVE  NothingExpiredIsServed
<1>0. Typed /\ RowsInv /\ BoardTyped(board) /\ EnrolmentIsStored
  BY DEF MonitorsInv, Typed
<1>1. \A s \in registry : s \in DOMAIN db.sessions /\ db.sessions[s].updated_ms >= boot.cutoff
  BY DEF NothingStoredHasExpired
<1>2. ASSUME NEW s \in DOMAIN board \ registry
      PROVE  ~board[s].known /\ RowsOn(db.violations, s) # {}
  <2>1. PICK i \in DOMAIN db.violations : db.violations[i].session_id = s
    BY <1>0 DEF RowsInv, BoardIsKnown
  <2>2. db.violations[i] \in RowsOn(db.violations, s)
    BY <2>1 DEF RowsOn, ToSet
  <2>3. ~board[s].known
    BY <1>0 DEF RowsInv, BoardIsKnown
  <2> QED BY <2>2, <2>3
<1>3. ASSUME NEW s \in DOMAIN board \ failed, NEW id \in board[s].open
      PROVE  \E v \in ToSet(db.violations) : v.id = id /\ v.recorded_ms >= boot.cutoff
  <2>1. s \in Sessions \ failed /\ id \in OpenOn(board, s)
    BY <1>0 DEF BoardTyped, OpenOn
  <2>2. PICK i \in DOMAIN db.violations : db.violations[i].id = id
    BY <1>0, <2>1 DEF RowsInv, OpenIsStored
  <2> QED BY <2>2 DEF NothingStoredHasExpired, ToSet
<1>4. ASSUME NEW s \in Sessions \ failed, verifier[s].enrolment # None
      PROVE  db.identity_templates[s].created_ms >= boot.templates
  BY <1>0, <1>4 DEF EnrolmentIsStored, NothingStoredHasExpired
<1>5. \A id \in DOMAIN db.audio_transcripts :
        LoadTranscript(db, id).recorded_ms >= boot.transcripts
  BY DEF NothingStoredHasExpired, LoadTranscript
<1> QED BY <1>1, <1>2, <1>3, <1>4, <1>5 DEF NothingExpiredIsServed

---------------------------------------------------------------------------
(* Rows in the order of the clock, newest first.                           *)

\* How many members of a listed set come after one of them.
LEMMA Above ==
  ASSUME NEW S \in SUBSET Nat, IsFiniteSet(S), NEW e, Ascends(e, S),
         NEW k \in 1 .. Cardinality(S)
  PROVE  /\ IsFiniteSet({j \in S : j > e[k]})
         /\ Cardinality({j \in S : j > e[k]}) = Cardinality(S) - k
<1> DEFINE B == {j \in S : j < e[k]}
           n == Cardinality(S)
<1>1. n \in Nat /\ e[k] \in S /\ e[k] \in Nat /\ Cardinality(B) = k - 1
  BY DEF Ascends
<1>2. IsFiniteSet(B) /\ B \in SUBSET S
  BY FS_Subset
<1>3. e[k] \notin B
  BY <1>1
<1>4. IsFiniteSet(B \cup {e[k]}) /\ Cardinality(B \cup {e[k]}) = k
  <2>1. Cardinality(B \cup {e[k]}) = Cardinality(B) + 1 /\ IsFiniteSet(B \cup {e[k]})
    BY <1>2, <1>3, FS_AddElement
  <2> QED BY <1>1, <2>1
<1>5. S \cap (B \cup {e[k]}) = B \cup {e[k]}
  BY <1>1, <1>2
<1>6. S \ (B \cup {e[k]}) = {j \in S : j > e[k]}
  <2>1. \A j \in S : j > e[k] <=> ~(j < e[k]) /\ j # e[k]
    BY <1>1
  <2> QED BY <2>1
<1>7. /\ IsFiniteSet(S \ (B \cup {e[k]}))
      /\ Cardinality(S \ (B \cup {e[k]})) =
           Cardinality(S) - Cardinality(S \cap (B \cup {e[k]}))
  BY FS_Difference
<1> QED BY <1>4, <1>5, <1>6, <1>7

\* The last m of them.
LastMembers(S, m) == {i \in S : Cardinality({j \in S : j > i}) < m}

LEMMA LastMembersAre ==
  ASSUME NEW S \in SUBSET Nat, IsFiniteSet(S), NEW e, Ascends(e, S),
         NEW m \in 0 .. Cardinality(S)
  PROVE  /\ IsFiniteSet(LastMembers(S, m)) /\ Cardinality(LastMembers(S, m)) = m
         /\ \A k \in 1 .. Cardinality(S) :
              /\ e[k] \in LastMembers(S, m) <=> k > Cardinality(S) - m
              /\ k > Cardinality(S) - m =>
                   Cardinality({j \in LastMembers(S, m) : j > e[k]}) = Cardinality(S) - k
<1> DEFINE n == Cardinality(S)
           U == LastMembers(S, m)
<1>1. /\ n \in Nat /\ m \in Nat /\ m =< n
      /\ \A k \in 1 .. n : e[k] \in S
      /\ \A k, l \in 1 .. n : k < l => e[k] < e[l]
      /\ \A i \in S : \E k \in 1 .. n : e[k] = i
  <2>1. n \in Nat
    BY DEF Ascends
  <2>2. m \in Nat /\ m =< n
    BY <2>1
  <2>3. /\ \A k \in 1 .. n : e[k] \in S
        /\ \A k, l \in 1 .. n : k < l => e[k] < e[l]
        /\ \A i \in S : \E k \in 1 .. n : e[k] = i
    BY DEF Ascends
  <2> QED BY <2>1, <2>2, <2>3
<1>2. ASSUME NEW k \in 1 .. n PROVE Cardinality({j \in S : j > e[k]}) = n - k
  BY Above
<1>3. ASSUME NEW k \in 1 .. n PROVE e[k] \in U <=> k > n - m
  <2>1. e[k] \in U <=> n - k < m
    BY <1>1, <1>2 DEF LastMembers
  <2> QED BY <1>1, <2>1
<1>4. U \in SUBSET S /\ IsFiniteSet(U)
  BY FS_Subset DEF LastMembers
<1> HIDE DEF n, U
<1>5. ASSUME NEW k \in 1 .. n, k > n - m PROVE {j \in U : j > e[k]} = {j \in S : j > e[k]}
  <2>1. ASSUME NEW j \in S, j > e[k] PROVE j \in U
    <3>1. PICK l \in 1 .. n : e[l] = j
      BY <1>1
    <3>2. ~(l < k) /\ l # k
      <4>1. e[k] \in Nat /\ e[l] \in Nat
        BY <1>1
      <4> QED BY <1>1, <2>1, <3>1, <4>1
    <3>3. l > n - m
      BY <1>1, <1>5, <3>2
    <3> QED BY <1>3, <3>1, <3>3
  <2> QED BY <1>4, <2>1
<1>6. Cardinality(U) = m
  <2>1. CASE m = n
    <3>1. \A k \in 1 .. n : e[k] \in U
      BY <1>1, <1>3, <2>1
    <3>2. U = S
      BY <1>1, <1>4, <3>1
    <3> QED BY <2>1, <3>2 DEF n
  <2>2. CASE m < n
    <3>1. PICK k \in 1 .. n : k = n - m
      BY <1>1, <2>2
    <3>2. U = {j \in S : j > e[k]}
      <4>1. ASSUME NEW l \in 1 .. n PROVE e[l] \in U <=> e[l] > e[k]
        <5>1. e[l] \in Nat /\ e[k] \in Nat /\ l \in Nat /\ k \in Nat
          <6>1. e[l] \in S /\ e[k] \in S
            BY <1>1
          <6>2. \A x \in S : x \in Nat
            OBVIOUS
          <6>3. l \in Nat /\ k \in Nat
            BY <1>1
          <6> QED BY <6>1, <6>2, <6>3
        <5>2. l > k => e[l] > e[k]
          BY <1>1, <5>1
        <5>3. ASSUME ~(l > k) PROVE ~(e[l] > e[k])
          <6>1. l < k \/ l = k
            BY <5>1, <5>3
          <6>2. l < k => e[l] < e[k]
            BY <1>1
          <6> QED BY <5>1, <6>1, <6>2
        <5> QED BY <1>3, <3>1, <5>2, <5>3
      <4> QED BY <1>1, <1>4, <4>1
    <3>3. Cardinality(U) = n - k
      BY <1>2, <3>2
    <3> QED BY <1>1, <3>1, <3>3
  <2> QED BY <1>1, <2>1, <2>2
<1>7. \A k \in 1 .. n : k > n - m => Cardinality({j \in U : j > e[k]}) = n - k
  BY <1>2, <1>5
<1> QED BY <1>3, <1>4, <1>6, <1>7 DEF n, U

\* The last m of a sequence, the last of them first.
NewestOn(z, m) == [k \in 1 .. m |-> z[Len(z) + 1 - k]]

\* The rows of a session in the order of the clock are, from the newest on,
\* those it has had since a start, from the last one on.
LEMMA NewestAreLast ==
  ASSUME NEW T, NEW p \in Seq(T), \A r \in T : r.recorded_ms \in Nat,
         InOrder(p), NEW s, NEW start \in Nat,
         NEW m \in 0 .. Len(Since(p, s, start))
  PROVE  NewestFirst(p, s, m) = NewestOn(Since(p, s, start), m)
<1> DEFINE A == RowsOf(p, s)
           S == SinceAt(p, s, start)
           n == Cardinality(S)
           e == Sorted(S, <)
           U == LastMembers(S, m)
           After(i, j) == RecordedBefore(p, j, i)
           f == Sorted(U, After)
<1>1. \A i \in DOMAIN p : i \in Nat /\ p[i].recorded_ms \in Nat
  BY PositionsAre
<1>2. \A i, j \in DOMAIN p : RecordedBefore(p, i, j) <=> i < j
  <2> SUFFICES ASSUME NEW i \in DOMAIN p, NEW j \in DOMAIN p
               PROVE  RecordedBefore(p, i, j) <=> i < j
    OBVIOUS
  <2>1. /\ i \in Nat /\ j \in Nat
        /\ p[i].recorded_ms \in Nat /\ p[j].recorded_ms \in Nat
    BY <1>1
  <2>2. /\ i < j => p[i].recorded_ms =< p[j].recorded_ms
        /\ j < i => p[j].recorded_ms =< p[i].recorded_ms
    BY DEF InOrder
  <2> QED BY <2>1, <2>2 DEF RecordedBefore
<1>3. /\ S \in SUBSET A /\ A \in SUBSET DOMAIN p /\ S \in SUBSET Nat /\ IsFiniteSet(S)
      /\ IsFiniteSet(A) /\ A \in SUBSET Nat
      /\ Ascends(e, S)
      /\ Since(p, s, start) = [k \in 1 .. n |-> p[e[k]]] /\ Len(Since(p, s, start)) = n
  <2>1. Lists(Since(p, s, start), p, T, S, e)
    BY SinceIs
  <2>2. S \in SUBSET A /\ A \in SUBSET DOMAIN p
    BY DEF SinceAt, RowsOf
  <2>3. IsFiniteSet(A) /\ A \in SUBSET Nat
    BY <1>1, <2>2, PositionsAre, FS_Subset
  <2> HIDE DEF A, S, e
  <2> QED BY <2>1, <2>2, <2>3 DEF Lists
<1>4. n \in Nat /\ m \in Nat /\ m =< n /\ m \in 0 .. n
  <2>1. n \in Nat
    <3> HIDE DEF S, e
    <3> QED BY <1>3 DEF Ascends
  <2>2. m \in 0 .. n
    BY <1>3
  <2> QED BY <2>1, <2>2
<1>5. ASSUME NEW i \in S PROVE {j \in A : RecordedBefore(p, i, j)} = {j \in S : j > i}
  <2>1. \A j \in A : j > i => j \in S
    <3>1. i \in Nat /\ i > start /\ \A j \in A : j \in Nat
      BY <1>3 DEF SinceAt
    <3>2. \A j \in A : j > i => j > start
      BY <3>1
    <3> QED BY <3>2 DEF SinceAt
  <2>2. \A j \in A : RecordedBefore(p, i, j) <=> j > i
    BY <1>2, <1>3
  <2> QED BY <1>3, <2>1, <2>2
<1>6. ASSUME NEW i \in A, i \notin S
      PROVE  ~(Cardinality({j \in A : RecordedBefore(p, i, j)}) < m)
  <2>1. S \in SUBSET {j \in A : RecordedBefore(p, i, j)}
    <3>1. i \in Nat /\ ~(i > start) /\ \A j \in S : j \in Nat /\ j > start
      BY <1>3, <1>6 DEF SinceAt
    <3>2. \A j \in S : i < j
      BY <3>1
    <3>3. \A j \in S : j \in A /\ RecordedBefore(p, i, j)
      BY <1>2, <1>3, <3>2
    <3> QED BY <3>3
  <2>2. IsFiniteSet({j \in A : RecordedBefore(p, i, j)})
    BY <1>3, FS_Subset
  <2>3. /\ n =< Cardinality({j \in A : RecordedBefore(p, i, j)})
        /\ Cardinality({j \in A : RecordedBefore(p, i, j)}) \in Nat
    BY <2>1, <2>2, FS_Subset, FS_CardinalityType
  <2> QED BY <1>4, <2>3
<1>7. NewestOf(p, s, m) = U
  <2>1. \A i \in S : i \in A /\ (i \in NewestOf(p, s, m) <=> i \in U)
    BY <1>3, <1>5 DEF NewestOf, LastMembers
  <2>2. \A i \in A : i \in NewestOf(p, s, m) => i \in S
    BY <1>6 DEF NewestOf
  <2>3. NewestOf(p, s, m) \subseteq A /\ U \subseteq S
    BY DEF NewestOf, LastMembers
  <2> HIDE DEF A, S, U
  <2> QED BY <2>1, <2>2, <2>3
<1>8. /\ IsFiniteSet(U) /\ Cardinality(U) = m
      /\ \A k \in 1 .. n : (e[k] \in U <=> k > n - m)
           /\ (k > n - m => Cardinality({j \in U : j > e[k]}) = n - k)
  <2> HIDE DEF S, e
  <2> QED BY <1>3, <1>4, LastMembersAre
<1>9. U \in SUBSET DOMAIN p /\ \A i \in U : \E k \in 1 .. n : e[k] = i
  <2>1. U \subseteq S
    BY DEF LastMembers
  <2>2. \A i \in S : \E k \in 1 .. n : e[k] = i
    BY <1>3 DEF Ascends
  <2> HIDE DEF S, e, U
  <2> QED BY <1>3, <2>1, <2>2
<1>10. NewestFirst(p, s, m) = [k \in DOMAIN f |-> p[f[k]]]
  BY <1>7 DEF NewestFirst
<1> HIDE DEF A, S, e, U
<1>11. \A i \in U : {j \in U : After(j, i)} = {j \in U : j > i}
  BY <1>2, <1>9
<1>12. DOMAIN f = 1 .. m
  BY <1>8 DEF Sorted
<1>13. ASSUME NEW k \in 1 .. m PROVE f[k] = e[n + 1 - k]
  <2>1. PICK l \in 1 .. n : l = n + 1 - k /\ l > n - m /\ n - l = k - 1
    BY <1>4
  <2>2. e[l] \in U /\ Cardinality({j \in U : After(j, e[l])}) = k - 1
    BY <1>8, <1>11, <2>1
  <2>3. f[k] = CHOOSE i \in U : Cardinality({j \in U : After(j, i)}) = k - 1
    BY <1>8 DEF Sorted
  <2>4. f[k] \in U /\ Cardinality({j \in U : After(j, f[k])}) = k - 1
    <3> HIDE DEF f, After
    <3> QED BY <2>2, <2>3
  <2> HIDE DEF f
  <2>5. PICK x \in 1 .. n : f[k] = e[x]
    BY <1>9, <2>4
  <2>6. n - x = k - 1
    BY <1>8, <1>11, <2>4, <2>5
  <2>7. x = l
    BY <1>4, <2>1, <2>6
  <2> QED BY <2>1, <2>5, <2>7
<1> HIDE DEF f
<1>14. ASSUME NEW k \in 1 .. m
       PROVE  p[f[k]] = Since(p, s, start)[n + 1 - k]
  <2>1. n + 1 - k \in 1 .. n
    BY <1>4
  <2> QED BY <1>3, <1>13, <2>1
<1> QED BY <1>3, <1>10, <1>12, <1>14 DEF NewestOn

\* The same, of rows that have been read already.
LEMMA ShownNewest ==
  ASSUME NEW T, NEW p \in Seq(T), \A r \in T : r.recorded_ms \in Nat,
         InOrder(p), NEW s, NEW start \in Nat,
         NEW z, z = Since(p, s, start), NEW m \in 0 .. Len(z)
  PROVE  NewestFirst(p, s, m) = NewestOn(z, m)
<1>1. m \in 0 .. Len(Since(p, s, start))
  OBVIOUS
<1> QED BY <1>1, NewestAreLast

---------------------------------------------------------------------------
(* What was on record when a flag was raised.                              *)

\* A purge adds nothing.
LEMMA YoungerAreFewer ==
  ASSUME NEW T, NEW p \in Seq(T), NEW cutoff
  PROVE  Len(Younger(p, cutoff)) \in Nat /\ Len(Younger(p, cutoff)) =< Len(p)
<1> DEFINE S == {i \in DOMAIN p : p[i].recorded_ms >= cutoff}
           e == Sorted(S, <)
<1>1. S \in SUBSET DOMAIN p
  OBVIOUS
<1>2. Younger(p, cutoff) = [k \in DOMAIN e |-> p[e[k]]]
  BY DEF Younger
<1> HIDE DEF S
<1>3. DOMAIN e = 1 .. Cardinality(S)
  BY DEF Sorted
<1>4. IsFiniteSet(S) /\ Cardinality(S) =< Cardinality(DOMAIN p)
  BY <1>1, PositionsAre, FS_Subset
<1>5. Cardinality(S) \in Nat /\ Cardinality(DOMAIN p) = Len(p)
  <2>1. Len(p) \in Nat /\ DOMAIN p = 1 .. Len(p)
    BY PositionsAre
  <2>2. Cardinality(1 .. Len(p)) = Len(p)
    BY <2>1, FS_Interval
  <2> QED BY <1>4, <2>1, <2>2, FS_CardinalityType
<1> HIDE DEF e
<1>6. DOMAIN Younger(p, cutoff) = 1 .. Cardinality(S)
  BY <1>2, <1>3
<1>7. Younger(p, cutoff) \in Seq(T)
  BY YoungerOf
<1>8. Len(Younger(p, cutoff)) = Cardinality(S)
  BY <1>5, <1>6, <1>7
<1> QED BY <1>4, <1>5, <1>8

\* The steps that raise what the monitors find.
ProbeRaises(s, o, rule) ==
  /\ Probes(s, o) /\ rule = IdentityRule(Probe(verifier[s], o).status)
  /\ FindingIn(verifier[s], Probe(verifier[s], o))
  /\ db'.identity_checks = Append(db.identity_checks, ProbeRow(s, o, now))

HearingRaises(s, id, label, t) ==
  Hears(s, id, label, t) /\ Sustained(audio[s], Record(audio[s], label))

\* A row that is added and not a telemetry rule is the finding of a monitor.
LEMMA RaisedBy ==
  ASSUME Typed, CallsTyped, OwnRowsAreKnown, ChecksTyped, [Next]_vars,
         NEW rule, rule # "rule", Raised(rule)
  PROVE  /\ Works /\ MonitorStep
         /\ LET s == Last(db'.violations).session_id IN
            /\ s \in registry
            /\ \/ \E o \in ProbeOutcomes : ProbeRaises(s, o, rule)
               \/ /\ rule = "audio_seeking_help"
                  /\ \E id \in Nat, label \in IntentLabels, t \in Nat :
                       HearingRaises(s, id, label, t)
<1>0. db.violations \in Seq(Row) /\ Len(db.violations) \in Nat
  <2>1. db.violations \in Seq(Row)
    BY DEF Typed, StoreTyped
  <2> QED BY <2>1, RowsAre
<1>1. ASSUME NEW d, Starts(d) PROVE FALSE
  <2>1. db'.violations = Younger(db.violations, Cutoff(RetentionDays))
    BY <1>1, StartLeaves
  <2>2. /\ Len(Younger(db.violations, Cutoff(RetentionDays))) \in Nat
        /\ Len(Younger(db.violations, Cutoff(RetentionDays))) =< Len(db.violations)
    BY <1>0, YoungerAreFewer
  <2> QED BY <1>0, <2>1, <2>2 DEF Raised
<1>2. Works /\ MonitorStep
  BY <1>1, MonitorsStepOrStart
<1>3. db'.violations # db.violations
  BY <1>0 DEF Raised
<1>4. ASSUME NEW s, NEW r, Reports(s, r)
      PROVE  Last(db'.violations).session_id = s /\ rule = r
  <2>1. PICK v : db'.violations = Append(db.violations, v) /\ v.session_id = s /\ v.rule_id = r
    BY <1>4 DEF Reports
  <2>2. Last(db'.violations) = v
    BY <1>0, <2>1 DEF Last
  <2> QED BY <2>1, <2>2 DEF Raised
<1>5. ~Stands
  BY <1>3, <1>4 DEF Stands
<1>6. ASSUME NEW s \in registry, NEW r PROVE ~Enrols(s, r)
  BY <1>3 DEF Enrols
<1>7. ASSUME NEW s \in registry, NEW o \in ProbeOutcomes, Probes(s, o)
      PROVE  ProbeRaises(s, o, rule) /\ Last(db'.violations).session_id = s
  <2>1. /\ db'.identity_checks = Append(db.identity_checks, ProbeRow(s, o, now))
        /\ FindingIn(verifier[s], Probe(verifier[s], o))
        /\ Reports(s, IdentityRule(Probe(verifier[s], o).status))
    BY <1>3, <1>7 DEF Probes
  <2>2. Last(db'.violations).session_id = s /\ rule = IdentityRule(Probe(verifier[s], o).status)
    BY <1>4, <2>1
  <2> QED BY <1>7, <2>1, <2>2 DEF ProbeRaises
<1>8. ASSUME NEW s \in registry, NEW id \in Nat, NEW label \in IntentLabels, NEW t \in Nat,
             Hears(s, id, label, t)
      PROVE  /\ HearingRaises(s, id, label, t) /\ rule = "audio_seeking_help"
             /\ Last(db'.violations).session_id = s
  <2>1. Sustained(audio[s], Record(audio[s], label)) /\ Reports(s, "audio_seeking_help")
    BY <1>3, <1>8 DEF Hears
  <2> QED BY <1>4, <1>8, <2>1 DEF HearingRaises
<1> QED BY <1>2, <1>5, <1>6, <1>7, <1>8 DEF MonitorStep

\* As many from the front as from the back.
LEMMA Mirrored ==
  ASSUME NEW m \in Nat, NEW A \in SUBSET (1 .. m), NEW B \in SUBSET (1 .. m),
         \A k \in 1 .. m : k \in A <=> m + 1 - k \in B
  PROVE  Cardinality(A) = Cardinality(B)
<1> DEFINE f == [k \in A |-> m + 1 - k]
<1>1. IsFiniteSet(A)
  <2>1. IsFiniteSet(1 .. m)
    BY FS_Interval
  <2> QED BY <2>1, FS_Subset
<1>2. f \in [A -> B]
  OBVIOUS
<1>3. \A k, l \in A : f[k] = f[l] => k = l
  <2> SUFFICES ASSUME NEW k \in A, NEW l \in A, f[k] = f[l] PROVE k = l
    OBVIOUS
  <2>1. k \in Int /\ l \in Int /\ m + 1 - k = m + 1 - l
    OBVIOUS
  <2> QED BY <2>1
<1>4. \A j \in B : \E k \in A : f[k] = j
  <2> SUFFICES ASSUME NEW j \in B PROVE \E k \in A : f[k] = j
    OBVIOUS
  <2>1. PICK k \in 1 .. m : k = m + 1 - j /\ m + 1 - k = j
    OBVIOUS
  <2>2. k \in A
    BY <2>1
  <2> QED BY <2>1, <2>2
<1> HIDE DEF f
<1>5. f \in Bijection(A, B)
  BY <1>2, <1>3, <1>4 DEF Bijection, Injection, Surjection, IsInjective
<1> QED BY <1>1, <1>5, FS_Bijection DEF ExistsBijection

LEMMA HelpMirrored ==
  ASSUME NEW q \in Seq(IntentLabels), NEW m \in Nat, m = Room(q, HelpWindow)
  PROVE  HelpIn([k \in 1 .. m |-> q[Len(q) + 1 - k]]) = HelpIn(Judged(q))
<1> DEFINE x == [k \in 1 .. m |-> q[Len(q) + 1 - k]]
           y == [k \in 1 .. m |-> q[Len(q) - m + k]]
           A == {k \in 1 .. m : x[k] = "seeking_help"}
           B == {k \in 1 .. m : y[k] = "seeking_help"}
<1>1. Judged(q) = y
  <2>1. HelpWindow \in Nat
    BY AudioAssumption
  <2>2. LastOf(q, HelpWindow) = Latest(q, HelpWindow)
    BY <2>1, LastOfIs
  <2> QED BY <2>2 DEF Judged, Latest
<1>2. Len(q) \in Nat
  OBVIOUS
<1>3. \A k \in 1 .. m : k \in A <=> m + 1 - k \in B
  <2> SUFFICES ASSUME NEW k \in 1 .. m PROVE k \in A <=> m + 1 - k \in B
    OBVIOUS
  <2>1. PICK l \in 1 .. m : l = m + 1 - k /\ Len(q) - m + l = Len(q) + 1 - k
    BY <1>2
  <2>2. x[k] = y[l]
    BY <2>1
  <2> HIDE DEF x, y
  <2> QED BY <2>1, <2>2
<1>4. Cardinality(A) = Cardinality(B)
  <2> HIDE DEF A, B
  <2>1. A \in SUBSET (1 .. m) /\ B \in SUBSET (1 .. m)
    BY DEF A, B
  <2> QED BY <1>3, <2>1, Mirrored
<1>5. DOMAIN x = 1 .. m /\ DOMAIN y = 1 .. m
  OBVIOUS
<1> HIDE DEF x, y
<1>6. HelpIn(x) = Cardinality(A) /\ HelpIn(y) = Cardinality(B)
  BY <1>5 DEF HelpIn
<1> QED BY <1>1, <1>4, <1>6 DEF x

\* The labels a reviewer is shown first.
Shown(s) ==
  LoadAudioChecks(db', s, Min({HelpWindow, Len(Since(db'.audio_checks, s, boot.audio))}))

LEMMA HelpIsShown ==
  ASSUME MonitorsInv, RemembersInv, [Next]_vars, Raised("audio_seeking_help"),
         NEW s, s = Last(db'.violations).session_id, InOrder(db'.audio_checks)
  PROVE  HelpIn([i \in DOMAIN Shown(s) |-> Shown(s)[i].label]) >= HelpRequired
<1>0. Typed /\ CallsTyped /\ OwnRowsAreKnown /\ ChecksTyped
  BY DEF MonitorsInv, RowsInv, RemembersInv
<1>1. /\ s \in registry /\ boot' = boot
      /\ \E id \in Nat, label \in IntentLabels, t \in Nat : HearingRaises(s, id, label, t)
  <2>1. \A o : "audio_seeking_help" # IdentityRule(Probe(verifier[s], o).status)
    BY DEF IdentityRule
  <2> QED BY <1>0, <2>1, RaisedBy DEF ProbeRaises, Works
<1>2. (AudioRemembers /\ ChecksTyped)'
  BY StepRemembers DEF RemembersInv
<1>3. PICK a \in Seq(AudioCheck), start \in Nat :
        a = db'.audio_checks /\ start = boot.audio /\ boot'.audio = start
  BY <1>0, <1>1, <1>2 DEF ChecksTyped
<1>4. s \in Sessions /\ DOMAIN audio = Sessions
  BY <1>0, <1>1 DEF Typed, ChecksTyped
<1>5. PICK q \in Seq(IntentLabels) : q = Labels(db', s, start)
  <2>1. PICK d : d = db'
    OBVIOUS
  <2>2. Labels(d, s, start) \in Seq(IntentLabels)
    BY <1>3, <2>1, LabelsAre
  <2> QED BY <2>1, <2>2
<1>6. audio'[s].recent = LastOf(q, RecentLabels)
  BY <1>2, <1>3, <1>4, <1>5 DEF AudioRemembers
<1>7. Judged(audio'[s].recent) = Judged(q)
  BY <1>6, AudioAssumption, LastOfLast DEF Judged
<1>8. audio'[s].status # "quiet"
  BY <1>1, <1>4 DEF HearingRaises, Hears, Sustained
<1>9. HelpIn(Judged(q)) >= HelpRequired
  BY <1>2, <1>4, <1>7, <1>8 DEF AudioRemembers
<1>10. PICK z \in Seq(AudioCheck) : z = Since(a, s, start)
  <2>1. Lists(Since(a, s, start), a, AudioCheck, SinceAt(a, s, start),
              Sorted(SinceAt(a, s, start), <))
    BY SinceIs
  <2> QED BY <2>1 DEF Lists
<1>11. q = [i \in DOMAIN z |-> z[i].label] /\ Len(q) = Len(z) /\ Len(z) \in Nat
  BY <1>3, <1>5, <1>10 DEF Labels
<1>12. PICK m \in Nat : /\ m = Room(q, HelpWindow) /\ m =< Len(z)
                        /\ Min({HelpWindow, Len(z)}) = m
  <2>1. HelpWindow \in Nat
    BY AudioAssumption
  <2>2. PICK c \in Nat : /\ c = Len(z)
                         /\ Room(q, HelpWindow) = IF HelpWindow =< c THEN HelpWindow ELSE c
    BY <1>11 DEF Room
  <2>3. PICK m \in Nat : /\ m = Room(q, HelpWindow) /\ m =< c /\ m =< HelpWindow
                         /\ m \in {HelpWindow, c}
    BY <2>1, <2>2
  <2>4. \A x \in {HelpWindow, c} : (\A y \in {HelpWindow, c} : x =< y) => x = m
    BY <2>1, <2>3
  <2>5. \A y \in {HelpWindow, c} : m =< y
    BY <2>1, <2>3
  <2>6. Min({HelpWindow, c}) = m
    BY <2>3, <2>4, <2>5 DEF Min
  <2> QED BY <2>2, <2>3, <2>6
<1>13. Shown(s) = [k \in 1 .. m |-> z[Len(z) + 1 - k]]
  <2>1. InOrder(a) /\ z = Since(a, s, start) /\ m \in 0 .. Len(z)
    BY <1>3, <1>10, <1>11, <1>12
  <2>2. \A r \in AudioCheck : r.recorded_ms \in Nat
    BY DEF AudioCheck
  <2>3. NewestFirst(a, s, m) = NewestOn(z, m)
    BY <2>1, <2>2, ShownNewest
  <2> QED BY <1>3, <1>10, <1>12, <2>3 DEF Shown, LoadAudioChecks, NewestOn
<1>14. [i \in DOMAIN Shown(s) |-> Shown(s)[i].label] =
         [k \in 1 .. m |-> q[Len(q) + 1 - k]]
  <2>1. \A k \in 1 .. m : Len(q) + 1 - k \in DOMAIN z
    BY <1>11, <1>12
  <2> QED BY <1>11, <1>13, <2>1
<1>15. HelpIn([k \in 1 .. m |-> q[Len(q) + 1 - k]]) = HelpIn(Judged(q))
  BY <1>12, HelpMirrored
<1> QED BY <1>9, <1>14, <1>15

\* What moves by a distance into a finite set is not larger.
LEMMA Shifted ==
  ASSUME NEW S \in SUBSET Nat, NEW T, IsFiniteSet(T), NEW d \in Int,
         \A i \in S : i + d \in T
  PROVE  IsFiniteSet(S) /\ Cardinality(S) =< Cardinality(T)
<1> DEFINE f == [i \in S |-> i + d]
<1>1. f \in Injection(S, T)
  <2>1. f \in [S -> T]
    OBVIOUS
  <2>2. \A i, j \in S : f[i] = f[j] => i = j
    OBVIOUS
  <2> QED BY <2>1, <2>2 DEF Injection, IsInjective
<1> HIDE DEF f
<1> QED BY <1>1, FS_Injection

\* Every mismatch that the end of a history is judged by is one of the whole.
LEMMA EndMismatchesLess ==
  ASSUME NEW T, NEW q \in Seq(T), NEW n \in Nat
  PROVE  /\ Mismatched(LastOf(q, n)) \in Nat /\ Mismatched(q) \in Nat
         /\ Mismatched(LastOf(q, n)) =< Mismatched(q)
<1> DEFINE x == LastOf(q, n)
           d == Len(q) - Room(q, n)
           A == {i \in Assessed(x) : x[i] = "mismatch"}
           B == {i \in Assessed(q) : q[i] = "mismatch"}
<1>1. /\ x \in Seq(T) /\ Len(x) = Room(q, n) /\ Room(q, n) \in Nat /\ Room(q, n) =< Len(q)
      /\ x = Latest(q, n)
  BY LastOfIs
<1>2. Len(q) \in Nat /\ d \in Nat
  BY <1>1
<1>3. DOMAIN x = 1 .. Len(x) /\ DOMAIN q = 1 .. Len(q)
  BY <1>1
<1>4. \A i \in DOMAIN x : i + d \in DOMAIN q /\ x[i] = q[i + d]
  BY <1>1, <1>2, <1>3 DEF Latest
<1> HIDE DEF x, d
<1>5. ASSUME NEW i \in Assessed(x) PROVE i + d \in Assessed(q) /\ x[i] = q[i + d]
  <2> DEFINE S == {j \in Assessable(q) : j > i + d}
             U == {j \in Assessable(x) : j > i}
  <2>1. i \in DOMAIN x /\ x[i] # "not_assessable" /\ Cardinality(U) < Window
    BY DEF Assessed, Assessable
  <2>2. i + d \in Assessable(q) /\ x[i] = q[i + d]
    BY <1>4, <2>1 DEF Assessable
  <2>3. U \in SUBSET DOMAIN x /\ IsFiniteSet(U)
    <3>1. U \in SUBSET DOMAIN x
      BY DEF Assessable
    <3>2. IsFiniteSet(1 .. Len(x))
      BY <1>1, FS_Interval
    <3> QED BY <1>3, <3>1, <3>2, FS_Subset
  <2>4. S \in SUBSET Nat
    BY <1>3 DEF Assessable
  <2>5. \A j \in S : j + (0 - d) \in U
    <3> SUFFICES ASSUME NEW j \in S PROVE j + (0 - d) \in U
      OBVIOUS
    <3>1. j \in 1 .. Len(q) /\ q[j] # "not_assessable" /\ j > i + d /\ i \in Nat
      BY <1>3, <2>1 DEF Assessable
    <3>2. PICK k \in Nat : k = j + (0 - d) /\ k > i /\ k + d = j
      BY <1>2, <3>1
    <3>3. k \in DOMAIN x
      <4>1. Len(x) = Len(q) - d
        BY <1>1, <1>2 DEF d
      <4>2. Len(x) \in Nat
        BY <1>1
      <4> QED BY <1>2, <1>3, <2>1, <3>1, <3>2, <4>1, <4>2
    <3>4. x[k] = q[j]
      BY <1>4, <3>2, <3>3
    <3> QED BY <3>1, <3>2, <3>3, <3>4 DEF Assessable
  <2> HIDE DEF S, U
  <2>6. 0 - d \in Int
    BY <1>2
  <2>7. IsFiniteSet(S) /\ Cardinality(S) =< Cardinality(U)
    BY <2>3, <2>4, <2>5, <2>6, Shifted
  <2>8. Cardinality(S) \in Nat /\ Cardinality(U) \in Nat /\ Window \in Nat
    BY <2>3, <2>7, FS_CardinalityType, VerificationAssumption
  <2>9. Cardinality(S) < Window
    BY <2>1, <2>7, <2>8
  <2> QED BY <2>2, <2>9 DEF S, Assessed
<1>6. A \in SUBSET Nat /\ IsFiniteSet(B)
  <2>1. A \in SUBSET DOMAIN x /\ B \in SUBSET DOMAIN q
    BY DEF Assessed, Assessable
  <2>2. IsFiniteSet(1 .. Len(q))
    BY <1>2, FS_Interval
  <2> HIDE DEF A, B
  <2>3. \A i \in 1 .. Len(x) : i \in Nat
    OBVIOUS
  <2> QED BY <1>3, <2>1, <2>2, <2>3, FS_Subset
<1>7. \A i \in A : i + d \in B
  BY <1>5
<1>8. IsFiniteSet(A) /\ Cardinality(A) =< Cardinality(B)
  <2> HIDE DEF A, B
  <2>1. d \in Int
    BY <1>2
  <2> QED BY <1>6, <1>7, <2>1, Shifted
<1>9. Mismatched(x) = Cardinality(A) /\ Mismatched(q) = Cardinality(B)
  BY DEF Mismatched
<1>10. Cardinality(A) \in Nat /\ Cardinality(B) \in Nat
  <2> HIDE DEF A, B
  <2> QED BY <1>6, <1>8, FS_CardinalityType
<1> QED BY <1>8, <1>9, <1>10 DEF x

\* A match adds no mismatch.
LEMMA MatchAddsNone ==
  ASSUME NEW T, NEW r \in Seq(T)
  PROVE  /\ Mismatched(Append(r, "match")) \in Nat /\ Mismatched(r) \in Nat
         /\ Mismatched(Append(r, "match")) =< Mismatched(r)
<1> DEFINE y == Append(r, "match")
           A == {i \in Assessed(y) : y[i] = "mismatch"}
           B == {i \in Assessed(r) : r[i] = "mismatch"}
<1>1. /\ Len(r) \in Nat /\ DOMAIN r = 1 .. Len(r) /\ DOMAIN y = 1 .. Len(r) + 1
      /\ y[Len(r) + 1] = "match" /\ \A i \in DOMAIN r : y[i] = r[i]
  OBVIOUS
<1> HIDE DEF y
<1>2. ASSUME NEW i \in Assessed(y), y[i] = "mismatch"
      PROVE  i \in Assessed(r) /\ r[i] = "mismatch"
  <2> DEFINE S == {j \in Assessable(r) : j > i}
             U == {j \in Assessable(y) : j > i}
  <2>1. i \in DOMAIN y /\ Cardinality(U) < Window
    BY DEF Assessed, Assessable
  <2>2. i \in DOMAIN r /\ r[i] = "mismatch"
    BY <1>1, <1>2, <2>1
  <2>3. S \in SUBSET U
    BY <1>1 DEF Assessable
  <2>4. IsFiniteSet(U)
    <3>1. U \in SUBSET (1 .. Len(r) + 1)
      BY <1>1 DEF Assessable
    <3>2. IsFiniteSet(1 .. Len(r) + 1)
      BY <1>1, FS_Interval
    <3> HIDE DEF U
    <3> QED BY <3>1, <3>2, FS_Subset
  <2> HIDE DEF S, U
  <2>5. IsFiniteSet(S) /\ Cardinality(S) =< Cardinality(U)
    BY <2>3, <2>4, FS_Subset
  <2>6. Cardinality(S) \in Nat /\ Cardinality(U) \in Nat /\ Window \in Nat
    BY <2>4, <2>5, FS_CardinalityType, VerificationAssumption
  <2>7. Cardinality(S) < Window
    BY <2>1, <2>5, <2>6
  <2> QED BY <2>2, <2>7 DEF S, Assessed, Assessable
<1>3. A \in SUBSET B
  BY <1>2
<1>4. IsFiniteSet(B)
  <2>1. B \in SUBSET (1 .. Len(r))
    BY <1>1 DEF Assessed, Assessable
  <2>2. IsFiniteSet(1 .. Len(r))
    BY <1>1, FS_Interval
  <2> HIDE DEF B
  <2> QED BY <2>1, <2>2, FS_Subset
<1>5. Mismatched(y) = Cardinality(A) /\ Mismatched(r) = Cardinality(B)
  BY DEF Mismatched
<1> HIDE DEF A, B
<1>6. IsFiniteSet(A) /\ Cardinality(A) =< Cardinality(B)
  BY <1>3, <1>4, FS_Subset
<1>7. Cardinality(A) \in Nat /\ Cardinality(B) \in Nat
  BY <1>4, <1>6, FS_CardinalityType
<1> QED BY <1>5, <1>6, <1>7 DEF y

\* The history of checks, newest first and turned around, is what was written.
LEMMA ServedIsHistory ==
  ASSUME NEW d, d.identity_checks \in Seq(IdentityCheck), InOrder(d.identity_checks),
         NEW s, NEW start \in Nat
  PROVE  Served(d, s, start) = Outcomes(d, s, start)
<1>1. PICK p \in Seq(IdentityCheck) : p = d.identity_checks
  OBVIOUS
<1>2. PICK z \in Seq(IdentityCheck) : z = Since(p, s, start)
  <2>1. Lists(Since(p, s, start), p, IdentityCheck, SinceAt(p, s, start),
              Sorted(SinceAt(p, s, start), <))
    BY SinceIs
  <2> QED BY <2>1 DEF Lists
<1>3. Len(z) \in Nat /\ DOMAIN z = 1 .. Len(z)
  OBVIOUS
<1>4. Outcomes(d, s, start) = [i \in DOMAIN z |-> z[i].outcome]
  BY <1>1, <1>2 DEF Outcomes
<1>5. Len(Outcomes(d, s, start)) = Len(z)
  BY <1>3, <1>4
<1>6. NewestFirst(p, s, Len(z)) = NewestOn(z, Len(z))
  <2>1. \A r \in IdentityCheck : r.recorded_ms \in Nat
    BY DEF IdentityCheck
  <2>2. InOrder(p) /\ Len(z) \in 0 .. Len(z)
    BY <1>1, <1>3
  <2> QED BY <1>2, <2>1, <2>2, ShownNewest
<1>7. LoadIdentityChecks(d, s, Len(Outcomes(d, s, start))) = NewestOn(z, Len(z))
  BY <1>1, <1>5, <1>6 DEF LoadIdentityChecks
<1>8. Reverse(NewestOn(z, Len(z))) = z
  <2>1. PICK x : x = NewestOn(z, Len(z))
    OBVIOUS
  <2>2. /\ x \in Seq(IdentityCheck) /\ Len(x) = Len(z)
        /\ \A k \in 1 .. Len(z) : x[k] = z[Len(z) + 1 - k]
    <3>1. PICK n \in Nat : n = Len(z)
      BY <1>3
    <3>2. \A k \in 1 .. n : n + 1 - k \in 1 .. n
      BY <3>1
    <3> QED BY <1>3, <2>1, <3>1, <3>2 DEF NewestOn
  <2>3. \A i \in 1 .. Len(z) : x[(Len(z) - i) + 1] = z[i]
    <3> SUFFICES ASSUME NEW i \in 1 .. Len(z) PROVE x[(Len(z) - i) + 1] = z[i]
      OBVIOUS
    <3>1. PICK n \in Nat : n = Len(z)
      BY <1>3
    <3>2. i \in Nat /\ 1 =< i /\ i =< n
      BY <3>1
    <3>3. (n - i) + 1 \in 1 .. n /\ n + 1 - ((n - i) + 1) = i
      BY <3>1, <3>2
    <3>4. x[(n - i) + 1] = z[n + 1 - ((n - i) + 1)]
      BY <2>2, <3>1, <3>3
    <3> QED BY <3>1, <3>3, <3>4
  <2>4. Reverse(x) = [i \in 1 .. Len(z) |-> z[i]]
    BY <2>2, <2>3 DEF Reverse
  <2> QED BY <1>3, <2>1, <2>4
<1> QED BY <1>4, <1>7, <1>8 DEF Served

\* A check of s with outcome o is added, in the order of the clock.
Checked(d, e, s, o, start) ==
  /\ InOrder(e.identity_checks)
  /\ \E row : row.session_id = s /\ row.outcome = o /\ ChecksGrow(d, e, row, start)

LEMMA ServedGrows ==
  ASSUME NEW d, NEW e, NEW s, NEW o, NEW start, Checked(d, e, s, o, start)
  PROVE  /\ Served(e, s, start) = Append(Outcomes(d, s, start), o)
         /\ Outcomes(d, s, start) \in Seq(ProbeOutcomes)
<1>1. PICK row : row.session_id = s /\ row.outcome = o /\ ChecksGrow(d, e, row, start)
  BY DEF Checked
<1>2. Outcomes(e, s, start) =
        IF row.session_id = s THEN Append(Outcomes(d, s, start), row.outcome)
        ELSE Outcomes(d, s, start)
  BY <1>1, OutcomesGrow
<1>3. /\ d.identity_checks \in Seq(IdentityCheck) /\ start \in Nat
      /\ e.identity_checks \in Seq(IdentityCheck)
  BY <1>1 DEF ChecksGrow
<1>4. Served(e, s, start) = Outcomes(e, s, start)
  BY <1>3, ServedIsHistory DEF Checked
<1>5. Outcomes(d, s, start) \in Seq(ProbeOutcomes)
  BY <1>3, OutcomesAre
<1> QED BY <1>1, <1>2, <1>4, <1>5

\* A status of mismatch that was not there before has its mismatches.
LEMMA ProbeFinds ==
  ASSUME NEW v, IsIdentity(v), NEW o,
         Probe(v, o).status = "mismatch_suspected", v.status # "mismatch_suspected"
  PROVE  Mismatched(Pushed(v.recent, o, RecentOutcomes)) >= MismatchesRequired
<1> DEFINE recent == Pushed(v.recent, o, RecentOutcomes)
           run == IF o = "not_assessable" THEN v.unassessable_run + 1 ELSE 0
           seen == [v EXCEPT !.recent = recent, !.unassessable_run = run]
           status == Evaluate(seen)
<1>1. Probe(v, o) = [seen EXCEPT !.status = status]
  BY DEF Probe
<1> HIDE DEF recent, run, status
<1>2. PICK a, b, c, e :
        v = [enrolment |-> a, recent |-> b, unassessable_run |-> c, status |-> e]
  BY DEF IsIdentity
<1>3. seen = [enrolment |-> a, recent |-> recent, unassessable_run |-> run, status |-> e]
  <2>1. PICK w : w = [v EXCEPT !.recent = recent]
    OBVIOUS
  <2>2. w = [enrolment |-> a, recent |-> recent, unassessable_run |-> c, status |-> e]
    BY <1>2, <2>1
  <2>3. [w EXCEPT !.unassessable_run = run] =
          [enrolment |-> a, recent |-> recent, unassessable_run |-> run, status |-> e]
    BY <2>2
  <2> QED BY <2>1, <2>3
<1> HIDE DEF seen
<1>4. Probe(v, o).status = status /\ seen.recent = recent /\ seen.status # "mismatch_suspected"
  BY <1>1, <1>2, <1>3
<1> QED BY <1>4 DEF recent, status, Evaluate

\* What a reviewer is shown of the checks since the start, and since the
\* enrolment.
AllShown(s) == Served(db', s, boot.checks)
OwnShown(s) == Served(db', s, enrolled[s])

LEMMA MismatchWasSeen ==
  ASSUME MonitorsInv, RemembersInv, [Next]_vars, Raised("identity_mismatch"),
         NEW s, s = Last(db'.violations).session_id, s \notin failed,
         InOrder(db'.identity_checks)
  PROVE  /\ Mismatched(AllShown(s)) >= MismatchesRequired
         /\ Last(AllShown(s)) = "match" =>
              \/ Mismatched(OwnShown(s)) < Mismatched(AllShown(s))
              \/ verifier[s].status = "unobservable"
<1>0. Typed /\ CallsTyped /\ OwnRowsAreKnown /\ ChecksTyped /\ VerifierRemembers
  BY DEF MonitorsInv, RowsInv, RemembersInv
<1>1. s \in registry /\ \E o \in ProbeOutcomes : ProbeRaises(s, o, "identity_mismatch")
  BY <1>0, RaisedBy
<1>2. PICK o \in ProbeOutcomes : ProbeRaises(s, o, "identity_mismatch")
  BY <1>1
<1>3. /\ s \in Sessions /\ now \in Nat /\ IsIdentity(verifier[s])
      /\ boot.checks \in Nat /\ boot.checks =< Len(db.identity_checks)
      /\ enrolled[s] \in Nat /\ enrolled[s] =< Len(db.identity_checks)
      /\ db.identity_checks \in Seq(IdentityCheck)
  BY <1>0, <1>1, TypesOfUse DEF ChecksTyped, Typed, VerifierTyped
<1>4. PICK v : v = verifier[s]
  OBVIOUS
<1>5. /\ IsIdentity(v) /\ Probe(v, o).status = "mismatch_suspected"
      /\ v.status # "mismatch_suspected"
  <2>1. FindingIn(v, Probe(v, o)) /\ IdentityRule(Probe(v, o).status) = "identity_mismatch"
    BY <1>2, <1>4 DEF ProbeRaises
  <2> QED BY <1>3, <1>4, <2>1 DEF FindingIn, IdentityRule
<1>6. PICK row \in IdentityCheck : row = ProbeRow(s, o, now)
  BY <1>3 DEF ProbeRow, IdentityCheck, ProbeOutcomes
<1>7. row.session_id = s /\ row.outcome = o
  BY <1>6 DEF ProbeRow
<1>8. ASSUME NEW start \in Nat, start =< Len(db.identity_checks)
      PROVE  /\ Outcomes(db, s, start) \in Seq(ProbeOutcomes)
             /\ Served(db', s, start) = Append(Outcomes(db, s, start), o)
  <2>1. PICK d, e : d = db /\ e = db'
    OBVIOUS
  <2>2. Checked(d, e, s, o, start)
    BY <1>2, <1>3, <1>6, <1>7, <1>8, <2>1 DEF ProbeRaises, Checked, ChecksGrow
  <2>3. /\ Served(e, s, start) = Append(Outcomes(d, s, start), o)
        /\ Outcomes(d, s, start) \in Seq(ProbeOutcomes)
    BY <2>2, ServedGrows
  <2> QED BY <2>1, <2>3
<1>9. PICK q \in Seq(ProbeOutcomes) :
        q = Outcomes(db, s, boot.checks) /\ AllShown(s) = Append(q, o)
  BY <1>3, <1>8 DEF AllShown
<1>10. PICK w \in Seq(ProbeOutcomes) :
         w = Outcomes(db, s, enrolled[s]) /\ OwnShown(s) = Append(w, o)
  BY <1>3, <1>8 DEF OwnShown
<1>11. RecentOutcomes \in Nat /\ MismatchesRequired \in Nat /\ MismatchesRequired > 0
  BY VerificationAssumption
<1>12. /\ v.recent = LastOf(q, RecentOutcomes)
       /\ w # <<>> /\ Mismatched(v.recent) >= MismatchesRequired =>
            v.status \in {"mismatch_suspected", "unobservable"}
  BY <1>0, <1>3, <1>4, <1>9, <1>10 DEF VerifierRemembers
<1>13. Mismatched(Pushed(v.recent, o, RecentOutcomes)) >= MismatchesRequired
  BY <1>5, ProbeFinds
<1>14. PICK all \in Seq(ProbeOutcomes) : all = Append(q, o)
  <2>1. Append(q, o) \in Seq(ProbeOutcomes)
    OBVIOUS
  <2> QED BY <2>1
<1>15. /\ Mismatched(all) \in Nat
       /\ Mismatched(all) >= MismatchesRequired
  <2>1. Pushed(v.recent, o, RecentOutcomes) = LastOf(all, RecentOutcomes)
    BY <1>11, <1>12, <1>14, PushedIs
  <2>2. /\ Mismatched(LastOf(all, RecentOutcomes)) \in Nat /\ Mismatched(all) \in Nat
        /\ Mismatched(LastOf(all, RecentOutcomes)) =< Mismatched(all)
    BY <1>11, EndMismatchesLess
  <2> QED BY <1>11, <1>13, <2>1, <2>2
<1>16. ASSUME Last(all) = "match", v.status # "unobservable"
       PROVE  Mismatched(Append(w, o)) < Mismatched(all)
  <2>1. o = "match"
    BY <1>14, <1>16 DEF Last
  <2>2. CASE w = <<>>
    <3>1. /\ Mismatched(Append(w, "match")) \in Nat /\ Mismatched(w) \in Nat
          /\ Mismatched(Append(w, "match")) =< Mismatched(w)
      BY MatchAddsNone
    <3>2. Mismatched(w) = 0
      BY <2>2, EmptyWindow
    <3> QED BY <1>11, <1>15, <2>1, <3>1, <3>2
  <2>3. CASE w # <<>>
    <3>1. PICK r \in Seq(ProbeOutcomes) : r = v.recent
      BY <1>11, <1>12, LastOfIs
    <3>2. PICK y \in Seq(ProbeOutcomes) : y = Append(r, o)
      <4>1. Append(r, o) \in Seq(ProbeOutcomes)
        OBVIOUS
      <4> QED BY <4>1
    <3>3. /\ Mismatched(y) \in Nat /\ Mismatched(r) \in Nat
          /\ Mismatched(y) =< Mismatched(r)
      BY <2>1, <3>2, MatchAddsNone
    <3>4. /\ Mismatched(LastOf(y, RecentOutcomes)) \in Nat
          /\ Mismatched(LastOf(y, RecentOutcomes)) =< Mismatched(y)
      BY <1>11, EndMismatchesLess
    <3>5. Mismatched(LastOf(y, RecentOutcomes)) >= MismatchesRequired
      BY <1>13, <3>1, <3>2 DEF Pushed
    <3>6. ~(Mismatched(r) >= MismatchesRequired)
      BY <1>5, <1>12, <1>16, <2>3, <3>1
    <3> QED BY <1>11, <3>3, <3>4, <3>5, <3>6
  <2> QED BY <2>2, <2>3
<1> QED BY <1>4, <1>9, <1>10, <1>14, <1>15, <1>16

---------------------------------------------------------------------------
(* The theorems.                                                           *)

\* Whatever requests race, whichever writes raise and whichever model the
\* process was restarted with, it compares faces with the template in the
\* store, if its own model made it, and with none otherwise.
THEOREM EnrolmentStored == Spec => []EnrolmentIsStored
<1>1. Init => MonitorsInv
  BY InitMonitorsInv
<1>2. MonitorsInv /\ [Next]_vars => MonitorsInv'
  BY StepMonitorsInv
<1>3. MonitorsInv => EnrolmentIsStored
  BY DEF MonitorsInv
<1> QED BY <1>1, <1>2, <1>3, PTL DEF Spec

\* For any number of sessions, flags and restarts and any limit on what is
\* restored, the board shows open what the store holds unresolved among the
\* newest rows of a session, and nothing that it does not hold unresolved.
THEOREM BoardFollowsStore == Spec => []BoardShowsStoredFlags
<1>1. Init => MonitorsInv
  BY InitMonitorsInv
<1>2. MonitorsInv /\ [Next]_vars => MonitorsInv'
  BY StepMonitorsInv
<1>3. MonitorsInv => BoardShowsStoredFlags
  BY RowsShown
<1> QED BY <1>1, <1>2, <1>3, PTL DEF Spec

\* Where the clock of a process that classifies is not set back, a flag's
\* transcript is there until its own retention has run out on it, whatever
\* the retention of flags is; and an open flag's id leads to its firing.
THEOREM EvidenceStays ==
  ASSUME ClassifiersKeepTime
  PROVE  Spec => []EvidenceResolves
<1> DEFINE Inv == MonitorsInv /\ TranscriptsAreKept
<1>1. Init => Inv
  BY InitMonitorsInv
<1>2. Inv /\ [Next]_vars => Inv'
  <2> SUFFICES ASSUME Inv, [Next]_vars PROVE Inv'
    OBVIOUS
  <2>1. MonitorsInv' /\ (Works \/ \E d : Starts(d))
    BY StepMonitorsInv
  <2>2. TranscriptsAreKept'
    BY <2>1, TranscriptsStay DEF MonitorsInv
  <2> QED BY <2>1, <2>2
<1>3. Inv => EvidenceResolves
  BY EvidenceIsThere
<1> QED BY <1>1, <1>2, <1>3, PTL DEF Spec

\* Where the clock is set back by no more than each retention, what the
\* process knows, shows and compares with had not expired when it started.
THEOREM NothingExpired ==
  ASSUME StepsWithinRetention
  PROVE  Spec => []NothingExpiredIsServed
<1> DEFINE Inv == MonitorsInv /\ NothingStoredHasExpired
<1>1. Init => Inv
  BY InitMonitorsInv
<1>2. Inv /\ [Next]_vars => Inv'
  <2> SUFFICES ASSUME Inv, [Next]_vars PROVE Inv'
    OBVIOUS
  <2>1. MonitorsInv' /\ (Works \/ \E d : Starts(d))
    BY StepMonitorsInv
  <2>2. NothingStoredHasExpired'
    BY <2>1, NothingExpires DEF MonitorsInv
  <2> QED BY <2>1, <2>2
<1>3. Inv => NothingExpiredIsServed
  BY ServedIsYoung
<1> QED BY <1>1, <1>2, <1>3, PTL DEF Spec

\* While none of a session's writes has raised, what its stored outcomes and
\* labels amount to is what the monitors have concluded, and what they have
\* concluded is flagged in the store (verifier.py, monitor.py, and the
\* handlers of app.py that judge, store and publish).
THEOREM SustainedFlagged == Spec => []SustainedIsFlagged
<1>1. Init => MonitorsInv /\ RemembersInv
  BY InitMonitorsInv, InitRemembers
<1>2. MonitorsInv /\ RemembersInv /\ [Next]_vars => (MonitorsInv /\ RemembersInv)'
  BY StepMonitorsInv, StepRemembers
<1>3. MonitorsInv /\ RemembersInv => SustainedIsFlagged
  BY SustainedAreFlagged
<1> QED BY <1>1, <1>2, <1>3, PTL DEF Spec

\* What was judged is what a reviewer is shown: when speech that asks for help
\* is flagged, the checks the session's history puts first hold as many labels
\* that ask for it as the monitor counted, provided that the checks were
\* recorded in the order of their times.
THEOREM HelpLegible == Spec => HelpIsLegible
<1>1. Init => MonitorsInv /\ RemembersInv
  BY InitMonitorsInv, InitRemembers
<1>2. MonitorsInv /\ RemembersInv /\ [Next]_vars => (MonitorsInv /\ RemembersInv)'
  BY StepMonitorsInv, StepRemembers
<1>3. MonitorsInv /\ RemembersInv /\ [Next]_vars =>
        [Raised("audio_seeking_help") =>
           LET s == Last(db'.violations).session_id
               own == Since(db'.audio_checks, s, boot.audio)
               shown == LoadAudioChecks(db', s, Min({HelpWindow, Len(own)}))
           IN InOrder(db'.audio_checks) =>
                HelpIn([i \in DOMAIN shown |-> shown[i].label]) >= HelpRequired]_vars
  BY HelpIsShown DEF Shown
<1> QED BY <1>1, <1>2, <1>3, PTL DEF Spec, HelpIsLegible

\* What a reviewer opens is what was flagged: behind a mismatch that is
\* flagged, of a session none of whose writes raised, the history of checks
\* shows the mismatches the policy requires, and when the probe that raised it
\* matched, they are of a reference that has been replaced or the flag repeats
\* one from before an unobservable spell (verifier.py).
THEOREM MismatchRecorded == Spec => MismatchIsOnRecord
<1>1. Init => MonitorsInv /\ RemembersInv
  BY InitMonitorsInv, InitRemembers
<1>2. MonitorsInv /\ RemembersInv /\ [Next]_vars => (MonitorsInv /\ RemembersInv)'
  BY StepMonitorsInv, StepRemembers
<1>3. MonitorsInv /\ RemembersInv /\ [Next]_vars =>
        [Raised("identity_mismatch") =>
           LET s == Last(db'.violations).session_id
               all == Served(db', s, boot.checks)
               own == Served(db', s, enrolled[s])
           IN s \notin failed /\ InOrder(db'.identity_checks) =>
                /\ Mismatched(all) >= MismatchesRequired
                /\ Last(all) = "match" =>
                     \/ Mismatched(own) < Mismatched(all)
                     \/ verifier[s].status = "unobservable"]_vars
  BY MismatchWasSeen DEF AllShown, OwnShown
<1> QED BY <1>1, <1>2, <1>3, PTL DEF Spec, MismatchIsOnRecord

============================================================================
