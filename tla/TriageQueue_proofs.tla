------------------------ MODULE TriageQueue_proofs ------------------------
(***************************************************************************)
(* Proofs about the proctors' queue.                                       *)
(*                                                                         *)
(* A fold over the stored rows is a recursive function, which determines a *)
(* value only if its equation has exactly one solution.  That it has one   *)
(* is proved along the execution: each flag appends one row, and a         *)
(* solution for the rows so far extends to the new one in one way.         *)
(***************************************************************************)
EXTENDS TriageQueue, TLAPS

Row == [weight : Weights, at : Nat]

\* The equation of the fold that replays the rows q ...
Replaying(q, g) ==
  g = [t \in SUBSET DOMAIN q |->
         IF t = {} THEN NewTriage
         ELSE LET i == Max(t) IN
              Flagged(g[t \ {i}], q[i].weight, RowTime(q[i]))]

\* ... and of the one that adds up what they are worth at a time.
Value(time, r) == Halved(r.weight * Unit, time - r.at)

Adding(q, time, g) ==
  g = [t \in SUBSET DOMAIN q |->
         IF t = {} THEN 0
         ELSE LET i == Max(t) IN
              g[t \ {i}] + Value(time, q[i])]

ReplayIsDefined(q) ==
  \E g : Replaying(q, g) /\ \A h : Replaying(q, h) => h = g
SumIsDefined(q, time) ==
  \E g : Adding(q, time, g) /\ \A h : Adding(q, time, h) => h = g

\* A set of positions has a last one.
HasLast(q) == \A t \in SUBSET DOMAIN q : t # {} => Max(t) \in t

\* Worth, of any rows at any time.
WorthAt(q, time) ==
  FoldLeft(LAMBDA x, r : x + Halved(r.weight * Unit, time - r.at), 0, q)

LEMMA ReplayedIs ==
  ASSUME NEW q
  PROVE  Replayed(q) = (CHOOSE g : Replaying(q, g))[DOMAIN q]
BY DEF Replayed, FoldLeft, MapThenFoldSet, Replaying

LEMMA WorthIs ==
  ASSUME NEW q, NEW time
  PROVE  WorthAt(q, time) = (CHOOSE g : Adding(q, time, g))[DOMAIN q]
BY DEF WorthAt, FoldLeft, MapThenFoldSet, Adding, Value

\* The last of a set of positions.
LEMMA LastOf ==
  ASSUME NEW n \in Nat, NEW t \in SUBSET (1 .. n + 1), n + 1 \in t
  PROVE  Max(t) = n + 1
<1>1. \A x \in t : x \in Int /\ x =< n + 1
  OBVIOUS
<1>2. \A x \in t : (\A y \in t : x >= y) => x = n + 1
  BY <1>1
<1>3. \E x \in t : \A y \in t : x >= y
  BY <1>1
<1> QED BY <1>2, <1>3 DEF Max

LEMMA Positions ==
  ASSUME NEW q \in Seq(Row), NEW r \in Row
  PROVE  LET n == Len(q) IN
         /\ n \in Nat /\ DOMAIN q = 1 .. n
         /\ DOMAIN Append(q, r) = 1 .. n + 1
         /\ \A i \in 1 .. n : Append(q, r)[i] = q[i]
         /\ Append(q, r)[n + 1] = r
         /\ (1 .. n + 1) \ {n + 1} = 1 .. n
         /\ 1 .. n + 1 # {}
         /\ \A t \in SUBSET (1 .. n + 1) :
              /\ n + 1 \in t => Max(t) = n + 1 /\ t \ {n + 1} \in SUBSET (1 .. n)
              /\ n + 1 \notin t => t \in SUBSET (1 .. n)
<1> DEFINE n == Len(q)
<1>1. n \in Nat /\ DOMAIN q = 1 .. n
  OBVIOUS
<1>2. /\ DOMAIN Append(q, r) = 1 .. n + 1
      /\ \A i \in 1 .. n : Append(q, r)[i] = q[i]
      /\ Append(q, r)[n + 1] = r
  OBVIOUS
<1> HIDE DEF n
<1>3. (1 .. n + 1) \ {n + 1} = 1 .. n /\ n + 1 \in 1 .. n + 1
  BY <1>1
<1>4. \A i \in 1 .. n + 1 : i # n + 1 => i \in 1 .. n
  BY <1>1
<1>5. ASSUME NEW t \in SUBSET (1 .. n + 1)
      PROVE  /\ n + 1 \in t => Max(t) = n + 1 /\ t \ {n + 1} \in SUBSET (1 .. n)
             /\ n + 1 \notin t => t \in SUBSET (1 .. n)
  BY <1>1, <1>4, LastOf
<1> QED BY <1>1, <1>2, <1>3, <1>5 DEF n

LEMMA LastGrows ==
  ASSUME NEW q \in Seq(Row), NEW r \in Row, HasLast(q)
  PROVE  HasLast(Append(q, r))
<1>1. PICK n \in Nat : n = Len(q)
  BY Positions
<1>2. DOMAIN Append(q, r) = 1 .. n + 1 /\ DOMAIN q = 1 .. n
  BY <1>1, Positions
<1>3. ASSUME NEW t \in SUBSET (1 .. n + 1), t # {} PROVE Max(t) \in t
  <2>1. CASE n + 1 \in t
    BY <1>1, <2>1, Positions
  <2>2. CASE n + 1 \notin t
    <3>1. t \in SUBSET DOMAIN q
      BY <1>1, <1>2, <2>2, Positions
    <3> QED BY <1>3, <3>1 DEF HasLast
  <2> QED BY <2>1, <2>2
<1> QED BY <1>2, <1>3 DEF HasLast

LEMMA NoRows ==
  /\ HasLast(<<>>)
  /\ ReplayIsDefined(<<>>) /\ Replayed(<<>>) = NewTriage
  /\ \A time : SumIsDefined(<<>>, time) /\ WorthAt(<<>>, time) = 0
<1>1. DOMAIN <<>> = {} /\ SUBSET DOMAIN <<>> = {{}}
  OBVIOUS
<1>2. HasLast(<<>>)
  BY <1>1 DEF HasLast
<1>3. \A h : Replaying(<<>>, h) <=> h = [t \in {{}} |-> NewTriage]
  BY <1>1 DEF Replaying
<1>4. ReplayIsDefined(<<>>) /\ Replayed(<<>>) = NewTriage
  <2>1. (CHOOSE g : Replaying(<<>>, g)) = [t \in {{}} |-> NewTriage]
    BY <1>3
  <2>2. Replayed(<<>>) = [t \in {{}} |-> NewTriage][{}]
    BY <1>1, <2>1, ReplayedIs
  <2> QED BY <1>3, <2>2 DEF ReplayIsDefined
<1>5. ASSUME NEW time PROVE SumIsDefined(<<>>, time) /\ WorthAt(<<>>, time) = 0
  <2>1. \A h : Adding(<<>>, time, h) <=> h = [t \in {{}} |-> 0]
    BY <1>1 DEF Adding
  <2>2. (CHOOSE g : Adding(<<>>, time, g)) = [t \in {{}} |-> 0]
    BY <2>1
  <2>3. WorthAt(<<>>, time) = [t \in {{}} |-> 0][{}]
    BY <1>1, <2>2, WorthIs
  <2>4. [t \in {{}} |-> 0][{}] = 0
    OBVIOUS
  <2>5. SumIsDefined(<<>>, time)
    <3>1. PICK g : g = [t \in {{}} |-> 0]
      OBVIOUS
    <3>2. Adding(<<>>, time, g) /\ \A h : Adding(<<>>, time, h) => h = g
      BY <2>1, <3>1
    <3> QED BY <3>2 DEF SumIsDefined
  <2> QED BY <2>3, <2>4, <2>5
<1> QED BY <1>2, <1>4, <1>5

\* The replay of one row more is the flag of that row after the replay of the
\* others.
LEMMA ReplayGrows ==
  ASSUME NEW q \in Seq(Row), NEW r \in Row, HasLast(q), ReplayIsDefined(q)
  PROVE  /\ ReplayIsDefined(Append(q, r))
         /\ Replayed(Append(q, r)) = Flagged(Replayed(q), r.weight, RowTime(r))
<1>1. PICK n \in Nat : n = Len(q)
  BY Positions
<1>2. PICK p : p = Append(q, r)
  OBVIOUS
<1>3. /\ DOMAIN p = 1 .. n + 1 /\ DOMAIN q = 1 .. n
      /\ \A i \in 1 .. n : p[i] = q[i]
      /\ p[n + 1] = r
      /\ (1 .. n + 1) \ {n + 1} = 1 .. n
      /\ n + 1 \in 1 .. n + 1 /\ n + 1 \notin 1 .. n
  BY <1>1, <1>2, Positions
<1>4. \A t \in SUBSET (1 .. n + 1) :
        /\ n + 1 \in t => Max(t) = n + 1 /\ t \ {n + 1} \in SUBSET (1 .. n)
        /\ n + 1 \notin t => t \in SUBSET (1 .. n)
  BY <1>1, Positions
<1>5. \A t \in SUBSET (1 .. n) :
        /\ t \in SUBSET (1 .. n + 1) /\ n + 1 \notin t
        /\ t # {} => Max(t) \in 1 .. n /\ t \ {Max(t)} \in SUBSET (1 .. n)
  BY <1>3 DEF HasLast
<1>6. PICK g : Replaying(q, g) /\ \A h : Replaying(q, h) => h = g
  BY DEF ReplayIsDefined
<1>7. /\ g = [t \in SUBSET (1 .. n) |-> g[t]]
      /\ g[{}] = NewTriage
      /\ \A t \in SUBSET (1 .. n) : t # {} =>
           g[t] = Flagged(g[t \ {Max(t)}], q[Max(t)].weight, RowTime(q[Max(t)]))
  BY <1>3, <1>6 DEF Replaying
<1> DEFINE F == [t \in SUBSET (1 .. n + 1) |->
                   IF n + 1 \in t THEN Flagged(g[t \ {n + 1}], r.weight, RowTime(r))
                   ELSE g[t]]
<1>8. Replaying(p, F)
  <2>1. F[{}] = NewTriage
    BY <1>7
  <2>2. ASSUME NEW t \in SUBSET (1 .. n + 1), t # {}
        PROVE  F[t] = Flagged(F[t \ {Max(t)}], p[Max(t)].weight, RowTime(p[Max(t)]))
    <3>1. CASE n + 1 \in t
      <4>1. F[t \ {n + 1}] = g[t \ {n + 1}]
        BY <1>4, <1>5, <3>1
      <4> QED BY <1>3, <1>4, <3>1, <4>1
    <3>2. CASE n + 1 \notin t
      <4>1. t \in SUBSET (1 .. n)
        BY <1>4, <3>2
      <4>2. F[t \ {Max(t)}] = g[t \ {Max(t)}] /\ F[t] = g[t]
        BY <1>5, <2>2, <3>2, <4>1
      <4>3. p[Max(t)] = q[Max(t)]
        BY <1>3, <1>5, <2>2, <4>1
      <4> QED BY <1>7, <2>2, <4>1, <4>2, <4>3
    <3> QED BY <3>1, <3>2
  <2> HIDE DEF F
  <2>3. F = [t \in SUBSET (1 .. n + 1) |-> F[t]]
    BY DEF F
  <2> QED BY <1>3, <2>1, <2>2, <2>3 DEF Replaying
<1>9. ASSUME NEW h, Replaying(p, h) PROVE h = F
  <2>1. /\ h = [t \in SUBSET (1 .. n + 1) |-> h[t]]
        /\ h[{}] = NewTriage
        /\ \A t \in SUBSET (1 .. n + 1) : t # {} =>
             h[t] = Flagged(h[t \ {Max(t)}], p[Max(t)].weight, RowTime(p[Max(t)]))
    BY <1>3, <1>9 DEF Replaying
  <2> DEFINE H == [t \in SUBSET (1 .. n) |-> h[t]]
  <2>2. H = g
    <3>1. H[{}] = NewTriage
      BY <2>1
    <3>2. ASSUME NEW t \in SUBSET (1 .. n), t # {}
          PROVE  H[t] = Flagged(H[t \ {Max(t)}], q[Max(t)].weight, RowTime(q[Max(t)]))
      <4>1. H[t] = h[t] /\ H[t \ {Max(t)}] = h[t \ {Max(t)}]
        BY <1>5, <3>2
      <4>2. p[Max(t)] = q[Max(t)]
        BY <1>3, <1>5, <3>2
      <4> QED BY <1>5, <2>1, <3>2, <4>1, <4>2
    <3> HIDE DEF H
    <3>3. H = [t \in SUBSET (1 .. n) |-> H[t]]
      BY DEF H
    <3>4. Replaying(q, H)
      BY <1>3, <3>1, <3>2, <3>3 DEF Replaying
    <3> QED BY <1>6, <3>4
  <2>3. \A t \in SUBSET (1 .. n) : h[t] = g[t]
    BY <2>2
  <2>4. ASSUME NEW t \in SUBSET (1 .. n + 1) PROVE h[t] = F[t]
    <3>1. CASE n + 1 \in t
      <4>1. h[t] = Flagged(h[t \ {n + 1}], r.weight, RowTime(r))
        BY <1>3, <1>4, <2>1, <3>1
      <4> QED BY <1>4, <2>3, <3>1, <4>1
    <3>2. CASE n + 1 \notin t
      BY <1>4, <2>3, <3>2
    <3> QED BY <3>1, <3>2
  <2>5. F = [t \in SUBSET (1 .. n + 1) |-> F[t]]
    OBVIOUS
  <2> HIDE DEF F
  <2> QED BY <2>1, <2>4, <2>5
<1>10. Replaying(p, F) /\ \A h : Replaying(p, h) => h = F
  BY <1>8, <1>9
<1>11. Replayed(p) = F[1 .. n + 1]
  <2> HIDE DEF F
  <2>1. (CHOOSE h : Replaying(p, h)) = F
    BY <1>10
  <2> QED BY <1>3, <2>1, ReplayedIs
<1>12. Replayed(q) = g[1 .. n]
  <2>1. (CHOOSE h : Replaying(q, h)) = g
    BY <1>6
  <2> QED BY <1>3, <2>1, ReplayedIs
<1>13. F[1 .. n + 1] = Flagged(g[1 .. n], r.weight, RowTime(r))
  BY <1>3
<1> HIDE DEF F
<1> QED BY <1>2, <1>10, <1>11, <1>12, <1>13 DEF ReplayIsDefined

\* One row more is worth what it is worth itself.
LEMMA WorthGrows ==
  ASSUME NEW q \in Seq(Row), NEW r \in Row, NEW time, HasLast(q), SumIsDefined(q, time)
  PROVE  /\ SumIsDefined(Append(q, r), time)
         /\ WorthAt(Append(q, r), time) = WorthAt(q, time) + Value(time, r)
<1>1. PICK n \in Nat : n = Len(q)
  BY Positions
<1>2. PICK p : p = Append(q, r)
  OBVIOUS
<1>3. /\ DOMAIN p = 1 .. n + 1 /\ DOMAIN q = 1 .. n
      /\ \A i \in 1 .. n : p[i] = q[i]
      /\ p[n + 1] = r
      /\ (1 .. n + 1) \ {n + 1} = 1 .. n
      /\ n + 1 \in 1 .. n + 1 /\ n + 1 \notin 1 .. n
  BY <1>1, <1>2, Positions
<1>4. \A t \in SUBSET (1 .. n + 1) :
        /\ n + 1 \in t => Max(t) = n + 1 /\ t \ {n + 1} \in SUBSET (1 .. n)
        /\ n + 1 \notin t => t \in SUBSET (1 .. n)
  BY <1>1, Positions
<1>5. \A t \in SUBSET (1 .. n) :
        /\ t \in SUBSET (1 .. n + 1) /\ n + 1 \notin t
        /\ t # {} => Max(t) \in 1 .. n /\ t \ {Max(t)} \in SUBSET (1 .. n)
  BY <1>3 DEF HasLast
<1>6. PICK g : Adding(q, time, g) /\ \A h : Adding(q, time, h) => h = g
  BY DEF SumIsDefined
<1>7. /\ g = [t \in SUBSET (1 .. n) |-> g[t]]
      /\ g[{}] = 0
      /\ \A t \in SUBSET (1 .. n) : t # {} =>
           g[t] = g[t \ {Max(t)}] + Value(time, q[Max(t)])
  BY <1>3, <1>6 DEF Adding
<1> DEFINE F == [t \in SUBSET (1 .. n + 1) |->
                   IF n + 1 \in t THEN g[t \ {n + 1}] + Value(time, r)
                   ELSE g[t]]
<1>8. Adding(p, time, F)
  <2>1. F[{}] = 0
    BY <1>7
  <2>2. ASSUME NEW t \in SUBSET (1 .. n + 1), t # {}
        PROVE  F[t] = F[t \ {Max(t)}] + Value(time, p[Max(t)])
    <3>1. CASE n + 1 \in t
      <4>1. F[t \ {n + 1}] = g[t \ {n + 1}]
        BY <1>4, <1>5, <3>1
      <4> QED BY <1>3, <1>4, <3>1, <4>1
    <3>2. CASE n + 1 \notin t
      <4>1. t \in SUBSET (1 .. n)
        BY <1>4, <3>2
      <4>2. F[t \ {Max(t)}] = g[t \ {Max(t)}] /\ F[t] = g[t]
        BY <1>5, <2>2, <3>2, <4>1
      <4>3. p[Max(t)] = q[Max(t)]
        BY <1>3, <1>5, <2>2, <4>1
      <4> QED BY <1>7, <2>2, <4>1, <4>2, <4>3
    <3> QED BY <3>1, <3>2
  <2> HIDE DEF F
  <2>3. F = [t \in SUBSET (1 .. n + 1) |-> F[t]]
    BY DEF F
  <2> QED BY <1>3, <2>1, <2>2, <2>3 DEF Adding
<1>9. ASSUME NEW h, Adding(p, time, h) PROVE h = F
  <2>1. /\ h = [t \in SUBSET (1 .. n + 1) |-> h[t]]
        /\ h[{}] = 0
        /\ \A t \in SUBSET (1 .. n + 1) : t # {} =>
             h[t] = h[t \ {Max(t)}] + Value(time, p[Max(t)])
    BY <1>3, <1>9 DEF Adding
  <2> DEFINE H == [t \in SUBSET (1 .. n) |-> h[t]]
  <2>2. H = g
    <3>1. H[{}] = 0
      BY <2>1
    <3>2. ASSUME NEW t \in SUBSET (1 .. n), t # {}
          PROVE  H[t] = H[t \ {Max(t)}] + Value(time, q[Max(t)])
      <4>1. H[t] = h[t] /\ H[t \ {Max(t)}] = h[t \ {Max(t)}]
        BY <1>5, <3>2
      <4>2. p[Max(t)] = q[Max(t)]
        BY <1>3, <1>5, <3>2
      <4> QED BY <1>5, <2>1, <3>2, <4>1, <4>2
    <3> HIDE DEF H
    <3>3. H = [t \in SUBSET (1 .. n) |-> H[t]]
      BY DEF H
    <3>4. Adding(q, time, H)
      BY <1>3, <3>1, <3>2, <3>3 DEF Adding
    <3> QED BY <1>6, <3>4
  <2>3. \A t \in SUBSET (1 .. n) : h[t] = g[t]
    BY <2>2
  <2>4. ASSUME NEW t \in SUBSET (1 .. n + 1) PROVE h[t] = F[t]
    <3>1. CASE n + 1 \in t
      <4>1. h[t] = h[t \ {n + 1}] + Value(time, r)
        <5>1. Max(t) = n + 1 /\ t # {}
          BY <1>4, <3>1
        <5> QED BY <1>3, <2>1, <5>1
      <4>2. h[t \ {n + 1}] = g[t \ {n + 1}]
        BY <1>4, <2>3, <3>1
      <4>3. F[t] = g[t \ {n + 1}] + Value(time, r)
        BY <3>1
      <4> QED BY <4>1, <4>2, <4>3
    <3>2. CASE n + 1 \notin t
      BY <1>4, <2>3, <3>2
    <3> QED BY <3>1, <3>2
  <2>5. F = [t \in SUBSET (1 .. n + 1) |-> F[t]]
    OBVIOUS
  <2> HIDE DEF F
  <2> QED BY <2>1, <2>4, <2>5
<1>10. Adding(p, time, F) /\ \A h : Adding(p, time, h) => h = F
  BY <1>8, <1>9
<1>11. WorthAt(p, time) = F[1 .. n + 1]
  <2> HIDE DEF F
  <2>1. (CHOOSE h : Adding(p, time, h)) = F
    BY <1>10
  <2> QED BY <1>3, <2>1, WorthIs
<1>12. WorthAt(q, time) = g[1 .. n]
  <2>1. (CHOOSE h : Adding(q, time, h)) = g
    BY <1>6
  <2> QED BY <1>3, <2>1, WorthIs
<1>13. F[1 .. n + 1] = g[1 .. n] + Value(time, r)
  BY <1>3
<1> HIDE DEF F
<1>14. SumIsDefined(p, time)
  BY <1>10 DEF SumIsDefined
<1> QED BY <1>2, <1>11, <1>12, <1>13, <1>14

---------------------------------------------------------------------------
(* Halving and adding                                                      *)

LEMMA UnitIs == Unit = 4096
BY DEF Unit

IsPower(n, d) ==
  \/ n = 0 /\ d = 1
  \/ n = 1 /\ d = 2
  \/ n = 2 /\ d = 4
  \/ n = 3 /\ d = 8
  \/ n = 4 /\ d = 16
  \/ n = 5 /\ d = 32
  \/ n = 6 /\ d = 64
  \/ n = 7 /\ d = 128
  \/ n = 8 /\ d = 256
  \/ n = 9 /\ d = 512
  \/ n = 10 /\ d = 1024
  \/ n = 11 /\ d = 2048
  \/ n = 12 /\ d = 4096

\* A power is evaluated when its exponent is given.
LEMMA Powers ==
  ASSUME NEW n \in 0 .. 12, NEW d, d = 2 ^ n
  PROVE  IsPower(n, d)
<1>0. CASE n = 0
  <2>1. d = 2 ^ 0
    BY <1>0, Zenon
  <2>2. d = 1
    BY <2>1
  <2> QED BY <1>0, <2>2 DEF IsPower
<1>1. CASE n = 1
  <2>1. d = 2 ^ 1
    BY <1>1, Zenon
  <2>2. d = 2
    BY <2>1
  <2> QED BY <1>1, <2>2 DEF IsPower
<1>2. CASE n = 2
  <2>1. d = 2 ^ 2
    BY <1>2, Zenon
  <2>2. d = 4
    BY <2>1
  <2> QED BY <1>2, <2>2 DEF IsPower
<1>3. CASE n = 3
  <2>1. d = 2 ^ 3
    BY <1>3, Zenon
  <2>2. d = 8
    BY <2>1
  <2> QED BY <1>3, <2>2 DEF IsPower
<1>4. CASE n = 4
  <2>1. d = 2 ^ 4
    BY <1>4, Zenon
  <2>2. d = 16
    BY <2>1
  <2> QED BY <1>4, <2>2 DEF IsPower
<1>5. CASE n = 5
  <2>1. d = 2 ^ 5
    BY <1>5, Zenon
  <2>2. d = 32
    BY <2>1
  <2> QED BY <1>5, <2>2 DEF IsPower
<1>6. CASE n = 6
  <2>1. d = 2 ^ 6
    BY <1>6, Zenon
  <2>2. d = 64
    BY <2>1
  <2> QED BY <1>6, <2>2 DEF IsPower
<1>7. CASE n = 7
  <2>1. d = 2 ^ 7
    BY <1>7, Zenon
  <2>2. d = 128
    BY <2>1
  <2> QED BY <1>7, <2>2 DEF IsPower
<1>8. CASE n = 8
  <2>1. d = 2 ^ 8
    BY <1>8, Zenon
  <2>2. d = 256
    BY <2>1
  <2> QED BY <1>8, <2>2 DEF IsPower
<1>9. CASE n = 9
  <2>1. d = 2 ^ 9
    BY <1>9, Zenon
  <2>2. d = 512
    BY <2>1
  <2> QED BY <1>9, <2>2 DEF IsPower
<1>10. CASE n = 10
  <2>1. d = 2 ^ 10
    BY <1>10, Zenon
  <2>2. d = 1024
    BY <2>1
  <2> QED BY <1>10, <2>2 DEF IsPower
<1>11. CASE n = 11
  <2>1. d = 2 ^ 11
    BY <1>11, Zenon
  <2>2. d = 2048
    BY <2>1
  <2> QED BY <1>11, <2>2 DEF IsPower
<1>12. CASE n = 12
  <2>1. d = 2 ^ 12
    BY <1>12, Zenon
  <2>2. d = 4096
    BY <2>1
  <2> QED BY <1>12, <2>2 DEF IsPower
<1> QED BY <1>0, <1>1, <1>2, <1>3, <1>4, <1>5, <1>6, <1>7, <1>8, <1>9, <1>10, <1>11, <1>12

\* A half-life more divides by twice as much.
PowerOfTwo == {1, 2, 4, 8, 16, 32, 64, 128, 256, 512, 1024, 2048, 4096}

LEMMA Divisor ==
  ASSUME NEW n \in 0 .. 12
  PROVE  \E d \in PowerOfTwo : \A x : Halved(x, n) = x \div d
<1>1. PICK d : d = 2 ^ n
  OBVIOUS
<1>2. IsPower(n, d)
  BY <1>1, Powers, Zenon
<1>3. d \in PowerOfTwo
  BY <1>2 DEF IsPower, PowerOfTwo
<1> QED BY <1>1, <1>3, Zenon DEF Halved

LEMMA NextDivisor ==
  ASSUME NEW n \in 0 .. 11
  PROVE  \E d \in PowerOfTwo \ {4096} :
           \A x : Halved(x, n) = x \div d /\ Halved(x, n + 1) = x \div (2 * d)
<1>1. PICK m \in 0 .. 12 : m = n + 1 /\ n \in 0 .. 12
  OBVIOUS
<1>2. PICK d, e : d = 2 ^ n /\ e = 2 ^ m
  OBVIOUS
<1>3. d \in PowerOfTwo \ {4096} /\ e = 2 * d
  <2>1. IsPower(n, d)
    BY <1>1, <1>2, Powers, Zenon
  <2>2. IsPower(m, e)
    BY <1>2, Powers, Zenon
  <2> QED BY <1>1, <2>1, <2>2 DEF PowerOfTwo, IsPower
<1>4. \A x : Halved(x, n) = x \div d /\ Halved(x, n + 1) = x \div e
  BY <1>1, <1>2, Zenon DEF Halved
<1> QED BY <1>3, <1>4

LEMMA HalvedOnce ==
  ASSUME NEW x \in Nat, NEW n \in 0 .. 12
  PROVE  Halved(x, n) \in Nat /\ Halved(x, n) =< x
<1>1. PICK d \in PowerOfTwo : Halved(x, n) = x \div d
  BY Divisor
<1> QED BY <1>1 DEF PowerOfTwo

LEMMA NotHalved ==
  ASSUME NEW x \in Nat
  PROVE  Halved(x, 0) = x
<1>1. 2 ^ 0 = 1
  OBVIOUS
<1>2. x \div 1 = x
  OBVIOUS
<1> QED BY <1>1, <1>2, Zenon DEF Halved

\* The next half-life halves what the last one left.
LEMMA HalvedAgain ==
  ASSUME NEW x \in Nat, NEW n \in 0 .. 11
  PROVE  /\ 2 * Halved(x, n + 1) =< Halved(x, n)
         /\ Halved(x, n) =< 2 * Halved(x, n + 1) + 1
<1>1. PICK d \in PowerOfTwo \ {4096} :
        Halved(x, n) = x \div d /\ Halved(x, n + 1) = x \div (2 * d)
  BY NextDivisor
<1> QED BY <1>1 DEF PowerOfTwo

\* A weight halves exactly.
LEMMA WeightHalves ==
  ASSUME NEW w \in Weights, NEW n \in 0 .. 11
  PROVE  Halved(w * Unit, n) = 2 * Halved(w * Unit, n + 1)
<1>1. PICK x \in {0, 12288, 40960} : x = w * Unit
  BY UnitIs DEF Weights
<1>2. PICK d \in PowerOfTwo \ {4096} :
        Halved(x, n) = x \div d /\ Halved(x, n + 1) = x \div (2 * d)
  BY NextDivisor
<1>3. x \div d = 2 * (x \div (2 * d))
  BY <1>1, <1>2 DEF PowerOfTwo
<1> QED BY <1>1, <1>2, <1>3

Triage == [score : 0 .. Ceiling * Unit, at : Nat, connected : BOOLEAN]

\* What a firing makes of a score.
LEMMA FlaggedFacts ==
  ASSUME NEW t \in Triage, NEW w \in Weights, NEW time \in 0 .. 12, t.at =< time
  PROVE  /\ Left(t, time) \in Nat
         /\ Left(t, time) =< Halved(t.score, time - t.at)
         /\ Left(t, time) = 0 \/ Left(t, time) = Halved(t.score, time - t.at)
         /\ Left(t, time) = 0 => Halved(t.score, time - t.at) * 100 =< Unit
         /\ Flagged(t, w, time) \in Triage
         /\ Flagged(t, w, time).at =< time
         /\ w = 0 => Flagged(t, w, time) = t
         /\ w # 0 => /\ Flagged(t, w, time).at = time
                     /\ Flagged(t, w, time).score =< Left(t, time) + w * Unit
                     /\ Left(t, time) + w * Unit =< Ceiling * Unit =>
                          Flagged(t, w, time).score = Left(t, time) + w * Unit
<1>0. /\ t.score \in Nat /\ t.at \in Nat /\ time \in Nat /\ Ceiling * Unit \in Nat
      /\ w * Unit \in Nat
  BY QueueAssumption, UnitIs DEF Triage, Weights
<1>1. Halved(t.score, time - t.at) \in Nat
  <2>1. time - t.at \in 0 .. 12
    BY <1>0
  <2> QED BY <1>0, <2>1, HalvedOnce
<1>2. /\ Left(t, time) \in Nat
      /\ Left(t, time) =< Halved(t.score, time - t.at)
      /\ Left(t, time) = 0 \/ Left(t, time) = Halved(t.score, time - t.at)
      /\ Left(t, time) = 0 => Halved(t.score, time - t.at) * 100 =< Unit
  BY <1>1, UnitIs DEF Left
<1>3. CASE w = 0
  BY <1>2, <1>3 DEF Flagged
<1>4. CASE w # 0
  <2>1. PICK sum \in Nat : sum = Left(t, time) + w * Unit
    BY <1>0, <1>2
  <2>2. Flagged(t, w, time) =
          [t EXCEPT !.score = IF sum < Ceiling * Unit THEN sum ELSE Ceiling * Unit,
                    !.at = time]
    BY <1>4, <2>1 DEF Flagged
  <2>3. /\ Flagged(t, w, time).at = time
        /\ Flagged(t, w, time).score
             = IF sum < Ceiling * Unit THEN sum ELSE Ceiling * Unit
        /\ Flagged(t, w, time) \in Triage
    <3>1. PICK c \in Nat : c = Ceiling * Unit
      BY <1>0
    <3>2. (IF sum < c THEN sum ELSE c) \in 0 .. c
      BY <2>1, <3>1
    <3>3. t \in [score : 0 .. c, at : Nat, connected : BOOLEAN]
      BY <3>1 DEF Triage
    <3> QED BY <1>0, <2>2, <3>1, <3>2, <3>3 DEF Triage
  <2> QED BY <1>0, <1>2, <1>4, <2>1, <2>3
<1> QED BY <1>3, <1>4

\* Whether the stream is connected has no part in it.
LEMMA FlaggedAlike ==
  ASSUME NEW t \in Triage, NEW u \in Triage, NEW w, NEW time,
         t.score = u.score, t.at = u.at
  PROVE  /\ Left(t, time) = Left(u, time)
         /\ Flagged(t, w, time).score = Flagged(u, w, time).score
         /\ Flagged(t, w, time).at = Flagged(u, w, time).at
<1>1. Left(t, time) = Left(u, time)
  BY DEF Left
<1> QED BY <1>1 DEF Flagged, Triage

\* A score at a time: before the cutoff, and after it.
Decayed(t, time) == Halved(t.score, time - t.at)

LEMMA TriageFacts ==
  ASSUME NEW t \in Triage, NEW time \in 0 .. 12, t.at =< time
  PROVE  /\ t.score \in Nat /\ t.at \in Nat /\ time - t.at \in 0 .. 12
         /\ Decayed(t, time) \in Nat /\ Left(t, time) \in Nat
         /\ Left(t, time) =< Decayed(t, time)
         /\ Left(t, time) = 0 \/ Left(t, time) = Decayed(t, time)
         /\ Left(t, time) = 0 => Decayed(t, time) * 100 =< Unit
<1>1. Ceiling * Unit \in Nat
  BY QueueAssumption, UnitIs
<1>2. t.score \in Nat /\ t.at \in Nat
  BY <1>1 DEF Triage
<1>3. time - t.at \in 0 .. 12
  BY <1>2
<1>4. Decayed(t, time) \in Nat
  BY <1>2, <1>3, HalvedOnce DEF Decayed
<1>5. 0 \in Weights
  BY DEF Weights
<1> QED BY <1>2, <1>3, <1>4, <1>5, FlaggedFacts DEF Decayed

\* t comes of fewer of the latest flags than u.
Below(t, u) == t.score = 0 \/ (t.at = u.at /\ t.score =< u.score)

LEMMA BelowLeft ==
  ASSUME NEW t \in Triage, NEW u \in Triage, NEW time \in 0 .. 12,
         t.at =< time, u.at =< time, Below(t, u)
  PROVE  Left(t, time) =< Left(u, time)
<1>1. /\ Left(t, time) \in Nat /\ Left(u, time) \in Nat
      /\ t.score \in Nat /\ u.score \in Nat
      /\ time - t.at \in 0 .. 12 /\ Left(t, time) =< Decayed(t, time)
  BY TriageFacts
<1>2. CASE t.score = 0
  <2>1. Decayed(t, time) =< 0
    BY <1>1, <1>2, HalvedOnce DEF Decayed
  <2>2. Decayed(t, time) \in Nat
    BY TriageFacts
  <2> QED BY <1>1, <2>1, <2>2
<1>3. CASE t.at = u.at /\ t.score =< u.score
  <2>1. PICK d \in PowerOfTwo : \A x : Halved(x, time - t.at) = x \div d
    BY <1>1, Divisor
  <2>2. PICK x, y \in Nat : x = t.score /\ y = u.score /\ x =< y
    BY <1>1, <1>3
  <2>3. x \div d =< y \div d /\ x \div d \in Nat /\ y \div d \in Nat
    BY <2>2 DEF PowerOfTwo
  <2>4. /\ Left(t, time) = IF (x \div d) * 100 > Unit THEN x \div d ELSE 0
        /\ Left(u, time) = IF (y \div d) * 100 > Unit THEN y \div d ELSE 0
    BY <1>3, <2>1, <2>2 DEF Left
  <2> QED BY <2>3, <2>4, UnitIs
<1> QED BY <1>2, <1>3 DEF Below

LEMMA BelowFlagged ==
  ASSUME NEW t \in Triage, NEW u \in Triage, NEW time \in 0 .. 12,
         t.at =< time, u.at =< time, Below(t, u), NEW w \in Weights
  PROVE  Below(Flagged(t, w, time), Flagged(u, w, time))
<1>1. CASE w = 0
  BY <1>1 DEF Flagged
<1>2. CASE w # 0
  <2>1. PICK x, y \in Nat : x = Left(t, time) /\ y = Left(u, time) /\ x =< y
    <3>1. Left(t, time) \in Nat /\ Left(u, time) \in Nat
      BY TriageFacts
    <3> QED BY <3>1, BelowLeft
  <2>2. PICK a, c \in Nat : a = w * Unit /\ c = Ceiling * Unit
    BY QueueAssumption, UnitIs DEF Weights
  <2>3. /\ Flagged(t, w, time) = [t EXCEPT !.score = IF x + a < c THEN x + a ELSE c,
                                           !.at = time]
        /\ Flagged(u, w, time) = [u EXCEPT !.score = IF y + a < c THEN y + a ELSE c,
                                           !.at = time]
    BY <1>2, <2>1, <2>2 DEF Flagged
  <2>4. /\ Flagged(t, w, time).at = time /\ Flagged(u, w, time).at = time
        /\ Flagged(t, w, time).score = IF x + a < c THEN x + a ELSE c
        /\ Flagged(u, w, time).score = IF y + a < c THEN y + a ELSE c
    BY <2>3 DEF Triage
  <2>5. (IF x + a < c THEN x + a ELSE c) =< (IF y + a < c THEN y + a ELSE c)
    BY <2>1, <2>2
  <2> QED BY <2>4, <2>5 DEF Below
<1> QED BY <1>1, <1>2

---------------------------------------------------------------------------
(* What a session's rows account for                                       *)

\* The folds over the rows determine what they compute.
FoldsAreDefined(q) ==
  HasLast(q) /\ ReplayIsDefined(q) /\ \A time : SumIsDefined(q, time)

\* All that the rows are worth halves at once.
WorthHalves(q, now0) ==
  /\ \A time \in now0 .. 12 : WorthAt(q, time) \in Nat
  /\ \A time \in now0 .. 11 : WorthAt(q, time) = 2 * WorthAt(q, time + 1)

\* The score before the cutoff: the sum, less at most 0.01 per row.
Counts(q, full, time) ==
  /\ Decayed(Replayed(q), time) =< WorthAt(q, time)
  /\ ~full => (WorthAt(q, time) - Decayed(Replayed(q), time)) * 100 =< Unit * Len(q)

Accounts(q, full, time) ==
  /\ q \in Seq(Row)
  /\ FoldsAreDefined(q)
  /\ Replayed(q) \in Triage /\ Replayed(q).at =< time
  /\ WorthHalves(q, time)
  /\ Counts(q, full, time)

LEMMA AccountsNothing ==
  ASSUME NEW full, NEW time \in 0 .. 12
  PROVE  Accounts(<<>>, full, time)
<1>1. FoldsAreDefined(<<>>) /\ Replayed(<<>>) = NewTriage
  BY NoRows DEF FoldsAreDefined
<1>2. NewTriage \in Triage /\ NewTriage.at = 0 /\ NewTriage.score = 0
  BY QueueAssumption, UnitIs DEF NewTriage, Triage
<1>3. \A t : WorthAt(<<>>, t) = 0
  BY NoRows
<1>4. WorthHalves(<<>>, time)
  BY <1>3 DEF WorthHalves
<1>5. Decayed(NewTriage, time) = 0
  <2>1. Decayed(NewTriage, time) = Halved(0, time)
    BY <1>2 DEF Decayed
  <2>2. Halved(0, time) \in Nat /\ Halved(0, time) =< 0
    BY HalvedOnce
  <2> QED BY <2>1, <2>2
<1>6. Counts(<<>>, full, time)
  <2>1. Len(<<>>) = 0
    OBVIOUS
  <2> QED BY <1>1, <1>3, <1>5, <2>1, UnitIs DEF Counts
<1>7. <<>> \in Seq(Row)
  OBVIOUS
<1> QED BY <1>1, <1>2, <1>4, <1>6, <1>7 DEF Accounts

\* A half-life passes.
LEMMA AccountsPass ==
  ASSUME NEW q, NEW full, NEW time \in 0 .. 11, Accounts(q, full, time)
  PROVE  Accounts(q, full, time + 1)
<1> DEFINE t == Replayed(q)
<1>0. /\ q \in Seq(Row) /\ FoldsAreDefined(q) /\ t \in Triage /\ t.at =< time
      /\ WorthHalves(q, time) /\ Counts(q, full, time) /\ Len(q) \in Nat
  BY DEF Accounts
<1> HIDE DEF t
<1>1. /\ time + 1 \in 0 .. 12 /\ time \in 0 .. 12 /\ time \in time .. 11
      /\ time + 1 \in time .. 12 /\ time \in time .. 12
  OBVIOUS
<1>2. t.at \in Nat /\ t.at =< time + 1
  BY <1>0, <1>1, TriageFacts
<1>3. WorthHalves(q, time + 1)
  <2>1. \A u \in time + 1 .. 12 : u \in time .. 12
    OBVIOUS
  <2>2. \A u \in time + 1 .. 11 : u \in time .. 11
    OBVIOUS
  <2> QED BY <1>0, <2>1, <2>2 DEF WorthHalves
<1>4. PICK before, after \in Nat :
        /\ before = WorthAt(q, time) /\ after = WorthAt(q, time + 1)
        /\ before = 2 * after
  BY <1>0, <1>1 DEF WorthHalves
<1>5. PICK was, is, len \in Nat :
        /\ was = Decayed(t, time) /\ is = Decayed(t, time + 1) /\ len = Len(q)
        /\ 2 * is =< was /\ was =< 2 * is + 1
  <2>1. Decayed(t, time) \in Nat /\ Decayed(t, time + 1) \in Nat
    BY <1>0, <1>1, <1>2, TriageFacts
  <2>2. PICK x \in Nat, n \in 0 .. 11 : x = t.score /\ n = time - t.at
    <3>1. t.score \in Nat
      BY <1>0, <1>1, TriageFacts
    <3>2. PICK at \in Nat : at = t.at /\ at =< time
      BY <1>0, <1>2
    <3>3. time - at \in 0 .. 11
      BY <3>2
    <3> QED BY <3>1, <3>2, <3>3
  <2>3. (time + 1) - t.at = n + 1
    BY <1>2, <2>2
  <2>4. Decayed(t, time) = Halved(x, n) /\ Decayed(t, time + 1) = Halved(x, n + 1)
    BY <2>2, <2>3 DEF Decayed
  <2> QED BY <1>0, <2>1, <2>4, HalvedAgain
<1>6. was =< before /\ (~full => (before - was) * 100 =< 4096 * len)
  BY <1>0, <1>4, <1>5, UnitIs DEF Counts, t
<1>7. is =< after
  BY <1>4, <1>5, <1>6
<1>8. ~full => (after - is) * 100 =< 4096 * len
  <2>1. CASE len = 0
    BY <1>4, <1>5, <1>6, <2>1
  <2>2. CASE len >= 1
    <3>1. (after - is) * 200 =< (before - was) * 100 + 100
      <4>1. before = 2 * after /\ was =< 2 * is + 1
        BY <1>4, <1>5
      <4>2. (before - was) * 100 >= (2 * after - (2 * is + 1)) * 100
        BY <4>1
      <4> QED BY <4>2
    <3> QED BY <1>6, <2>2, <3>1
  <2> QED BY <2>1, <2>2
<1>9. Counts(q, full, time + 1)
  BY <1>4, <1>5, <1>7, <1>8, UnitIs DEF Counts, t
<1> QED BY <1>0, <1>2, <1>3, <1>9 DEF Accounts, t

\* A row more is worth its weight, which halves.
LEMMA WorthOn ==
  ASSUME NEW q \in Seq(Row), NEW time \in 0 .. 12, NEW r \in Row, r.at = time,
         FoldsAreDefined(q), WorthHalves(q, time)
  PROVE  /\ WorthHalves(Append(q, r), time)
         /\ WorthAt(Append(q, r), time) = WorthAt(q, time) + r.weight * Unit
<1> DEFINE w == r.weight
<1>1. w \in Weights /\ w * Unit \in Nat
  BY UnitIs DEF Row, Weights
<1>2. \A u : WorthAt(Append(q, r), u) = WorthAt(q, u) + Halved(w * Unit, u - time)
  BY WorthGrows DEF FoldsAreDefined, Value
<1> HIDE DEF w
<1>3. ASSUME NEW u \in time .. 12 PROVE WorthAt(Append(q, r), u) \in Nat
  <2>1. u - time \in 0 .. 12
    OBVIOUS
  <2>2. Halved(w * Unit, u - time) \in Nat
    BY <1>1, <2>1, HalvedOnce
  <2>3. WorthAt(q, u) \in Nat
    BY DEF WorthHalves
  <2> QED BY <1>2, <2>2, <2>3
<1>4. ASSUME NEW u \in time .. 11
      PROVE  WorthAt(Append(q, r), u) = 2 * WorthAt(Append(q, r), u + 1)
  <2>1. PICK n \in 0 .. 11 : n = u - time /\ (u + 1) - time = n + 1
    <3>1. u - time \in 0 .. 11 /\ (u + 1) - time = (u - time) + 1
      OBVIOUS
    <3> QED BY <3>1
  <2>2. Halved(w * Unit, n) = 2 * Halved(w * Unit, n + 1)
    BY <1>1, WeightHalves
  <2>3. WorthAt(q, u) = 2 * WorthAt(q, u + 1) /\ WorthAt(q, u + 1) \in Nat
    <3>1. u + 1 \in time .. 12
      OBVIOUS
    <3> QED BY <3>1 DEF WorthHalves
  <2>4. Halved(w * Unit, n + 1) \in Nat
    <3>1. n + 1 \in 0 .. 12
      OBVIOUS
    <3> QED BY <1>1, <3>1, HalvedOnce
  <2>5. /\ WorthAt(Append(q, r), u) = WorthAt(q, u) + Halved(w * Unit, n)
        /\ WorthAt(Append(q, r), u + 1) = WorthAt(q, u + 1) + Halved(w * Unit, n + 1)
    BY <1>2, <2>1
  <2> QED BY <2>2, <2>3, <2>4, <2>5
<1>5. WorthAt(Append(q, r), time) = WorthAt(q, time) + w * Unit
  <2>1. time - time = 0
    OBVIOUS
  <2>2. Halved(w * Unit, time - time) = w * Unit
    BY <1>1, <2>1, NotHalved
  <2> QED BY <1>2, <2>2
<1> QED BY <1>3, <1>4, <1>5 DEF WorthHalves, w

\* A row more leaves a score below the ceiling, if `more` is to be false.
Fits(t, r, full, more, time) ==
  ~more => /\ ~full
           /\ Left(t, time) + r.weight * Unit =< Ceiling * Unit

\* A row more.
LEMMA AccountsOn ==
  ASSUME NEW q, NEW full, NEW time \in 0 .. 12, Accounts(q, full, time),
         NEW r \in Row, r.at = time, NEW more,
         Fits(Replayed(q), r, full, more, time)
  PROVE  /\ Accounts(Append(q, r), more, time)
         /\ Replayed(Append(q, r)) = Flagged(Replayed(q), r.weight, time)
<1>0. /\ q \in Seq(Row) /\ FoldsAreDefined(q) /\ WorthHalves(q, time)
      /\ Counts(q, full, time) /\ Len(q) \in Nat
  BY DEF Accounts
<1>1. PICK p : p = Append(q, r)
  OBVIOUS
<1>2. PICK t \in Triage : t = Replayed(q) /\ t.at =< time
  BY DEF Accounts
<1>3. PICK w \in Weights : w = r.weight
  BY DEF Row
<1>4. PICK f : f = Flagged(t, w, time)
  OBVIOUS
<1>5. p \in Seq(Row) /\ Len(p) = Len(q) + 1
  BY <1>0, <1>1
<1>6. Replayed(p) = f
  BY <1>0, <1>1, <1>2, <1>3, <1>4, ReplayGrows DEF FoldsAreDefined, RowTime
<1>7. FoldsAreDefined(p)
  BY <1>0, <1>1, LastGrows, ReplayGrows, WorthGrows DEF FoldsAreDefined
<1>8. WorthHalves(p, time) /\ WorthAt(p, time) = WorthAt(q, time) + w * Unit
  BY <1>0, <1>1, <1>3, WorthOn
<1>9. f \in Triage /\ f.at =< time /\ (w = 0 => f = t)
  BY <1>2, <1>4, FlaggedFacts
<1>10. Counts(p, more, time)
  <2>0. /\ Decayed(t, time) \in Nat /\ Left(t, time) \in Nat
        /\ Left(t, time) =< Decayed(t, time)
        /\ Left(t, time) = 0 \/ Left(t, time) = Decayed(t, time)
        /\ Left(t, time) = 0 => Decayed(t, time) * 100 =< 4096
    BY <1>2, TriageFacts, UnitIs
  <2>1. PICK decayed, score, add, len, worth \in Nat :
          /\ decayed = Decayed(t, time) /\ score = Left(t, time) /\ add = w * Unit
          /\ len = Len(q) /\ worth = WorthAt(q, time)
    <3>1. w * Unit \in Nat
      BY UnitIs DEF Weights
    <3>2. time \in time .. 12
      OBVIOUS
    <3>3. WorthAt(q, time) \in Nat
      BY <1>0, <3>2 DEF WorthHalves
    <3> QED BY <1>0, <2>0, <3>1, <3>3
  <2>2. /\ score =< decayed /\ decayed =< worth
        /\ score = 0 \/ score = decayed
        /\ score = 0 => decayed * 100 =< 4096
        /\ ~full => (worth - decayed) * 100 =< 4096 * len
    BY <1>0, <1>2, <2>0, <2>1, UnitIs DEF Counts
  <2>3. ~more => ~full /\ score + add =< Ceiling * Unit
    BY <1>2, <1>3, <2>1 DEF Fits
  <2>4. PICK is \in Nat : is = Decayed(f, time)
    BY <1>9, TriageFacts
  <2>5. WorthAt(p, time) = worth + add /\ Len(p) = len + 1
    BY <1>5, <1>8, <2>1
  <2>6. is =< worth + add /\ (~more => ((worth + add) - is) * 100 =< 4096 * (len + 1))
    <3>1. 4096 * (len + 1) = 4096 * len + 4096
      OBVIOUS
    <3>2. CASE w = 0
      <4>1. is = decayed /\ add = 0
        BY <1>9, <2>1, <2>4, <3>2, UnitIs
      <4>2. ~more => (worth - decayed) * 100 =< 4096 * len
        BY <2>2, <2>3
      <4> QED BY <2>2, <3>1, <4>1, <4>2
    <3>3. CASE w # 0
      <4>1. is =< score + add /\ (~more => is = score + add)
        <5>1. /\ f.at = time /\ f.score =< score + add
              /\ score + add =< Ceiling * Unit => f.score = score + add
          BY <1>2, <1>4, <2>1, <3>3, FlaggedFacts
        <5>2. f.score \in Nat
          BY <1>9, TriageFacts
        <5>3. Decayed(f, time) = f.score
          <6>1. time - f.at = 0
            BY <5>1
          <6> QED BY <5>2, <6>1, NotHalved DEF Decayed
        <5> QED BY <2>3, <2>4, <5>1, <5>3
      <4>2. is =< worth + add
        BY <2>2, <4>1
      <4>3. (worth - score) * 100 =< (worth - decayed) * 100 + 4096
        <5>1. CASE score = decayed
          BY <5>1
        <5>2. CASE score = 0 /\ decayed * 100 =< 4096
          <6>1. (worth - score) * 100 = (worth - decayed) * 100 + decayed * 100
            BY <5>2
          <6> QED BY <5>2, <6>1
        <5> QED BY <2>2, <5>1, <5>2
      <4>4. ~more => (worth - score) * 100 =< 4096 * (len + 1)
        <5>1. ~more => (worth - decayed) * 100 =< 4096 * len
          BY <2>2, <2>3
        <5> QED BY <3>1, <4>3, <5>1
      <4>5. is = score + add => (worth + add) - is = worth - score
        OBVIOUS
      <4> QED BY <4>1, <4>2, <4>4, <4>5
    <3> QED BY <3>2, <3>3
  <2>7. Decayed(Replayed(p), time) = is
    BY <1>6, <2>4
  <2> QED BY <2>5, <2>6, <2>7, UnitIs DEF Counts
<1> QED BY <1>1, <1>2, <1>3, <1>4, <1>5, <1>6, <1>7, <1>8, <1>9, <1>10 DEF Accounts

---------------------------------------------------------------------------
(* The newest rows                                                         *)

LEMMA FromIs ==
  ASSUME NEW q \in Seq(Row), NEW n \in 0 .. Len(q)
  PROVE  /\ From(q, n) \in Seq(Row)
         /\ Len(From(q, n)) = Len(q) - n
         /\ From(q, Len(q)) = <<>>
BY DEF From

LEMMA FromOn ==
  ASSUME NEW q \in Seq(Row), NEW r \in Row, NEW n \in 0 .. Len(q)
  PROVE  From(Append(q, r), n) = Append(From(q, n), r)
<1>1. PICK m \in Nat : m = Len(q)
  BY Positions
<1>2. PICK p : p = Append(q, r)
  OBVIOUS
<1>3. /\ p \in Seq(Row) /\ Len(p) = m + 1
      /\ \A i \in 1 .. m : p[i] = q[i]
      /\ p[m + 1] = r
  BY <1>1, <1>2
<1>4. PICK x, y : x = From(p, n) /\ y = From(q, n)
  OBVIOUS
<1>5. /\ x \in Seq(Row) /\ Len(x) = (m + 1) - n
      /\ \A i \in 1 .. (m + 1) - n : x[i] = p[n + i]
  BY <1>1, <1>3, <1>4 DEF From
<1>6. /\ y \in Seq(Row) /\ Len(y) = m - n
      /\ \A i \in 1 .. m - n : y[i] = q[n + i]
  BY <1>1, <1>4 DEF From
<1>7. PICK z : z = Append(y, r)
  OBVIOUS
<1>8. /\ z \in Seq(Row) /\ Len(z) = (m - n) + 1
      /\ \A i \in 1 .. m - n : z[i] = y[i]
      /\ z[(m - n) + 1] = r
  <2>1. PICK l \in Nat : l = Len(y) /\ l = m - n
    BY <1>6
  <2>2. y \in Seq(Row)
    BY <1>6
  <2>3. /\ Append(y, r) \in Seq(Row) /\ Len(Append(y, r)) = l + 1
        /\ \A i \in 1 .. l : Append(y, r)[i] = y[i]
        /\ Append(y, r)[l + 1] = r
    <3>1. Append(y, r) \in Seq(Row) /\ Len(Append(y, r)) = Len(y) + 1
      BY <2>2
    <3>2. /\ \A i \in 1 .. Len(y) : Append(y, r)[i] = y[i]
          /\ Append(y, r)[Len(y) + 1] = r
      BY <2>2, Positions
    <3> QED BY <2>1, <3>1, <3>2
  <2> QED BY <1>7, <2>1, <2>3
<1>9. (m + 1) - n = (m - n) + 1
  BY <1>1
<1>10. ASSUME NEW i \in 1 .. (m + 1) - n PROVE x[i] = z[i]
  <2>1. CASE i = (m - n) + 1
    <3>1. n + i = m + 1
      BY <1>1, <2>1
    <3> QED BY <1>3, <1>5, <1>8, <2>1, <3>1
  <2>2. CASE i # (m - n) + 1
    <3>1. i \in 1 .. m - n /\ n + i \in 1 .. m
      BY <1>1, <2>2
    <3> QED BY <1>3, <1>5, <1>6, <1>8, <3>1
  <2> QED BY <2>1, <2>2
<1>11. x = z
  <2>1. PICK l \in Nat : l = Len(x) /\ l = Len(z) /\ l = (m + 1) - n
    BY <1>5, <1>8, <1>9
  <2>2. x = [i \in 1 .. l |-> x[i]] /\ z = [i \in 1 .. l |-> z[i]]
    BY <1>5, <1>8, <2>1
  <2>3. \A i \in 1 .. l : x[i] = z[i]
    BY <1>10, <2>1
  <2> QED BY <2>2, <2>3
<1> QED BY <1>2, <1>4, <1>7, <1>11

\* Rows n + 1 .. m carry no weight.
Weightless(q, n, m) == \A i \in DOMAIN q : n < i /\ i =< m => q[i].weight = 0

\* Leaving out more rows gives no more score, and the same if they carry no
\* weight.
Falls(q, n, m) ==
  /\ Below(Replayed(From(q, m)), Replayed(From(q, n)))
  /\ Weightless(q, n, m) => Replayed(From(q, m)) = Replayed(From(q, n))

\* What holds of the rows that come after some number of them, from `unseen` on.
Tracks(q, unseen, full, time) ==
  /\ \A n \in unseen .. Len(q) : Accounts(From(q, n), full, time)
  /\ \A n \in unseen .. Len(q) : \A m \in n .. Len(q) : Falls(q, n, m)

LEMMA TracksNothing ==
  ASSUME NEW full, NEW time \in 0 .. 12
  PROVE  Tracks(<<>>, 0, full, time)
<1>1. <<>> \in Seq(Row) /\ Len(<<>>) = 0 /\ 0 .. 0 = {0}
  OBVIOUS
<1>2. From(<<>>, 0) = <<>>
  BY <1>1, FromIs
<1>3. Accounts(From(<<>>, 0), full, time)
  BY <1>2, AccountsNothing
<1>4. Falls(<<>>, 0, 0)
  <2>1. Replayed(<<>>).score = 0
    BY NoRows DEF NewTriage
  <2> QED BY <1>2, <2>1 DEF Falls, Below
<1> QED BY <1>1, <1>3, <1>4 DEF Tracks

LEMMA TracksLater ==
  ASSUME NEW q \in Seq(Row), NEW full, NEW time, NEW n \in Nat, NEW m \in Nat,
         n =< m, Tracks(q, n, full, time)
  PROVE  Tracks(q, m, full, time)
<1>1. \A i \in m .. Len(q) : i \in n .. Len(q)
  OBVIOUS
<1> QED BY <1>1 DEF Tracks

LEMMA TracksPass ==
  ASSUME NEW q, NEW n, NEW full, NEW time \in 0 .. 11, Tracks(q, n, full, time)
  PROVE  Tracks(q, n, full, time + 1)
BY AccountsPass DEF Tracks

LEMMA TracksOn ==
  ASSUME NEW q \in Seq(Row), NEW k \in 0 .. Len(q), NEW full, NEW time \in 0 .. 12,
         Tracks(q, k, full, time), NEW r \in Row, r.at = time, NEW more,
         Fits(Replayed(From(q, k)), r, full, more, time)
  PROVE  /\ Tracks(Append(q, r), k, more, time)
         /\ Replayed(From(Append(q, r), k))
              = Flagged(Replayed(From(q, k)), r.weight, time)
<1>1. PICK len \in Nat : len = Len(q)
  BY Positions
<1>2. PICK p : p = Append(q, r)
  OBVIOUS
<1>3. /\ p \in Seq(Row) /\ Len(p) = len + 1 /\ DOMAIN p = 1 .. len + 1
      /\ DOMAIN q = 1 .. len
      /\ \A i \in 1 .. len : p[i] = q[i]
      /\ p[len + 1] = r
  BY <1>1, <1>2
<1>4. PICK w \in Weights : w = r.weight
  BY DEF Row
<1>5. \A n \in k .. len : n \in 0 .. len
  BY <1>1
<1>6. ASSUME NEW n \in k .. len
      PROVE  /\ Accounts(From(q, n), full, time)
             /\ Replayed(From(q, n)) \in Triage /\ Replayed(From(q, n)).at =< time
  BY <1>1 DEF Tracks, Accounts
<1>7. k \in k .. len
  BY <1>1
<1>8. ASSUME NEW n \in k .. len
      PROVE  Fits(Replayed(From(q, n)), r, full, more, time)
  <2>1. Falls(q, k, n)
    BY <1>1, <1>7 DEF Tracks
  <2>2. Below(Replayed(From(q, n)), Replayed(From(q, k)))
    BY <2>1 DEF Falls
  <2>3. PICK t, u \in Triage : /\ t = Replayed(From(q, n)) /\ u = Replayed(From(q, k))
                               /\ t.at =< time /\ u.at =< time /\ Below(t, u)
    BY <1>6, <1>7, <2>2
  <2>4. Left(t, time) =< Left(u, time)
    BY <2>3, BelowLeft
  <2>5. PICK x, y, a, c \in Nat : /\ x = Left(t, time) /\ y = Left(u, time)
                                  /\ a = w * Unit /\ c = Ceiling * Unit
    <3>1. Left(t, time) \in Nat /\ Left(u, time) \in Nat
      BY <2>3, TriageFacts
    <3>2. w * Unit \in Nat /\ Ceiling * Unit \in Nat
      BY QueueAssumption, UnitIs DEF Weights
    <3> QED BY <3>1, <3>2
  <2>6. y + a =< c => x + a =< c
    BY <2>4, <2>5
  <2>7. ~more => ~full /\ y + a =< c
    BY <1>4, <2>3, <2>5 DEF Fits
  <2> QED BY <1>4, <2>3, <2>5, <2>6, <2>7 DEF Fits
<1>9. ASSUME NEW n \in k .. len
      PROVE  /\ Accounts(From(p, n), more, time)
             /\ Replayed(From(p, n)) = Flagged(Replayed(From(q, n)), w, time)
  <2>1. PICK x : x = From(q, n)
    OBVIOUS
  <2>2. From(p, n) = Append(x, r)
    BY <1>1, <1>2, <1>5, <2>1, FromOn
  <2>3. /\ Accounts(x, full, time)
        /\ Fits(Replayed(x), r, full, more, time)
    BY <1>6, <1>8, <2>1
  <2>4. /\ Accounts(Append(x, r), more, time)
        /\ Replayed(Append(x, r)) = Flagged(Replayed(x), r.weight, time)
    <3>1. time \in 0 .. 12 /\ r \in Row /\ r.at = time
      OBVIOUS
    <3> QED BY <2>3, <3>1, AccountsOn, Zenon
  <2> QED BY <1>4, <2>1, <2>2, <2>4
<1>10. From(p, len + 1) = <<>>
  BY <1>3, FromIs
<1>11. ASSUME NEW n \in k .. len + 1 PROVE Accounts(From(p, n), more, time)
  <2>1. CASE n \in k .. len
    BY <1>9, <2>1
  <2>2. CASE n = len + 1
    BY <1>10, <2>2, AccountsNothing
  <2> QED BY <1>1, <2>1, <2>2
<1>12. ASSUME NEW n \in k .. len + 1, NEW m \in n .. len + 1 PROVE Falls(p, n, m)
  <2>1. CASE m \in n .. len
    <3>0. n \in k .. len /\ m \in k .. len
      BY <1>1, <2>1
    <3>1. Falls(q, n, m)
      BY <1>1, <2>1, <3>0 DEF Tracks
    <3>2. /\ Replayed(From(p, n)) = Flagged(Replayed(From(q, n)), w, time)
          /\ Replayed(From(p, m)) = Flagged(Replayed(From(q, m)), w, time)
      BY <1>9, <3>0
    <3>3. Below(Replayed(From(p, m)), Replayed(From(p, n)))
      <4>1. /\ Replayed(From(q, n)) \in Triage /\ Replayed(From(q, n)).at =< time
            /\ Replayed(From(q, m)) \in Triage /\ Replayed(From(q, m)).at =< time
        BY <1>6, <3>0
      <4>2. Below(Replayed(From(q, m)), Replayed(From(q, n)))
        BY <3>1 DEF Falls
      <4> QED BY <3>2, <4>1, <4>2, BelowFlagged
    <3>4. Weightless(p, n, m) => Weightless(q, n, m)
      BY <1>3 DEF Weightless
    <3> QED BY <3>1, <3>2, <3>3, <3>4 DEF Falls
  <2>2. CASE m = len + 1
    <3>1. Replayed(From(p, m)) = NewTriage
      BY <1>10, <2>2, NoRows
    <3>2. Below(Replayed(From(p, m)), Replayed(From(p, n)))
      BY <3>1 DEF Below, NewTriage
    <3>3. CASE n = len + 1
      BY <2>2, <3>2, <3>3 DEF Falls
    <3>4. CASE n \in k .. len
      <4>1. ASSUME Weightless(p, n, m)
            PROVE  Replayed(From(p, n)) = NewTriage
        <5>1. w = 0
          <6>1. len + 1 \in DOMAIN p /\ n < len + 1
            BY <1>1, <1>3, <3>4
          <6> QED BY <1>3, <1>4, <2>2, <4>1, <6>1 DEF Weightless
        <5>2. Weightless(q, n, len)
          BY <1>3, <2>2, <4>1 DEF Weightless
        <5>3. Falls(q, n, len)
          <6>1. len \in n .. len
            BY <1>1, <3>4
          <6> QED BY <1>1, <3>4, <6>1 DEF Tracks
        <5>4. Replayed(From(q, n)) = NewTriage
          <6>1. From(q, len) = <<>>
            BY <1>1, FromIs
          <6> QED BY <5>2, <5>3, <6>1, NoRows DEF Falls
        <5> QED BY <1>9, <3>4, <5>1, <5>4 DEF Flagged
      <4> QED BY <3>1, <3>2, <4>1 DEF Falls
    <3> QED BY <1>1, <3>3, <3>4
  <2> QED BY <1>1, <2>1, <2>2
<1>13. Tracks(p, k, more, time)
  BY <1>3, <1>11, <1>12 DEF Tracks
<1> QED BY <1>2, <1>4, <1>7, <1>9, <1>13

---------------------------------------------------------------------------
(* The invariant                                                           *)

Typed ==
  /\ now \in 0 .. MaxNow
  /\ restarts \in 0 .. MaxRestarts
  /\ capped \subseteq Sessions
  /\ board \in [Sessions -> Triage]
  /\ rows \in [Sessions -> Seq(Row)]
  /\ unread \in [Sessions -> Nat]
  /\ \A s \in Sessions :
       /\ board[s].at =< now
       /\ \A i \in 1 .. Len(rows[s]) : rows[s][i].at =< now

\* The rows of a session the process knows of, replayed, give what the board
\* shows of it, but for the stream; so much for those and for any later ones.
Follows(s) ==
  /\ unread[s] =< LeftOut(rows[s])
  /\ Tracks(rows[s], unread[s], s \in capped, now)
  /\ board[s].score = Replayed(From(rows[s], unread[s])).score
  /\ board[s].at = Replayed(From(rows[s], unread[s])).at

QueueInv == Typed /\ \A s \in Sessions : Follows(s)

LEMMA LeftOutIs ==
  ASSUME NEW q \in Seq(Row)
  PROVE  /\ LeftOut(q) \in 0 .. Len(q)
         /\ \A i \in Nat : i > 0 /\ i =< LeftOut(q) => i =< Len(q) - RestoredPerSession
         /\ \A r \in Row : LeftOut(q) =< LeftOut(Append(q, r))
<1>1. PICK m, n \in Nat : m = Len(q) /\ n = RestoredPerSession
  BY QueueAssumption, Positions
<1>2. LeftOut(q) = IF m > n THEN m - n ELSE 0
  BY <1>1 DEF LeftOut
<1>3. ASSUME NEW r \in Row PROVE LeftOut(q) =< LeftOut(Append(q, r))
  <2>1. Len(Append(q, r)) = m + 1
    BY <1>1
  <2>2. LeftOut(Append(q, r)) = IF m + 1 > n THEN m + 1 - n ELSE 0
    BY <1>1, <2>1 DEF LeftOut
  <2> QED BY <1>1, <1>2, <2>2
<1> QED BY <1>1, <1>2, <1>3

LEMMA SessionFacts ==
  ASSUME QueueInv, NEW s \in Sessions
  PROVE  /\ board[s] \in Triage /\ board[s].at =< now
         /\ rows[s] \in Seq(Row) /\ Len(rows[s]) \in Nat
         /\ now \in 0 .. 12 /\ now \in Nat
         /\ unread[s] \in 0 .. Len(rows[s]) /\ unread[s] =< LeftOut(rows[s])
         /\ Tracks(rows[s], unread[s], s \in capped, now)
         /\ Score(s) \in Nat
         /\ Replayed(From(rows[s], unread[s])) \in Triage
         /\ Left(Replayed(From(rows[s], unread[s])), now) = Score(s)
<1>1. /\ board[s] \in Triage /\ rows[s] \in Seq(Row) /\ board[s].at =< now
      /\ now \in 0 .. 12 /\ unread[s] \in Nat /\ unread[s] =< LeftOut(rows[s])
      /\ Tracks(rows[s], unread[s], s \in capped, now)
  <2>1. Typed /\ Follows(s)
    BY DEF QueueInv
  <2>2. board[s] \in Triage /\ rows[s] \in Seq(Row) /\ unread[s] \in Nat
    BY <2>1 DEF Typed
  <2>3. board[s].at =< now
    BY <2>1 DEF Typed
  <2>4. now \in 0 .. 12
    <3>1. now \in 0 .. MaxNow
      BY <2>1 DEF Typed
    <3> QED BY <3>1, QueueAssumption
  <2> QED BY <2>1, <2>2, <2>3, <2>4 DEF Follows
<1>2. Len(rows[s]) \in Nat /\ now \in Nat
  BY <1>1
<1>3. unread[s] \in 0 .. Len(rows[s])
  BY <1>1, <1>2, LeftOutIs
<1>4. Score(s) \in Nat
  BY <1>1, TriageFacts DEF Score
<1>5. Replayed(From(rows[s], unread[s])) \in Triage
  <2>1. unread[s] \in unread[s] .. Len(rows[s])
    BY <1>2, <1>3
  <2> QED BY <1>1, <2>1 DEF Tracks, Accounts
<1>6. Left(Replayed(From(rows[s], unread[s])), now) = Score(s)
  BY <1>1, <1>5, FlaggedAlike DEF QueueInv, Follows, Score
<1> QED BY <1>1, <1>2, <1>3, <1>4, <1>5, <1>6

LEMMA InvImplies ==
  ASSUME QueueInv
  PROVE  TypeOK /\ ScoreIsWeightedCount
<1>0. Typed
  BY DEF QueueInv
<1>1. TypeOK
  <2>1. ASSUME NEW s \in Sessions
        PROVE  board[s] \in [score : 0 .. Ceiling * Unit, at : 0 .. now,
                             connected : BOOLEAN]
    <3>1. board[s].at \in 0 .. now
      <4>1. board[s] \in Triage /\ board[s].at =< now /\ now \in 0 .. 12
        BY SessionFacts
      <4>2. board[s].at \in Nat
        BY <4>1 DEF Triage
      <4> QED BY <4>1, <4>2
    <3> QED BY <3>1, SessionFacts DEF Triage
  <2>2. ASSUME NEW s \in Sessions, NEW i \in DOMAIN rows[s]
        PROVE  rows[s][i] \in [weight : Weights, at : 0 .. now]
    <3>1. rows[s][i] \in Row /\ i \in 1 .. Len(rows[s])
      BY SessionFacts
    <3>2. rows[s][i].at \in 0 .. now
      BY <1>0, <3>1, SessionFacts DEF Typed, Row
    <3> QED BY <3>1, <3>2 DEF Row
  <2> QED BY <1>0, <2>1, <2>2, SessionFacts DEF TypeOK, Typed
<1>2. ASSUME NEW s \in Sessions
      PROVE  /\ Score(s) <= Worth(s)
             /\ s \notin capped =>
                  (Worth(s) - Score(s)) * 100
                    <= Unit * (Len(rows[s]) - unread[s] + 1)
  <2>1. PICK q, t : q = From(rows[s], unread[s]) /\ t = Replayed(q)
    OBVIOUS
  <2>2. Accounts(q, s \in capped, now) /\ t \in Triage /\ t.at =< now
    <3>1. unread[s] \in unread[s] .. Len(rows[s])
      BY SessionFacts
    <3> QED BY <2>1, <3>1, SessionFacts DEF Tracks, Accounts
  <2>3. PICK len \in Nat : len = Len(q) /\ len = Len(rows[s]) - unread[s]
    BY <2>1, SessionFacts, FromIs
  <2>4. PICK worth \in Nat : worth = Worth(s) /\ worth = WorthAt(q, now)
    <3>1. Worth(s) = WorthAt(q, now)
      BY <2>1 DEF Worth, WorthAt
    <3>2. now \in now .. 12
      BY SessionFacts
    <3> QED BY <2>2, <3>1, <3>2 DEF Accounts, WorthHalves
  <2>5. PICK score, decayed \in Nat : score = Score(s) /\ decayed = Decayed(t, now)
    BY <2>2, SessionFacts, TriageFacts
  <2>6. score = Left(t, now)
    BY <2>1, <2>5, SessionFacts
  <2>7. /\ score =< decayed
        /\ score = 0 \/ score = decayed
        /\ score = 0 => decayed * 100 =< 4096
    <3>1. now \in 0 .. 12
      BY SessionFacts
    <3>2. /\ Left(t, now) =< Decayed(t, now)
          /\ Left(t, now) = 0 \/ Left(t, now) = Decayed(t, now)
          /\ Left(t, now) = 0 => Decayed(t, now) * 100 =< Unit
      BY <2>2, <3>1, TriageFacts
    <3> QED BY <2>5, <2>6, <3>2, UnitIs
  <2>8. decayed =< worth /\ (s \notin capped => (worth - decayed) * 100 =< 4096 * len)
    BY <2>1, <2>2, <2>3, <2>4, <2>5, UnitIs DEF Accounts, Counts
  <2>9. s \notin capped => (worth - score) * 100 =< 4096 * (len + 1)
    <3>1. 4096 * (len + 1) = 4096 * len + 4096
      OBVIOUS
    <3>2. CASE score = decayed
      BY <2>8, <3>1, <3>2
    <3>3. CASE score = 0 /\ decayed * 100 =< 4096
      <4>1. (worth - score) * 100 = (worth - decayed) * 100 + decayed * 100
        BY <3>3
      <4> QED BY <2>8, <3>1, <3>3, <4>1
    <3> QED BY <2>7, <3>2, <3>3
  <2> QED BY <2>3, <2>4, <2>5, <2>7, <2>8, <2>9, UnitIs
<1> QED BY <1>1, <1>2 DEF ScoreIsWeightedCount

LEMMA QueueInit == Init => QueueInv
<1> SUFFICES ASSUME Init PROVE QueueInv
  OBVIOUS
<1>1. /\ now = 0 /\ restarts = 0 /\ capped = {}
      /\ board = [s \in Sessions |-> NewTriage]
      /\ rows = [s \in Sessions |-> <<>>]
      /\ unread = [s \in Sessions |-> 0]
  BY DEF Init
<1>2. NewTriage \in Triage /\ NewTriage.at = 0 /\ NewTriage.score = 0
  BY QueueAssumption, UnitIs DEF NewTriage, Triage
<1>3. \A s \in Sessions : rows[s] = <<>> /\ board[s] = NewTriage /\ unread[s] = 0
  BY <1>1
<1>4. Typed
  <2>1. <<>> \in Seq(Row) /\ Len(<<>>) = 0
    OBVIOUS
  <2>2. now \in 0 .. MaxNow /\ restarts \in 0 .. MaxRestarts
    BY <1>1, QueueAssumption
  <2> QED BY <1>1, <1>2, <1>3, <2>1, <2>2 DEF Typed
<1>5. ASSUME NEW s \in Sessions PROVE Follows(s)
  <2>1. <<>> \in Seq(Row) /\ Len(<<>>) = 0
    OBVIOUS
  <2>2. From(<<>>, 0) = <<>>
    <3>1. 0 \in 0 .. Len(<<>>)
      BY <2>1
    <3> QED BY <2>1, <3>1, FromIs
  <2>4. 0 =< LeftOut(<<>>)
    <3>1. LeftOut(<<>>) \in 0 .. Len(<<>>)
      BY <2>1, LeftOutIs
    <3> QED BY <2>1, <3>1
  <2>3. Tracks(<<>>, 0, s \in capped, 0)
    BY TracksNothing
  <2> QED BY <1>1, <1>3, <2>2, <2>3, <2>4, NoRows DEF Follows
<1> QED BY <1>4, <1>5 DEF QueueInv

LEMMA PassStep == ASSUME QueueInv, Pass PROVE QueueInv'
<1>0. Typed /\ now \in 0 .. 12 /\ now' = now + 1 /\ now < MaxNow
  <2>1. Typed /\ now \in 0 .. MaxNow
    BY DEF QueueInv, Typed
  <2>2. now \in 0 .. 12
    BY <2>1, QueueAssumption
  <2> QED BY <2>1, <2>2 DEF Pass
<1>1. UNCHANGED <<board, rows, capped, unread, restarts>>
  BY DEF Pass
<1>2. /\ now' \in 0 .. MaxNow /\ now \in 0 .. 11 /\ now =< now'
  BY <1>0, QueueAssumption
<1>3. Typed'
  <2>1. ASSUME NEW s \in Sessions
        PROVE  /\ board[s].at =< now'
               /\ \A i \in 1 .. Len(rows[s]) : rows[s][i].at =< now'
    <3>1. board[s].at \in Nat /\ board[s].at =< now
      BY SessionFacts, TriageFacts
    <3>2. ASSUME NEW i \in 1 .. Len(rows[s]) PROVE rows[s][i].at =< now'
      <4>1. rows[s][i] \in Row
        BY SessionFacts
      <4>2. PICK at \in Nat : at = rows[s][i].at
        BY <4>1 DEF Row
      <4>3. at =< now
        BY <1>0, <4>2 DEF Typed
      <4> QED BY <1>0, <4>2, <4>3
    <3> QED BY <1>0, <3>1, <3>2
  <2> QED BY <1>0, <1>1, <1>2, <2>1 DEF Typed
<1>4. ASSUME NEW s \in Sessions PROVE Follows(s)'
  <2>1. Tracks(rows[s], unread[s], s \in capped, now + 1)
    BY <1>2, SessionFacts, TracksPass
  <2> QED BY <1>0, <1>1, <2>1 DEF QueueInv, Follows
<1> QED BY <1>3, <1>4 DEF QueueInv

LEMMA ConnectionStep ==
  ASSUME QueueInv, NEW s \in Sessions, Connection(s)
  PROVE  QueueInv'
<1>1. /\ board' = [board EXCEPT ![s].connected = ~board[s].connected]
      /\ UNCHANGED <<now, rows, capped, unread>> /\ restarts' = restarts
  BY DEF Connection
<1>2. Typed
  BY DEF QueueInv
<1>3. /\ board' \in [Sessions -> Triage]
      /\ \A t \in Sessions : /\ board'[t].score = board[t].score
                             /\ board'[t].at = board[t].at
  BY <1>1, <1>2 DEF Typed, Triage
<1>4. Typed'
  BY <1>1, <1>2, <1>3 DEF Typed
<1>5. ASSUME NEW t \in Sessions PROVE Follows(t)'
  BY <1>1, <1>3 DEF QueueInv, Follows
<1> QED BY <1>4, <1>5 DEF QueueInv

\* The process restarts: it knows of the rows it reads.
LEMMA RestartStep == ASSUME QueueInv, Restart PROVE QueueInv'
<1>1. /\ board' = [s \in Sessions |-> Replayed(Newest(rows[s]))]
      /\ unread' = [s \in Sessions |-> LeftOut(rows[s])]
      /\ UNCHANGED <<now, rows, capped>> /\ restarts' = restarts + 1
      /\ restarts < MaxRestarts
  BY DEF Restart
<1>2. Typed
  BY DEF QueueInv
<1>3. restarts' \in 0 .. MaxRestarts
  BY <1>1, <1>2, QueueAssumption DEF Typed
<1>4. ASSUME NEW s \in Sessions
      PROVE  /\ unread'[s] = LeftOut(rows[s])
             /\ unread'[s] \in Nat
             /\ board'[s] = Replayed(From(rows[s], unread'[s]))
             /\ board'[s] \in Triage /\ board'[s].at =< now
             /\ Tracks(rows[s], unread'[s], s \in capped, now)
  <2>1. /\ rows[s] \in Seq(Row) /\ unread[s] \in Nat /\ Len(rows[s]) \in Nat
        /\ LeftOut(rows[s]) \in 0 .. Len(rows[s]) /\ unread[s] =< LeftOut(rows[s])
        /\ Tracks(rows[s], unread[s], s \in capped, now)
    BY SessionFacts, LeftOutIs
  <2>2. PICK n \in Nat : n = LeftOut(rows[s]) /\ n \in n .. Len(rows[s])
    BY <2>1
  <2>3. Tracks(rows[s], n, s \in capped, now)
    BY <2>1, <2>2, TracksLater
  <2>4. Replayed(From(rows[s], n)) \in Triage /\ Replayed(From(rows[s], n)).at =< now
    BY <2>2, <2>3 DEF Tracks, Accounts
  <2>5. board'[s] = Replayed(From(rows[s], n)) /\ unread'[s] = n
    BY <1>1, <2>2 DEF Newest
  <2> QED BY <2>2, <2>3, <2>4, <2>5
<1>5. Typed'
  <2>1. board' \in [Sessions -> Triage] /\ unread' \in [Sessions -> Nat]
    BY <1>1, <1>4
  <2> QED BY <1>1, <1>2, <1>3, <1>4, <2>1 DEF Typed
<1>6. ASSUME NEW s \in Sessions PROVE Follows(s)'
  <2>1. LeftOut(rows[s]) =< LeftOut(rows[s])
    BY <1>4
  <2> QED BY <1>1, <1>4, <2>1 DEF Follows
<1> QED BY <1>5, <1>6 DEF QueueInv

LEMMA FlagStep ==
  ASSUME QueueInv, NEW s \in Sessions, NEW w \in Weights, Flag(s, w)
  PROVE  QueueInv'
<1>0. Typed /\ now \in 0 .. 12 /\ now \in Nat
  BY SessionFacts DEF QueueInv
<1>1. PICK r \in Row : r = [weight |-> w, at |-> now] /\ r.weight = w /\ r.at = now
  <2>1. [weight |-> w, at |-> now] \in Row
    BY <1>0 DEF Row
  <2> QED BY <2>1
<1>2. /\ board' = [board EXCEPT ![s] = Flagged(board[s], w, now)]
      /\ rows' = [rows EXCEPT ![s] = Append(rows[s], r)]
      /\ capped' = IF Score(s) + w * Unit > Ceiling * Unit
                   THEN capped \cup {s} ELSE capped
      /\ now' = now /\ restarts' = restarts /\ unread' = unread
  BY <1>1 DEF Flag
<1>3. PICK q, k, u : /\ q = rows[s] /\ k = unread[s]
                     /\ u = Replayed(From(q, k))
  OBVIOUS
<1>4. /\ q \in Seq(Row) /\ Len(q) \in Nat /\ k \in 0 .. Len(q) /\ k =< LeftOut(q)
      /\ Tracks(q, k, s \in capped, now) /\ u \in Triage /\ Left(u, now) = Score(s)
      /\ board[s] \in Triage /\ board[s].at =< now /\ Score(s) \in Nat
  BY <1>3, SessionFacts
<1>5. board[s].score = u.score /\ board[s].at = u.at
  BY <1>3 DEF QueueInv, Follows
<1>6. /\ board'[s] = Flagged(board[s], w, now)
      /\ rows'[s] = Append(q, r)
      /\ unread'[s] = k
      /\ \A t \in Sessions : t # s =>
           board'[t] = board[t] /\ rows'[t] = rows[t] /\ unread'[t] = unread[t]
  BY <1>0, <1>2, <1>3 DEF Typed
<1>7. board'[s] \in Triage /\ board'[s].at =< now
  BY <1>0, <1>4, <1>6, FlaggedFacts
<1>8. Typed'
  <2>1. capped' \subseteq Sessions
    BY <1>0, <1>2 DEF Typed
  <2>2. Append(q, r) \in Seq(Row) /\ Len(Append(q, r)) = Len(q) + 1
    BY <1>4
  <2>3. board' \in [Sessions -> Triage] /\ rows' \in [Sessions -> Seq(Row)]
    BY <1>0, <1>2, <1>3, <1>6, <1>7, <2>2 DEF Typed
  <2>4. ASSUME NEW t \in Sessions
        PROVE  /\ board'[t].at =< now
               /\ \A i \in 1 .. Len(rows'[t]) : rows'[t][i].at =< now
    <3>1. CASE t = s
      <4>1. \A i \in 1 .. Len(q) : q[i].at =< now
        BY <1>0, <1>3 DEF Typed
      <4>2. ASSUME NEW i \in 1 .. Len(q) + 1 PROVE Append(q, r)[i].at =< now
        <5>1. r.at =< now
          BY <1>0, <1>1
        <5> QED BY <1>4, <4>1, <5>1
      <4> QED BY <1>6, <1>7, <2>2, <3>1, <4>2
    <3>2. CASE t # s
      BY <1>0, <1>6, <3>2 DEF Typed
    <3> QED BY <3>1, <3>2
  <2> QED BY <1>0, <1>2, <2>1, <2>3, <2>4 DEF Typed
<1>9. Follows(s)'
  <2> DEFINE full == s \in capped
             more == s \in capped'
  <2>2. Fits(u, r, full, more, now)
    <3>1. PICK x, c \in Nat : x = Score(s) + w * Unit /\ c = Ceiling * Unit
      BY <1>4, QueueAssumption, UnitIs DEF Weights
    <3>2. s \notin capped' => s \notin capped /\ ~(x > c)
      BY <1>2, <3>1
    <3> QED BY <1>1, <1>4, <3>1, <3>2 DEF Fits
  <2>3. Tracks(q, k, full, now)
    BY <1>4
  <2>4. /\ Tracks(Append(q, r), k, more, now)
        /\ Replayed(From(Append(q, r), k)) = Flagged(u, w, now)
    <3> HIDE DEF full, more
    <3>1. /\ q \in Seq(Row) /\ k \in 0 .. Len(q) /\ now \in 0 .. 12
          /\ r.at = now /\ r.weight = w /\ u = Replayed(From(q, k))
      BY <1>0, <1>1, <1>3, <1>4
    <3>2. Fits(Replayed(From(q, k)), r, full, more, now)
      BY <2>2, <3>1
    <3>3. /\ Tracks(Append(q, r), k, more, now)
          /\ Replayed(From(Append(q, r), k))
               = Flagged(Replayed(From(q, k)), r.weight, now)
      BY <2>3, <3>1, <3>2, TracksOn, Zenon
    <3> QED BY <3>1, <3>3
  <2>5. k =< LeftOut(Append(q, r))
    <3>1. LeftOut(q) =< LeftOut(Append(q, r))
      BY <1>4, LeftOutIs
    <3>2. LeftOut(q) \in Nat /\ LeftOut(Append(q, r)) \in Nat
      <4>1. Append(q, r) \in Seq(Row)
        BY <1>4
      <4>2. LeftOut(q) \in 0 .. Len(q)
        BY <1>4, LeftOutIs
      <4>3. LeftOut(Append(q, r)) \in 0 .. Len(Append(q, r))
        BY <4>1, LeftOutIs
      <4> QED BY <4>2, <4>3
    <3> QED BY <1>4, <3>1, <3>2
  <2>6. /\ board'[s].score = Flagged(u, w, now).score
        /\ board'[s].at = Flagged(u, w, now).at
    BY <1>4, <1>5, <1>6, FlaggedAlike
  <2> QED BY <1>2, <1>6, <2>4, <2>5, <2>6 DEF Follows
<1>10. ASSUME NEW t \in Sessions, t # s PROVE Follows(t)'
  <2>1. (t \in capped') = (t \in capped)
    BY <1>2, <1>10
  <2> QED BY <1>2, <1>6, <1>10, <2>1 DEF QueueInv, Follows
<1> QED BY <1>8, <1>9, <1>10 DEF QueueInv

LEMMA QueueStep == QueueInv /\ [Next]_vars => QueueInv'
<1> SUFFICES ASSUME QueueInv, [Next]_vars PROVE QueueInv'
  OBVIOUS
<1>1. CASE Pass
  BY <1>1, PassStep
<1>2. CASE Restart
  BY <1>2, RestartStep
<1>3. CASE \E s \in Sessions : Connection(s)
  BY <1>3, ConnectionStep
<1>4. CASE \E s \in Sessions : \E w \in Weights : Flag(s, w)
  BY <1>4, FlagStep
<1>5. CASE UNCHANGED vars
  BY <1>5 DEF vars, QueueInv, Typed, Follows
<1> QED BY <1>1, <1>2, <1>3, <1>4, <1>5 DEF Next

LEMMA QueueInvHolds == Spec => []QueueInv
BY QueueInit, QueueStep, PTL DEF Spec

---------------------------------------------------------------------------
(* Theorems                                                                *)

\* Every score stays within its ceiling, and no flag is later than the clock.
THEOREM TypeCorrect == Spec => []TypeOK
BY QueueInvHolds, InvImplies, PTL

\* add_violation and score() keep a recency-weighted count: what they show is
\* the sum of the flags among the rows the process read at its start and has
\* stored since, each halved from its own time, and below the ceiling it lacks
\* at most what the cutoff drops per row.
THEOREM ScoresAreCounts == Spec => []ScoreIsWeightedCount
BY QueueInvHolds, InvImplies, PTL

\* _restore replays the newest RESTORED_VIOLATIONS_PER_SESSION rows with their
\* own times: a session comes back with the score it had, or with a lower one if
\* a flag that carries weight has that many newer rows behind it.
THEOREM RestartsKeepScores == Spec => RestartKeepsScores
<1>1. ASSUME QueueInv, [Next]_vars
      PROVE  [restarts' # restarts =>
                \A s \in Sessions :
                  /\ Score(s)' =< Score(s)
                  /\ ~Forgotten(s) => Score(s)' = Score(s)]_vars
  <2>1. CASE Restart
    <3>1. ASSUME NEW s \in Sessions
          PROVE  /\ Score(s)' =< Score(s)
                 /\ ~Forgotten(s) => Score(s)' = Score(s)
      <4>1. PICK q, k, m : q = rows[s] /\ k = unread[s] /\ m = LeftOut(q)
        OBVIOUS
      <4>2. /\ q \in Seq(Row) /\ Len(q) \in Nat /\ k \in 0 .. Len(q) /\ k =< m
            /\ m \in 0 .. Len(q) /\ Tracks(q, k, s \in capped, now)
            /\ now \in 0 .. 12
        BY <1>1, <4>1, SessionFacts, LeftOutIs
      <4>3. k \in k .. Len(q) /\ m \in k .. Len(q) /\ DOMAIN q = 1 .. Len(q)
        BY <4>2
      <4>4. PICK t, u \in Triage :
              /\ t = Replayed(From(q, m)) /\ u = Replayed(From(q, k))
              /\ t.at =< now /\ u.at =< now
        BY <4>2, <4>3 DEF Tracks, Accounts
      <4>5. Falls(q, k, m)
        BY <4>2, <4>3 DEF Tracks
      <4>6. Below(t, u)
        BY <4>4, <4>5 DEF Falls
      <4>7. Score(s)' = Left(t, now)
        <5>1. board'[s] = Replayed(Newest(rows[s])) /\ now' = now
          BY <2>1 DEF Restart
        <5> QED BY <4>1, <4>4, <5>1 DEF Score, Newest
      <4>8. Score(s) = Left(u, now)
        BY <1>1, <4>1, <4>4, SessionFacts
      <4>9. Left(t, now) =< Left(u, now)
        BY <4>2, <4>4, <4>6, BelowLeft
      <4>10. ~Forgotten(s) => Weightless(q, k, m)
        <5>1. SUFFICES ASSUME ~Forgotten(s), NEW i \in 1 .. Len(q), k < i, i =< m
                       PROVE  q[i].weight = 0
          BY <4>3 DEF Weightless
        <5>2. i =< Len(q) - RestoredPerSession
          BY <4>1, <4>2, <5>1, LeftOutIs
        <5> QED BY <4>1, <4>3, <5>1, <5>2 DEF Forgotten
      <4>11. ~Forgotten(s) => t = u
        BY <4>4, <4>5, <4>10 DEF Falls
      <4> QED BY <4>7, <4>8, <4>9, <4>11
    <3> QED BY <3>1
  <2>2. CASE ~Restart
    BY <1>1, <2>2 DEF Next, Pass, Connection, Flag, vars
  <2> QED BY <2>1, <2>2
<1> QED BY <1>1, QueueInvHolds, PTL DEF Spec, RestartKeepsScores

\* renderQueue sorts the snapshot of ordered() again, by rounded scores: it
\* turns round only sessions that round to the same score, to show first the
\* one that is disconnected.
THEOREM PageFollows == Spec => []PageFollowsBoard
<1>1. ASSUME QueueInv PROVE PageFollowsBoard
  <2>1. SUFFICES ASSUME NEW s \in Sessions, NEW t \in Sessions,
                        BoardOrder(s, t), ~PageOrder(s, t)
                 PROVE  /\ Rounded(Score(s)) = Rounded(Score(t))
                        /\ board[s].connected /\ ~board[t].connected
    BY DEF PageFollowsBoard
  <2>2. PICK x, y \in Nat : x = Score(s) /\ y = Score(t)
    BY <1>1, SessionFacts
  <2>3. board[s].connected \in BOOLEAN /\ board[t].connected \in BOOLEAN
    BY <1>1, SessionFacts DEF Triage
  <2>4. x >= y
    BY <2>1, <2>2 DEF BoardOrder
  <2>5. /\ Rounded(x) = (x * 100 + 2048) \div 4096
        /\ Rounded(y) = (y * 100 + 2048) \div 4096
    BY UnitIs DEF Rounded
  <2>6. Rounded(x) >= Rounded(y) /\ Rounded(x) \in Int /\ Rounded(y) \in Int
    BY <2>4, <2>5
  <2>7. Rounded(x) = Rounded(y)
    BY <2>1, <2>2, <2>6 DEF PageOrder
  <2>8. ~(~board[s].connected /\ board[t].connected)
    BY <2>1, <2>2, <2>7 DEF PageOrder
  <2>9. board[s].connected # board[t].connected
    BY <2>1, <2>2, <2>7 DEF PageOrder
  <2> QED BY <2>2, <2>3, <2>7, <2>8, <2>9
<1> QED BY <1>1, QueueInvHolds, PTL

===========================================================================
