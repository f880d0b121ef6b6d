------------------------- MODULE FusionRule_proofs -----------------------
(***************************************************************************)
(* Proofs about one rule, for every onset, release and cooldown, every set *)
(* of counter values, and whether or not the counter goes forward; and     *)
(* about StretchedClock, for every tolerance: how long a counter that the  *)
(* integrity check passes can hold a flag back.                            *)
(***************************************************************************)
EXTENDS StretchedClock, SequenceTheorems, TLAPS

(***************************************************************************)
(* The inductive invariant.  FiringsSpaced needs the time of the latest    *)
(* firing to bound all earlier ones, which holds even when the counter     *)
(* goes back, because a firing only happens Cooldown after the last.       *)
(* ResolutionsPair needs the state to say what the last violation was.     *)
(***************************************************************************)
StateMatchesLast ==
  LET n == Len(raised) IN
  IF firing
  THEN /\ n > 0
       /\ candidate_since_ms # NotSet
       /\ active_violation_id # 0
       /\ ~raised[n].resolved
       /\ raised[n].id = active_violation_id
       /\ raised[n].opened_at_ms = candidate_since_ms
  ELSE /\ active_violation_id = 0
       /\ n > 0 => raised[n].resolved

LastFiredIsLatest ==
  \A v \in DOMAIN raised : ~raised[v].resolved =>
    /\ last_fired_ms # NotSet
    /\ raised[v].fired_at_ms =< last_fired_ms

IInv == /\ TypeOK
        /\ StateMatchesLast
        /\ LastFiredIsLatest
        /\ FiringsSpaced
        /\ ResolutionsPair

\* The assumptions on the constants, one by one.
LEMMA Constants ==
  /\ Onset \in Nat /\ Release \in Nat /\ Cooldown \in Nat /\ MaxSamples \in Nat
  /\ \A ms \in Clock : ms \in Nat
  BY FusionAssumption DEF FusionAssumption

\* The rule starts in the invariant.
LEMMA InitIInv == Init => IInv
<1> SUFFICES ASSUME Init PROVE IInv
  OBVIOUS
<1>1. raised = <<>> /\ DOMAIN raised = {} /\ Len(raised) = 0
  BY DEF Init
<1>2. TypeOK
  <2>1. firing \in BOOLEAN
    BY DEF Init
  <2>2. QED
    BY <2>1 DEF Init, TypeOK, NotSet
<1>3. StateMatchesLast
  BY <1>1 DEF Init, StateMatchesLast
<1>4. LastFiredIsLatest /\ FiringsSpaced /\ ResolutionsPair
  BY <1>1 DEF LastFiredIsLatest, FiringsSpaced, ResolutionsPair
<1>5. QED
  BY <1>2, <1>3, <1>4 DEF IInv

\* A sample that moves no timer and raises nothing preserves it.
LEMMA StutterIInv ==
  IInv /\ UNCHANGED <<rule, raised>> /\ samples' \in Seq(Sample) => IInv'
  BY DEF IInv, TypeOK, StateMatchesLast, LastFiredIsLatest, FiringsSpaced,
     ResolutionsPair, rule, CoolAt

\* A firing preserves it.
LEMMA FireIInv ==
  ASSUME IInv, NEW s \in Sample, samples' \in Seq(Sample),
         OnMatch(s.ms), MayFire(s.ms)
  PROVE  IInv'
<1> DEFINE v == [id |-> FreshId, resolved |-> FALSE,
                 opened_at_ms |-> CandidateAt(s.ms), fired_at_ms |-> s.ms]
<1>1. s.ms \in Nat /\ s.ms # NotSet
  BY Constants DEF Sample, NotSet
<1>2. CandidateAt(s.ms) \in Int /\ CandidateAt(s.ms) # NotSet
  BY <1>1 DEF CandidateAt, IInv, TypeOK, NotSet
<1>3. FreshId \in Nat /\ FreshId # 0
  BY DEF FreshId, IInv, TypeOK
<1>4. /\ candidate_since_ms' = CandidateAt(s.ms) /\ releasing_since_ms' = NotSet
      /\ firing' = TRUE /\ last_fired_ms' = s.ms
      /\ active_violation_id' = FreshId /\ raised' = Append(raised, v)
  BY DEF OnMatch
<1>5. v \in Violation
  BY <1>1, <1>2, <1>3 DEF Violation
<1>6. /\ raised \in Seq(Violation) /\ Len(raised') = Len(raised) + 1
      /\ raised' \in Seq(Violation)
      /\ raised'[Len(raised) + 1] = v
      /\ \A i \in DOMAIN raised : i \in DOMAIN raised' /\ raised'[i] = raised[i]
      /\ \A i \in DOMAIN raised' : i \in DOMAIN raised \/ i = Len(raised) + 1
  BY <1>4, <1>5 DEF IInv, TypeOK
<1>12. \A i \in DOMAIN raised : /\ i \in Nat /\ i =< Len(raised)
                                /\ raised[i].fired_at_ms \in Int
  <2>1. \A i \in DOMAIN raised : /\ i \in Nat /\ i =< Len(raised)
                                 /\ raised[i] \in Violation
    BY DEF IInv, TypeOK
  <2>2. QED
    BY <2>1 DEF Violation
<1>7. TypeOK'
  <2>1. firing' \in BOOLEAN
    BY <1>4
  <2>2. QED
    BY <2>1, <1>1, <1>2, <1>3, <1>4, <1>6 DEF TypeOK, IInv, NotSet
<1>8. StateMatchesLast'
  BY <1>2, <1>3, <1>4, <1>6 DEF StateMatchesLast
<1>13. \A i \in DOMAIN raised : ~raised[i].resolved =>
         /\ raised[i].fired_at_ms =< last_fired_ms
         /\ s.ms - last_fired_ms >= Cooldown
  BY DEF IInv, LastFiredIsLatest, MayFire, CoolAt
<1>14. last_fired_ms \in Int /\ Cooldown \in Nat
  BY Constants DEF IInv, TypeOK
<1>15. \A i \in DOMAIN raised : ~raised[i].resolved =>
         s.ms - raised[i].fired_at_ms >= Cooldown
  BY <1>1, <1>12, <1>13, <1>14
<1>9. LastFiredIsLatest'
  <2> SUFFICES ASSUME NEW i \in DOMAIN raised', ~raised'[i].resolved
               PROVE  raised'[i].fired_at_ms =< s.ms
    BY <1>1, <1>4 DEF LastFiredIsLatest
  <2>1. CASE i \in DOMAIN raised
    BY <2>1, <1>1, <1>6, <1>12, <1>14, <1>15
  <2>2. CASE i = Len(raised) + 1
    BY <2>2, <1>1, <1>6
  <2>3. QED
    BY <2>1, <2>2, <1>6
<1>10. FiringsSpaced'
  <2> SUFFICES ASSUME NEW i \in DOMAIN raised', NEW j \in DOMAIN raised',
                      i < j, ~raised'[i].resolved, ~raised'[j].resolved
               PROVE  raised'[j].fired_at_ms - raised'[i].fired_at_ms >= Cooldown
    BY DEF FiringsSpaced
  <2>1. i \in DOMAIN raised
    BY <1>6, <1>12 DEF IInv, TypeOK
  <2>2. CASE j \in DOMAIN raised
    BY <2>1, <2>2, <1>6 DEF IInv, FiringsSpaced
  <2>3. CASE j = Len(raised) + 1
    BY <2>1, <2>3, <1>6, <1>15
  <2>4. QED
    BY <2>2, <2>3, <1>6
<1>11. ResolutionsPair'
  BY <1>4, <1>6 DEF ResolutionsPair, StateMatchesLast, IInv, MayFire
<1>16. QED
  BY <1>7, <1>8, <1>9, <1>10, <1>11 DEF IInv

\* A sample that holds without firing preserves it.
LEMMA HoldIInv ==
  ASSUME IInv, NEW s \in Sample, samples' \in Seq(Sample),
         OnMatch(s.ms), ~MayFire(s.ms)
  PROVE  IInv'
<1>1. s.ms \in Nat /\ s.ms # NotSet
  BY Constants DEF Sample, NotSet
<1>2. /\ releasing_since_ms' = NotSet
      /\ candidate_since_ms' = CandidateAt(s.ms)
      /\ UNCHANGED <<firing, last_fired_ms, active_violation_id, raised>>
  BY DEF OnMatch
<1>3. firing => candidate_since_ms' = candidate_since_ms
  BY <1>2 DEF IInv, StateMatchesLast, CandidateAt
<1>4. TypeOK'
  BY <1>1, <1>2 DEF IInv, TypeOK, CandidateAt, NotSet
<1>5. QED
  BY <1>2, <1>3, <1>4 DEF IInv, StateMatchesLast, LastFiredIsLatest, FiringsSpaced,
     ResolutionsPair

\* The first sample that does not hold preserves it.
LEMMA StartReleaseIInv ==
  ASSUME IInv, NEW s \in Sample, samples' \in Seq(Sample), StartRelease(s.ms)
  PROVE  IInv'
<1>1. s.ms \in Int
  BY Constants DEF Sample
<1>2. QED
  BY <1>1 DEF StartRelease, IInv, TypeOK, StateMatchesLast, LastFiredIsLatest,
     FiringsSpaced, ResolutionsPair

\* The release of the rule preserves it.
LEMMA ReleaseIInv ==
  ASSUME IInv, NEW s \in Sample, samples' \in Seq(Sample), ReleaseRule(s.ms)
  PROVE  IInv'
<1> DEFINE v == [id |-> active_violation_id, resolved |-> TRUE,
                 opened_at_ms |-> candidate_since_ms,
                 fired_at_ms |-> releasing_since_ms]
<1>1. /\ candidate_since_ms' = NotSet /\ releasing_since_ms' = NotSet
      /\ firing' = FALSE /\ active_violation_id' = 0
      /\ UNCHANGED last_fired_ms
      /\ raised' = IF firing THEN Append(raised, v) ELSE raised
  BY DEF ReleaseRule
<1>5. firing' \in BOOLEAN
  BY <1>1
<1>2. CASE ~firing
  <2>1. UNCHANGED <<raised, last_fired_ms>>
    BY <1>1, <1>2
  <2>2. TypeOK'
    BY <1>5, <1>1, <2>1 DEF IInv, TypeOK, NotSet
  <2>3. StateMatchesLast'
    BY <1>1, <1>2, <2>1 DEF IInv, StateMatchesLast
  <2>4. QED
    BY <2>1, <2>2, <2>3 DEF IInv, LastFiredIsLatest, FiringsSpaced, ResolutionsPair
<1>3. CASE firing
  <2>1. v \in Violation
    BY DEF Violation, IInv, TypeOK
  <2>2. /\ raised \in Seq(Violation) /\ Len(raised') = Len(raised) + 1
        /\ raised' \in Seq(Violation)
        /\ raised'[Len(raised) + 1] = v
        /\ \A i \in DOMAIN raised : i \in DOMAIN raised' /\ raised'[i] = raised[i]
        /\ \A i \in DOMAIN raised' : i \in DOMAIN raised \/ i = Len(raised) + 1
    BY <1>1, <1>3, <2>1 DEF IInv, TypeOK
  <2>3. TypeOK'
    BY <1>5, <1>1, <2>2 DEF TypeOK, IInv, NotSet
  <2>4. StateMatchesLast'
    BY <1>1, <2>2 DEF StateMatchesLast
  <2>5. LastFiredIsLatest'
    BY <1>1, <2>2 DEF LastFiredIsLatest, IInv
  <2>6. FiringsSpaced'
    BY <1>1, <2>2 DEF FiringsSpaced, IInv
  <2> DEFINE n == Len(raised)
  <2>9. /\ n \in Nat /\ n > 0 /\ ~raised[n].resolved
        /\ raised[n].id = v.id /\ raised[n].opened_at_ms = v.opened_at_ms /\ v.resolved
    BY <1>3, <2>2 DEF StateMatchesLast, IInv, TypeOK
  <2> HIDE DEF v
  <2>7. ResolutionsPair'
    BY <2>2, <2>9 DEF ResolutionsPair, IInv
  <2>8. QED
    BY <2>3, <2>4, <2>5, <2>6, <2>7 DEF IInv
<1>4. QED
  BY <1>2, <1>3

\* Every step preserves the invariant.
LEMMA NextIInv == IInv /\ [Next]_vars => IInv'
<1> SUFFICES ASSUME IInv, [Next]_vars PROVE IInv'
  OBVIOUS
<1>1. CASE UNCHANGED vars
  <2>1. UNCHANGED <<rule, raised>> /\ samples' \in Seq(Sample)
    BY <1>1 DEF vars, rule, IInv, TypeOK
  <2>2. QED
    BY <2>1, StutterIInv
<1>2. ASSUME NEW s \in Sample, Observe(s) PROVE IInv'
  <2>1. samples' \in Seq(Sample)
    BY <1>2 DEF Observe, IInv, TypeOK
  <2>2. CASE NoInformation
    BY <2>1, <2>2, StutterIInv DEF NoInformation
  <2>3. CASE OnMatch(s.ms)
    BY <2>1, <2>3, FireIInv, HoldIInv
  <2>4. CASE NothingHeld
    BY <2>1, <2>4, StutterIInv DEF NothingHeld
  <2>5. CASE StartRelease(s.ms)
    BY <2>1, <2>5, StartReleaseIInv
  <2>6. CASE StillReleasing(s.ms)
    BY <2>1, <2>6, StutterIInv DEF StillReleasing
  <2>7. CASE ReleaseRule(s.ms)
    BY <2>1, <2>7, ReleaseIInv
  <2>8. QED
    BY <1>2, <2>2, <2>3, <2>4, <2>5, <2>6, <2>7 DEF Observe
<1>3. QED
  BY <1>1, <1>2 DEF Next

\* The invariant holds throughout.
THEOREM RuleInvariant == Spec => []IInv
  BY InitIInv, NextIInv, PTL DEF Spec

\* The fields of a rule and what it raises keep their types.
THEOREM TypeCorrect == Spec => []TypeOK
<1>1. IInv => TypeOK
  BY DEF IInv
<1>2. QED
  BY <1>1, RuleInvariant, PTL

\* Firings of a rule are at least its cooldown apart, whatever the client does
\* with its counter (_on_match's cooldown guard).
THEOREM CooldownHonoured == Spec => []FiringsSpaced
<1>1. IInv => FiringsSpaced
  BY DEF IInv
<1>2. QED
  BY <1>1, RuleInvariant, PTL

\* Every resolution closes the firing just before it (_on_no_match).
THEOREM ResolutionsCorrect == Spec => []ResolutionsPair
<1>1. IInv => ResolutionsPair
  BY DEF IInv
<1>2. QED
  BY <1>1, RuleInvariant, PTL

(***************************************************************************)
(* The timers and the history of samples.  The candidate timer dates from  *)
(* the start of the episode; for that to be inductive the release timer    *)
(* must be known to date from the first failing sample since the condition *)
(* last held.                                                              *)
(***************************************************************************)
FailsAt(k) == samples[k].verdict = Fails

\* The condition has been failing since sample a, and held before any other
\* failing one.
FailingSince(a) ==
  /\ FailsAt(a)
  /\ \A m \in a..Len(samples) : ~HoldsAt(m)
  /\ \A m \in 1..(a - 1) : FailsAt(m) => \E h \in m..a : HoldsAt(h)

ReleaseIsRunStart ==
  IF releasing_since_ms # NotSet
  THEN /\ candidate_since_ms # NotSet
       /\ \E a \in 1..Len(samples) :
            FailingSince(a) /\ samples[a].ms = releasing_since_ms
  ELSE candidate_since_ms # NotSet =>
         \A a \in 1..Len(samples) :
           FailsAt(a) => \E h \in a..Len(samples) : HoldsAt(h)

TimerInv ==
  CandidateIsEpisodeStart /\ ReleaseIsRunStart /\ FiredIsSustained /\ SustainedIsFired

\* What one more sample does to the history: it keeps what was there.
LEMMA OneMoreSample ==
  ASSUME samples \in Seq(Sample), NEW s \in Sample, samples' = Append(samples, s),
         NEW n \in Nat, n = Len(samples)
  PROVE  /\ samples' \in Seq(Sample) /\ Len(samples') = n + 1
         /\ DOMAIN samples = 1..n /\ DOMAIN samples' = 1..(n + 1)
         /\ \A k \in 1..n : samples'[k] = samples[k] /\ samples[k] \in Sample
         /\ samples'[n + 1] = s
OBVIOUS

\* A release that is over stays one.
LEMMA ReleasedStays ==
  ASSUME samples \in Seq(Sample), NEW s \in Sample, samples' = Append(samples, s),
         NEW n \in Nat, n = Len(samples),
         NEW i \in 1..n, NEW j \in 1..n, NEW k \in j..(n + 1)
  PROVE  /\ ReleasedBetween(i, j) => ReleasedBetween(i, k)'
         /\ ReleasedBetween(i, j)' => ReleasedBetween(i, j)
<1>1. \A m \in 1..n : samples'[m] = samples[m]
  BY OneMoreSample
<1>2. ASSUME ReleasedBetween(i, j) PROVE ReleasedBetween(i, k)'
  <2>1. PICK a \in i..j, b \in i..j :
          /\ a < b
          /\ samples[a].verdict = Fails /\ samples[b].verdict = Fails
          /\ \A m \in a..b : ~HoldsAt(m)
          /\ \A m \in i..a : samples[m].verdict = Fails /\ m < a
                              => \E h \in m..a : HoldsAt(h)
          /\ samples[b].ms - samples[a].ms >= Release
    BY <1>2 DEF ReleasedBetween
  <2>2. a \in 1..n /\ b \in 1..n /\ a \in i..k /\ b \in i..k
    OBVIOUS
  <2>3. \A m \in a..b : HoldsAt(m)' <=> HoldsAt(m)
    BY <1>1 DEF HoldsAt
  <2>4. \A m \in i..a : samples'[m] = samples[m] /\ m \in 1..n
    BY <1>1, <2>2
  <2>5. \A m \in i..a : \A h \in m..a : HoldsAt(h)' <=> HoldsAt(h)
    BY <1>1, <2>2 DEF HoldsAt
  <2> QED BY <1>1, <2>1, <2>2, <2>3, <2>4, <2>5 DEF ReleasedBetween
<1>3. ASSUME ReleasedBetween(i, j)' PROVE ReleasedBetween(i, j)
  <2>1. PICK a \in i..j, b \in i..j :
          /\ a < b
          /\ samples'[a].verdict = Fails /\ samples'[b].verdict = Fails
          /\ \A m \in a..b : ~HoldsAt(m)'
          /\ \A m \in i..a : samples'[m].verdict = Fails /\ m < a
                              => \E h \in m..a : HoldsAt(h)'
          /\ samples'[b].ms - samples'[a].ms >= Release
    BY <1>3 DEF ReleasedBetween
  <2>2. a \in 1..n /\ b \in 1..n
    OBVIOUS
  <2>3. \A m \in a..b : HoldsAt(m)' <=> HoldsAt(m)
    BY <1>1 DEF HoldsAt
  <2>4. \A m \in i..a : samples'[m] = samples[m] /\ m \in 1..n
    BY <1>1, <2>2
  <2>5. \A m \in i..a : \A h \in m..a : HoldsAt(h)' <=> HoldsAt(h)
    BY <1>1, <2>2 DEF HoldsAt
  <2> QED BY <1>1, <2>1, <2>2, <2>3, <2>4, <2>5 DEF ReleasedBetween
<1> QED BY <1>2, <1>3

\* A sample releases what was not released before only by failing long enough
\* after a failing sample since which nothing held.
LEMMA ReleasedNow ==
  ASSUME samples \in Seq(Sample), NEW s \in Sample, samples' = Append(samples, s),
         NEW n \in Nat, n = Len(samples),
         NEW i \in 1..n, ReleasedBetween(i, n + 1)', ~ReleasedBetween(i, n)
  PROVE  /\ s.verdict = Fails
         /\ \E a \in i..n : /\ FailsAt(a)
                            /\ \A m \in a..n : ~HoldsAt(m)
                            /\ \A m \in i..(a - 1) :
                                 FailsAt(m) => \E h \in m..a : HoldsAt(h)
                            /\ s.ms - samples[a].ms >= Release
<1>1. (\A m \in 1..n : samples'[m] = samples[m]) /\ samples'[n + 1] = s
  BY OneMoreSample
<1>2. PICK a \in i..(n + 1), b \in i..(n + 1) :
        /\ a < b
        /\ samples'[a].verdict = Fails /\ samples'[b].verdict = Fails
        /\ \A m \in a..b : ~HoldsAt(m)'
        /\ \A m \in i..a : samples'[m].verdict = Fails /\ m < a
                            => \E h \in m..a : HoldsAt(h)'
        /\ samples'[b].ms - samples'[a].ms >= Release
  BY DEF ReleasedBetween
<1>3. a \in 1..n /\ a \in i..n
  BY <1>2
<1>4. \A m \in i..a : samples'[m] = samples[m] /\ m \in 1..n
  BY <1>1, <1>3
<1>5. \A m \in i..a : \A h \in m..a : HoldsAt(h)' <=> HoldsAt(h)
  BY <1>1, <1>3 DEF HoldsAt
<1>6. CASE b \in i..n
  <2>1. ReleasedBetween(i, n)'
    BY <1>2, <1>3, <1>6 DEF ReleasedBetween
  <2> QED BY <2>1, ReleasedStays
<1>7. CASE b = n + 1
  <2>1. \A m \in a..n : ~HoldsAt(m)
    BY <1>1, <1>2, <1>3, <1>7 DEF HoldsAt
  <2>2. \A m \in i..(a - 1) : FailsAt(m) => \E h \in m..a : HoldsAt(h)
    BY <1>2, <1>3, <1>4, <1>5 DEF FailsAt
  <2>3. FailsAt(a) /\ s.verdict = Fails /\ s.ms - samples[a].ms >= Release
    BY <1>1, <1>2, <1>3, <1>7 DEF FailsAt
  <2> QED BY <1>3, <2>1, <2>2, <2>3
<1> QED BY <1>6, <1>7

\* The episodes after a sample: it starts one if it holds, and ends those there
\* were if the release timer has run out on it.
LEMMA EpisodesNext ==
  ASSUME samples \in Seq(Sample), NEW s \in Sample, samples' = Append(samples, s),
         CandidateIsEpisodeStart, ReleaseIsRunStart, releasing_since_ms \in Int
  PROVE  EpisodeStarts' =
           IF s.verdict = Holds THEN EpisodeStarts \cup {Len(samples) + 1}
           ELSE IF /\ s.verdict = Fails
                   /\ releasing_since_ms # NotSet
                   /\ s.ms - releasing_since_ms >= Release
           THEN {} ELSE EpisodeStarts
<1>1. PICK n \in Nat : n = Len(samples)
  OBVIOUS
<1>2. /\ samples' \in Seq(Sample) /\ Len(samples') = n + 1
      /\ DOMAIN samples = 1..n /\ DOMAIN samples' = 1..(n + 1)
      /\ \A k \in 1..n : samples'[k] = samples[k] /\ samples[k] \in Sample
      /\ samples'[n + 1] = s
  BY <1>1, OneMoreSample
<1>3. /\ \A k \in 1..n : HoldsAt(k)' <=> HoldsAt(k)
      /\ HoldsAt(n + 1)' <=> s.verdict = Holds
  BY <1>2 DEF HoldsAt
<1>4. \A i : i \in EpisodeStarts <=> i \in 1..n /\ HoldsAt(i) /\ ~ReleasedBetween(i, n)
  BY <1>1, <1>2 DEF EpisodeStarts
<1>5. \A i : i \in EpisodeStarts' <=>
              i \in 1..(n + 1) /\ HoldsAt(i)' /\ ~ReleasedBetween(i, n + 1)'
  BY <1>2 DEF EpisodeStarts
<1>6. ~ReleasedBetween(n + 1, n + 1)'
  BY DEF ReleasedBetween
<1>7. \A i \in 1..n : ReleasedBetween(i, n) => ReleasedBetween(i, n + 1)'
  <2> SUFFICES ASSUME NEW i \in 1..n PROVE ReleasedBetween(i, n) => ReleasedBetween(i, n + 1)'
    OBVIOUS
  <2>1. n \in 1..n /\ n + 1 \in n..(n + 1)
    OBVIOUS
  <2> QED BY <2>1, <1>1, ReleasedStays
<1>8. ASSUME NEW i \in EpisodeStarts, i \notin EpisodeStarts'
      PROVE  /\ s.verdict = Fails
             /\ releasing_since_ms # NotSet
             /\ s.ms - releasing_since_ms >= Release
  <2>1. i \in 1..n /\ HoldsAt(i) /\ ~ReleasedBetween(i, n) /\ ReleasedBetween(i, n + 1)'
    BY <1>3, <1>4, <1>5, <1>8
  <2>2. PICK a \in i..n : /\ FailsAt(a)
                          /\ \A m \in a..n : ~HoldsAt(m)
                          /\ \A m \in i..(a - 1) :
                               FailsAt(m) => \E h \in m..a : HoldsAt(h)
                          /\ s.ms - samples[a].ms >= Release
    BY <2>1, <1>1, ReleasedNow
  <2>3. s.verdict = Fails
    BY <2>1, <1>1, ReleasedNow
  <2>4. candidate_since_ms # NotSet
    <3>1. PICK j \in EpisodeStarts : candidate_since_ms = samples[j].ms
      BY DEF CandidateIsEpisodeStart
    <3>2. samples[j].ms \in Nat
      BY <3>1, <1>2, <1>4, Constants DEF Sample
    <3> QED BY <3>1, <3>2 DEF NotSet
  <2>5. releasing_since_ms # NotSet
    <3> SUFFICES ASSUME releasing_since_ms = NotSet PROVE FALSE
      OBVIOUS
    <3>1. a \in 1..n
      BY <2>1
    <3>2. \A k \in 1..n : FailsAt(k) => \E h \in k..n : HoldsAt(h)
      BY <2>4, <1>1 DEF ReleaseIsRunStart
    <3>3. PICK h \in a..n : HoldsAt(h)
      BY <2>2, <3>1, <3>2
    <3> QED BY <3>3, <2>2
  <2>6. PICK r \in 1..n : FailingSince(r) /\ samples[r].ms = releasing_since_ms
    BY <2>5, <1>1 DEF ReleaseIsRunStart
  <2>7. FailsAt(r) /\ (\A m \in r..n : ~HoldsAt(m))
        /\ \A m \in 1..(r - 1) : FailsAt(m) => \E h \in m..r : HoldsAt(h)
    BY <2>6, <1>1 DEF FailingSince
  <2>8. i < r
    BY <2>1, <2>7
  <2>9. ~(a < r)
    <3> SUFFICES ASSUME a < r PROVE FALSE
      OBVIOUS
    <3>1. a \in 1..(r - 1) /\ r =< n
      BY <2>1
    <3>2. PICK h \in a..r : HoldsAt(h)
      BY <2>2, <2>7, <3>1
    <3> QED BY <3>1, <3>2, <2>2
  <2>10. ~(r < a)
    <3> SUFFICES ASSUME r < a PROVE FALSE
      OBVIOUS
    <3>1. r \in i..(a - 1) /\ a \in 1..n
      BY <2>1, <2>8
    <3>2. PICK h \in r..a : HoldsAt(h)
      BY <2>2, <2>7, <3>1
    <3> QED BY <3>1, <3>2, <2>7
  <2>11. a = r
    BY <2>9, <2>10
  <2> QED BY <2>2, <2>3, <2>5, <2>6, <2>11
<1>9. ASSUME s.verdict = Fails, releasing_since_ms # NotSet,
             s.ms - releasing_since_ms >= Release,
             NEW i \in 1..n, HoldsAt(i)
      PROVE  ReleasedBetween(i, n + 1)'
  <2>1. PICK r \in 1..n : FailingSince(r) /\ samples[r].ms = releasing_since_ms
    BY <1>1, <1>9 DEF ReleaseIsRunStart
  <2>2. FailsAt(r) /\ (\A m \in r..n : ~HoldsAt(m))
        /\ \A m \in 1..(r - 1) : FailsAt(m) => \E h \in m..r : HoldsAt(h)
    BY <2>1, <1>1 DEF FailingSince
  <2>3. i < r
    BY <1>9, <2>2
  <2>4. r \in i..(n + 1) /\ n + 1 \in i..(n + 1) /\ r < n + 1
    BY <2>3
  <2>5. samples'[r].verdict = Fails /\ samples'[n + 1].verdict = Fails
        /\ samples'[n + 1].ms - samples'[r].ms >= Release
    BY <2>1, <2>2, <1>2, <1>9 DEF FailsAt
  <2>6. \A m \in r..(n + 1) : ~HoldsAt(m)'
    BY <2>2, <1>3, <1>9 DEF Holds, Fails
  <2>7. ASSUME NEW m \in i..r, samples'[m].verdict = Fails, m < r
        PROVE  \E h \in m..r : HoldsAt(h)'
    <3>1. m \in 1..(r - 1) /\ FailsAt(m)
      BY <2>7, <1>2 DEF FailsAt
    <3>2. PICK h \in m..r : HoldsAt(h)
      BY <3>1, <2>2
    <3>3. HoldsAt(h)'
      BY <3>1, <3>2, <1>3
    <3> QED BY <3>3
  <2> QED BY <2>4, <2>5, <2>6, <2>7 DEF ReleasedBetween
<1>10. CASE s.verdict = Holds
  <2>1. s.verdict # Fails
    BY <1>10 DEF Holds, Fails
  <2>2. \A i : i \in EpisodeStarts' <=> i \in EpisodeStarts \/ i = n + 1
    BY <2>1, <1>3, <1>4, <1>5, <1>6, <1>7, <1>8, <1>10
  <2> QED BY <2>2, <1>1, <1>10
<1>11. CASE /\ s.verdict = Fails
            /\ releasing_since_ms # NotSet
            /\ s.ms - releasing_since_ms >= Release
  <2>1. ~HoldsAt(n + 1)'
    BY <1>3, <1>11 DEF Holds, Fails
  <2>2. \A i : i \notin EpisodeStarts'
    BY <2>1, <1>3, <1>5, <1>9, <1>11
  <2> QED BY <2>2, <1>11 DEF Holds, Fails
<1>12. CASE s.verdict # Holds /\ ~(/\ s.verdict = Fails
                                  /\ releasing_since_ms # NotSet
                                  /\ s.ms - releasing_since_ms >= Release)
  <2>1. \A i : i \in EpisodeStarts' <=> i \in EpisodeStarts
    BY <1>3, <1>4, <1>5, <1>7, <1>8, <1>12
  <2> QED BY <2>1, <1>12
<1> QED BY <1>10, <1>11, <1>12

\* The release timer dates from the start of the run of samples that fail.
LEMMA RunStartNext ==
  ASSUME IInv, ReleaseIsRunStart, NEW s \in Sample, Observe(s)
  PROVE  ReleaseIsRunStart'
<1>1. PICK n \in Nat : n = Len(samples)
  BY DEF IInv, TypeOK
<1>2. /\ samples \in Seq(Sample) /\ samples' = Append(samples, s)
      /\ candidate_since_ms \in Int /\ releasing_since_ms \in Int
      /\ s.ms \in Nat /\ s.ms # NotSet
  BY Constants DEF IInv, TypeOK, Observe, Sample, NotSet
<1>3. /\ Len(samples') = n + 1
      /\ \A k \in 1..n : samples'[k] = samples[k]
      /\ samples'[n + 1] = s
  BY <1>1, <1>2, OneMoreSample
<1>4. /\ \A k \in 1..n : (HoldsAt(k)' <=> HoldsAt(k)) /\ (FailsAt(k)' <=> FailsAt(k))
      /\ HoldsAt(n + 1)' <=> s.verdict = Holds
      /\ FailsAt(n + 1)' <=> s.verdict = Fails
  BY <1>3 DEF HoldsAt, FailsAt
<1>5. CASE s.verdict = Holds /\ OnMatch(s.ms)
  <2>1. releasing_since_ms' = NotSet
    BY <1>5 DEF OnMatch
  <2>2. ASSUME NEW a \in 1..(n + 1), FailsAt(a)' PROVE \E h \in a..(n + 1) : HoldsAt(h)'
    BY <1>4, <1>5
  <2> QED BY <2>1, <2>2, <1>3 DEF ReleaseIsRunStart
<1>6. ASSUME s.verdict # Holds, UNCHANGED <<candidate_since_ms, releasing_since_ms>>,
             s.verdict = Fails => candidate_since_ms = NotSet \/ releasing_since_ms # NotSet
      PROVE  ReleaseIsRunStart'
  <2>1. CASE releasing_since_ms # NotSet
    <3>1. PICK r \in 1..n : FailingSince(r) /\ samples[r].ms = releasing_since_ms
      BY <2>1, <1>1 DEF ReleaseIsRunStart
    <3>2. FailsAt(r) /\ (\A m \in r..n : ~HoldsAt(m))
          /\ \A m \in 1..(r - 1) : FailsAt(m) => \E h \in m..r : HoldsAt(h)
      BY <3>1, <1>1 DEF FailingSince
    <3>3. FailsAt(r)' /\ \A m \in r..(n + 1) : ~HoldsAt(m)'
      BY <3>2, <1>4, <1>6
    <3>4. ASSUME NEW m \in 1..(r - 1), FailsAt(m)' PROVE \E h \in m..r : HoldsAt(h)'
      <4>1. PICK h \in m..r : HoldsAt(h)
        BY <3>2, <3>4, <1>4
      <4> QED BY <4>1, <1>4
    <3>5. FailingSince(r)'
      BY <3>3, <3>4, <1>3 DEF FailingSince
    <3>6. r \in 1..(n + 1) /\ samples'[r].ms = releasing_since_ms
      BY <3>1, <1>3
    <3> QED BY <3>5, <3>6, <2>1, <1>3, <1>6 DEF ReleaseIsRunStart
  <2>2. CASE releasing_since_ms = NotSet /\ candidate_since_ms = NotSet
    BY <2>2, <1>6 DEF ReleaseIsRunStart
  <2>3. CASE releasing_since_ms = NotSet /\ candidate_since_ms # NotSet
    <3>1. ASSUME NEW a \in 1..(n + 1), FailsAt(a)' PROVE \E h \in a..(n + 1) : HoldsAt(h)'
      <4>1. a \in 1..n /\ FailsAt(a)
        BY <3>1, <2>3, <1>4, <1>6
      <4>2. PICK h \in a..n : HoldsAt(h)
        BY <4>1, <2>3, <1>1 DEF ReleaseIsRunStart
      <4> QED BY <4>1, <4>2, <1>4
    <3> QED BY <3>1, <2>3, <1>3, <1>6 DEF ReleaseIsRunStart
  <2> QED BY <2>1, <2>2, <2>3
<1>7. CASE s.verdict = Fails /\ StartRelease(s.ms)
  <2>1. /\ candidate_since_ms' = candidate_since_ms /\ candidate_since_ms # NotSet
        /\ releasing_since_ms = NotSet /\ releasing_since_ms' = s.ms
    BY <1>7 DEF StartRelease
  <2>2. ASSUME NEW m \in 1..n, FailsAt(m)' PROVE \E h \in m..(n + 1) : HoldsAt(h)'
    <3>1. PICK h \in m..n : HoldsAt(h)
      BY <2>1, <2>2, <1>1, <1>4 DEF ReleaseIsRunStart
    <3> QED BY <3>1, <1>4
  <2>3. FailsAt(n + 1)' /\ ~HoldsAt(n + 1)'
    BY <1>4, <1>7 DEF Holds, Fails
  <2>4. FailingSince(n + 1)'
    <3>1. \A m \in (n + 1)..(n + 1) : ~HoldsAt(m)'
      BY <2>3
    <3>2. \A m \in 1..((n + 1) - 1) : FailsAt(m)' => \E h \in m..(n + 1) : HoldsAt(h)'
      BY <2>2
    <3> QED BY <2>3, <3>1, <3>2, <1>3 DEF FailingSince
  <2> QED BY <2>1, <2>4, <1>2, <1>3 DEF ReleaseIsRunStart
<1>8. CASE s.verdict = Fails /\ ReleaseRule(s.ms)
  BY <1>8 DEF ReleaseRule, ReleaseIsRunStart
<1> QED BY <1>5, <1>6, <1>7, <1>8 DEF Observe, NoInformation, NothingHeld, StillReleasing,
  rule, Holds, Fails, Unsure

\* The candidate timer dates from the start of the episode.
LEMMA CandidateNext ==
  ASSUME IInv, CandidateIsEpisodeStart, ReleaseIsRunStart, NEW s \in Sample, Observe(s)
  PROVE  CandidateIsEpisodeStart'
<1>1. PICK n \in Nat : n = Len(samples)
  BY DEF IInv, TypeOK
<1>2. /\ samples \in Seq(Sample) /\ samples' = Append(samples, s)
      /\ candidate_since_ms \in Int /\ releasing_since_ms \in Int
      /\ s.ms \in Nat /\ s.ms # NotSet
  BY Constants DEF IInv, TypeOK, Observe, Sample, NotSet
<1>3. /\ \A k \in 1..n : samples'[k] = samples[k] /\ samples[k] \in Sample
      /\ samples'[n + 1] = s
  BY <1>1, <1>2, OneMoreSample
<1>4. EpisodeStarts \subseteq 1..n
  BY <1>1, <1>2 DEF EpisodeStarts
<1>5. ASSUME s.verdict # Holds,
             IF /\ s.verdict = Fails
                /\ releasing_since_ms # NotSet
                /\ s.ms - releasing_since_ms >= Release
             THEN candidate_since_ms' = NotSet
             ELSE candidate_since_ms' = candidate_since_ms
      PROVE  CandidateIsEpisodeStart'
  <2>1. CASE EpisodeStarts' = {}
    <3>1. candidate_since_ms' = NotSet
      BY <2>1, <1>2, <1>5, EpisodesNext DEF CandidateIsEpisodeStart
    <3> QED BY <3>1, <2>1 DEF CandidateIsEpisodeStart
  <2>2. CASE EpisodeStarts' # {}
    <3>1. EpisodeStarts' = EpisodeStarts /\ candidate_since_ms' = candidate_since_ms
      BY <2>2, <1>2, <1>5, EpisodesNext
    <3>2. PICK i \in EpisodeStarts : /\ \A j \in EpisodeStarts : i =< j
                                     /\ candidate_since_ms = samples[i].ms
      BY <2>2, <3>1 DEF CandidateIsEpisodeStart
    <3>3. samples'[i] = samples[i]
      BY <1>3, <1>4
    <3> QED BY <3>1, <3>2, <3>3, <2>2 DEF CandidateIsEpisodeStart
  <2> QED BY <2>1, <2>2
<1>6. CASE s.verdict = Holds /\ OnMatch(s.ms)
  <2>1. EpisodeStarts' = EpisodeStarts \cup {n + 1}
    BY <1>1, <1>2, <1>6, EpisodesNext
  <2>2. candidate_since_ms' = CandidateAt(s.ms)
    BY <1>6 DEF OnMatch
  <2>3. CASE EpisodeStarts = {}
    <3>1. candidate_since_ms' = s.ms
      BY <2>2, <2>3 DEF CandidateIsEpisodeStart, CandidateAt
    <3>2. \A j \in EpisodeStarts' : n + 1 =< j
      BY <2>1, <2>3
    <3> QED BY <2>1, <3>1, <3>2, <1>3 DEF CandidateIsEpisodeStart
  <2>4. CASE EpisodeStarts # {}
    <3>1. PICK i \in EpisodeStarts : /\ \A j \in EpisodeStarts : i =< j
                                     /\ candidate_since_ms = samples[i].ms
      BY <2>4 DEF CandidateIsEpisodeStart
    <3>2. samples[i].ms \in Nat /\ i \in 1..n /\ samples'[i] = samples[i]
      BY <1>3, <1>4, Constants DEF Sample
    <3>3. candidate_since_ms' = samples'[i].ms
      BY <2>2, <3>1, <3>2 DEF CandidateAt, NotSet
    <3>4. \A j \in EpisodeStarts' : i =< j
      BY <2>1, <3>1, <3>2
    <3> QED BY <2>1, <3>3, <3>4 DEF CandidateIsEpisodeStart
  <2> QED BY <2>3, <2>4
<1>7. CASE s.verdict = Unsure /\ NoInformation
  BY <1>5, <1>7 DEF NoInformation, rule, Unsure, Holds, Fails
<1>8. CASE s.verdict = Fails /\ NothingHeld
  BY <1>5, <1>8 DEF NothingHeld, rule, Holds, Fails
<1>9. CASE s.verdict = Fails /\ StartRelease(s.ms)
  BY <1>5, <1>9 DEF StartRelease, Holds, Fails
<1>10. CASE s.verdict = Fails /\ StillReleasing(s.ms)
  <2>1. ~(s.ms - releasing_since_ms >= Release)
    BY <1>2, <1>10, Constants DEF StillReleasing
  <2> QED BY <2>1, <1>5, <1>10 DEF StillReleasing, rule, Holds, Fails
<1>11. CASE s.verdict = Fails /\ ReleaseRule(s.ms)
  BY <1>5, <1>11 DEF ReleaseRule, Holds, Fails
<1> QED BY <1>6, <1>7, <1>8, <1>9, <1>10, <1>11 DEF Observe

\* What a firing v needs in the history: samples i and j it dates from.
Sustains(v, i, j) ==
  /\ i =< j
  /\ HoldsAt(i) /\ HoldsAt(j)
  /\ samples[i].ms = v.opened_at_ms
  /\ samples[j].ms = v.fired_at_ms
  /\ v.fired_at_ms - v.opened_at_ms >= Onset
  /\ ~ReleasedBetween(i, j)

\* FiredIsSustained in those terms.
LEMMA SustainedFirings ==
  FiredIsSustained <=>
    \A k \in DOMAIN raised : ~raised[k].resolved =>
      \E i, j \in DOMAIN samples : Sustains(raised[k], i, j)
BY DEF FiredIsSustained, Sustains

\* What sustained a firing still does after one more sample.
LEMMA StaysSustained ==
  ASSUME samples \in Seq(Sample), NEW s \in Sample, samples' = Append(samples, s),
         NEW v, NEW i \in DOMAIN samples, NEW j \in DOMAIN samples, Sustains(v, i, j)
  PROVE  Sustains(v, i, j)'
<1>1. PICK n \in Nat : n = Len(samples)
  OBVIOUS
<1>2. i \in 1..n /\ j \in 1..n /\ i =< j /\ j \in i..n
  BY <1>1 DEF Sustains
<1>3. samples'[i] = samples[i] /\ samples'[j] = samples[j]
  BY <1>1, <1>2, OneMoreSample
<1>4. ~ReleasedBetween(i, j)'
  BY <1>1, <1>2, ReleasedStays DEF Sustains
<1> QED BY <1>2, <1>3, <1>4 DEF Sustains, HoldsAt

\* What fires has lasted: the candidate timer it is dated by dates from a
\* sample since which the condition was not released.
LEMMA FiredNext ==
  ASSUME IInv, FiredIsSustained, NEW s \in Sample, Observe(s), CandidateIsEpisodeStart'
  PROVE  FiredIsSustained'
<1>1. PICK n \in Nat : n = Len(samples)
  BY DEF IInv, TypeOK
<1>2. PICK z \in Nat : z = Len(raised)
  BY DEF IInv, TypeOK
<1>3. /\ samples \in Seq(Sample) /\ samples' = Append(samples, s)
      /\ raised \in Seq(Violation) /\ DOMAIN raised = 1..z
      /\ candidate_since_ms \in Int /\ s.ms \in Nat
  BY <1>2, Constants DEF IInv, TypeOK, Observe, Sample
<1>4. /\ \A k \in 1..n : samples'[k] = samples[k] /\ samples[k] \in Sample
      /\ samples'[n + 1] = s /\ Len(samples') = n + 1
      /\ DOMAIN samples = 1..n /\ DOMAIN samples' = 1..(n + 1)
  BY <1>1, <1>3, OneMoreSample
<1>5. ASSUME NEW k \in DOMAIN raised, ~raised[k].resolved, NEW v, v = raised[k]
      PROVE  \E i, j \in DOMAIN samples' : Sustains(v, i, j)'
  <2>1. PICK i \in DOMAIN samples, j \in DOMAIN samples : Sustains(v, i, j)
    BY <1>5, SustainedFirings
  <2>2. Sustains(v, i, j)'
    BY <1>3, <2>1, StaysSustained
  <2>3. i \in DOMAIN samples' /\ j \in DOMAIN samples'
    BY <1>4
  <2> QED BY <2>2, <2>3
<1>6. ASSUME raised' = raised PROVE FiredIsSustained'
  <2>1. ASSUME NEW k \in DOMAIN raised', ~raised'[k].resolved
        PROVE  \E i, j \in DOMAIN samples' : Sustains(raised[k], i, j)'
    <3>1. PICK v : v = raised[k]
      OBVIOUS
    <3>2. raised'[k] = v /\ k \in DOMAIN raised
      BY <1>6, <2>1, <3>1
    <3>3. \E i, j \in DOMAIN samples' : Sustains(v, i, j)'
      BY <1>5, <2>1, <3>1, <3>2
    <3> QED BY <3>2, <3>3 DEF Sustains
  <2> QED BY <2>1 DEF FiredIsSustained, Sustains
<1>7. ASSUME NEW w, raised' = Append(raised, w),
             w.resolved \/ \E i, j \in DOMAIN samples' : Sustains(w, i, j)'
      PROVE  FiredIsSustained'
  <2>1. ASSUME NEW k \in DOMAIN raised', ~raised'[k].resolved
        PROVE  \E i, j \in DOMAIN samples' : Sustains(raised[k], i, j)'
    <3>1. k \in 1..(z + 1) /\ (k \in 1..z => raised'[k] = raised[k]) /\ raised'[z + 1] = w
      BY <1>2, <1>3, <1>7, <2>1
    <3>2. PICK v : v = raised'[k]
      OBVIOUS
    <3>3. \E i, j \in DOMAIN samples' : Sustains(v, i, j)'
      <4>1. CASE k \in 1..z
        BY <1>3, <1>5, <2>1, <3>1, <3>2, <4>1
      <4>2. CASE k = z + 1
        BY <1>7, <2>1, <3>1, <3>2, <4>2
      <4> QED BY <3>1, <4>1, <4>2
    <3> QED BY <3>2, <3>3 DEF Sustains
  <2> QED BY <2>1 DEF FiredIsSustained, Sustains
<1>8. CASE s.verdict = Holds /\ OnMatch(s.ms) /\ MayFire(s.ms)
  <2>1. PICK w : w = [id |-> FreshId, resolved |-> FALSE,
                      opened_at_ms |-> CandidateAt(s.ms), fired_at_ms |-> s.ms]
    OBVIOUS
  <2>2. raised' = Append(raised, w)
    BY <1>8, <2>1 DEF OnMatch
  <2>3. n + 1 \in EpisodeStarts'
    <3>1. ~ReleasedBetween(n + 1, n + 1)'
      BY DEF ReleasedBetween
    <3>2. HoldsAt(n + 1)'
      BY <1>4, <1>8 DEF HoldsAt
    <3> QED BY <1>4, <3>1, <3>2 DEF EpisodeStarts
  <2>4. PICK i \in EpisodeStarts' : candidate_since_ms' = samples'[i].ms
    BY <2>3 DEF CandidateIsEpisodeStart
  <2>5. i \in 1..(n + 1) /\ HoldsAt(i)' /\ ~ReleasedBetween(i, n + 1)'
    BY <2>4, <1>4 DEF EpisodeStarts
  <2>6. w.opened_at_ms = samples'[i].ms /\ w.fired_at_ms = s.ms
        /\ w.fired_at_ms - w.opened_at_ms >= Onset
    BY <1>8, <2>1, <2>4 DEF OnMatch, MayFire
  <2>7. Sustains(w, i, n + 1)'
    BY <1>4, <1>8, <2>5, <2>6 DEF Sustains, HoldsAt
  <2>8. \E h, j \in DOMAIN samples' : Sustains(w, h, j)'
    <3>1. i \in DOMAIN samples' /\ n + 1 \in DOMAIN samples'
      BY <2>5, <1>4
    <3> QED BY <2>7, <3>1
  <2> QED BY <2>2, <2>8, <1>7
<1>9. CASE ReleaseRule(s.ms)
  <2>1. CASE firing
    <3>1. PICK w : w = [id |-> active_violation_id, resolved |-> TRUE,
                        opened_at_ms |-> candidate_since_ms,
                        fired_at_ms |-> releasing_since_ms]
      OBVIOUS
    <3>2. raised' = Append(raised, w) /\ w.resolved
      BY <1>9, <2>1, <3>1 DEF ReleaseRule
    <3> QED BY <3>2, <1>7
  <2>2. CASE ~firing
    BY <1>6, <1>9, <2>2 DEF ReleaseRule
  <2> QED BY <2>1, <2>2
<1> QED BY <1>6, <1>8, <1>9 DEF Observe, NoInformation, OnMatch, NothingHeld,
  StartRelease, StillReleasing

\* A condition that has held for the onset fires on the sample that shows it.
LEMMA SustainedNext ==
  ASSUME IInv, NEW s \in Sample, Observe(s)
  PROVE  SustainedIsFired'
<1>1. PICK n \in Nat : n = Len(samples)
  BY DEF IInv, TypeOK
<1>2. /\ samples \in Seq(Sample) /\ samples' = Append(samples, s)
      /\ s.ms \in Nat /\ Cooldown \in Nat
  BY Constants DEF IInv, TypeOK, Observe, Sample
<1>3. Len(samples') = n + 1 /\ samples'[n + 1] = s
  BY <1>1, <1>2, OneMoreSample
<1>4. CASE s.verdict # Holds
  BY <1>3, <1>4 DEF SustainedIsFired, HoldsAt
<1>5. CASE s.verdict = Holds /\ OnMatch(s.ms)
  <2>1. SUFFICES ASSUME s.ms - candidate_since_ms' >= Onset, ~firing'
                 PROVE  ~CoolAt(s.ms)'
    BY <1>3 DEF SustainedIsFired, CoolAt
  <2>2. ~MayFire(s.ms) /\ ~firing /\ last_fired_ms' = last_fired_ms
        /\ s.ms - CandidateAt(s.ms) >= Onset
    BY <1>5, <2>1 DEF OnMatch
  <2>3. ~CoolAt(s.ms)
    BY <2>2 DEF MayFire
  <2> QED BY <2>2, <2>3 DEF CoolAt
<1> QED BY <1>4, <1>5 DEF Observe, Holds, Fails, Unsure

\* The timer invariants hold at the start and are kept by every sample.
LEMMA TimerKept ==
  (Init => TimerInv) /\ (IInv /\ TimerInv /\ [Next]_vars => TimerInv')
<1>1. ASSUME Init PROVE TimerInv
  <2>1. samples = <<>> /\ DOMAIN samples = {} /\ Len(samples) = 0
        /\ raised = <<>> /\ DOMAIN raised = {}
    BY <1>1 DEF Init
  <2>2. CandidateIsEpisodeStart
    BY <1>1, <2>1 DEF Init, CandidateIsEpisodeStart, EpisodeStarts
  <2>3. ReleaseIsRunStart
    BY <1>1 DEF Init, ReleaseIsRunStart
  <2>4. FiredIsSustained /\ SustainedIsFired
    BY <2>1 DEF FiredIsSustained, SustainedIsFired
  <2> QED BY <2>2, <2>3, <2>4 DEF TimerInv
<1>2. ASSUME IInv, TimerInv, [Next]_vars PROVE TimerInv'
  <2>1. CASE UNCHANGED vars
    <3>1. CandidateIsEpisodeStart'
      <4>1. UNCHANGED <<samples, candidate_since_ms>>
        BY <2>1 DEF vars, rule
      <4>2. EpisodeStarts' = EpisodeStarts
        <5>1. \A i, j : ReleasedBetween(i, j)' <=> ReleasedBetween(i, j)
          BY <4>1 DEF ReleasedBetween, HoldsAt
        <5>2. Len(samples)' = Len(samples) /\ DOMAIN samples' = DOMAIN samples
          BY <4>1
        <5> QED BY <4>1, <5>1, <5>2 DEF EpisodeStarts, HoldsAt
      <4> QED BY <1>2, <4>1, <4>2, Zenon DEF TimerInv, CandidateIsEpisodeStart
    <3>2. ReleaseIsRunStart'
      BY <1>2, <2>1 DEF vars, rule, TimerInv, ReleaseIsRunStart, FailingSince, FailsAt, HoldsAt
    <3>3. FiredIsSustained'
      BY <1>2, <2>1 DEF vars, rule, TimerInv, FiredIsSustained, HoldsAt, ReleasedBetween
    <3>4. SustainedIsFired'
      BY <1>2, <2>1 DEF vars, rule, TimerInv, SustainedIsFired, HoldsAt, CoolAt
    <3> QED BY <3>1, <3>2, <3>3, <3>4 DEF TimerInv
  <2>2. ASSUME NEW s \in Sample, Observe(s) PROVE TimerInv'
    <3>1. CandidateIsEpisodeStart'
      BY <1>2, <2>2, CandidateNext DEF TimerInv
    <3>2. ReleaseIsRunStart'
      BY <1>2, <2>2, RunStartNext DEF TimerInv
    <3>3. FiredIsSustained'
      BY <1>2, <2>2, <3>1, FiredNext DEF TimerInv
    <3>4. SustainedIsFired'
      BY <1>2, <2>2, SustainedNext
    <3> QED BY <3>1, <3>2, <3>3, <3>4 DEF TimerInv
  <2> QED BY <1>2, <2>1, <2>2 DEF Next
<1> QED BY <1>1, <1>2

\* The timers mean what they are for, throughout.
THEOREM TimersTellTheHistory == Spec => []TimerInv
  BY RuleInvariant, TimerKept, PTL DEF Spec

\* The candidate timer dates from the start of the episode, however many
\* low-confidence samples and short interruptions it went through, and is off
\* between episodes (_step_rule's candidate_since_ms).
THEOREM EpisodeIsDated == Spec => []CandidateIsEpisodeStart
<1>1. TimerInv => CandidateIsEpisodeStart
  BY DEF TimerInv
<1>2. QED
  BY <1>1, TimersTellTheHistory, PTL

\* Nothing fires that has not lasted for the onset (_on_match).
THEOREM FiringsAreSustained == Spec => []FiredIsSustained
<1>1. TimerInv => FiredIsSustained
  BY DEF TimerInv
<1>2. QED
  BY <1>1, TimersTellTheHistory, PTL

\* What lasts for the onset fires, unless the rule fired less than its cooldown
\* ago (_on_match).
THEOREM SustainedFires == Spec => []SustainedIsFired
<1>1. TimerInv => SustainedIsFired
  BY DEF TimerInv
<1>2. QED
  BY <1>1, TimersTellTheHistory, PTL

(***************************************************************************)
(* The refinement of FlagLifecycle.                                        *)
(***************************************************************************)
Published(r) ==
  [v \in DOMAIN r |-> [id |-> r[v].id, resolved |-> r[v].resolved]]

\* A function on 1..n is a sequence of length n.
LEMMA FunctionIsSeq ==
  ASSUME NEW n \in Nat, NEW S, NEW f \in [1..n -> S]
  PROVE  f \in Seq(S) /\ Len(f) = n
<1>1. f \in Seq(S)
  OBVIOUS
<1>2. QED
  BY <1>1, LenProperties

\* Publishing one more violation appends its entry.
LEMMA PublishedAppend ==
  ASSUME NEW r \in Seq(Violation), NEW v \in Violation
  PROVE  /\ Len(Published(r)) = Len(r)
         /\ Published(Append(r, v)) =
              Append(Published(r), [id |-> v.id, resolved |-> v.resolved])
<1> DEFINE E == [id : Nat, resolved : BOOLEAN]
           e == [id |-> v.id, resolved |-> v.resolved]
           P == Published(r)
           R == Append(r, v)
<1>1. /\ DOMAIN r = 1..Len(r) /\ Len(r) \in Nat
      /\ \A i \in 1..Len(r) : r[i] \in Violation
  OBVIOUS
<1>2. /\ R \in Seq(Violation) /\ Len(R) = Len(r) + 1
      /\ DOMAIN R = 1..(Len(r) + 1)
      /\ \A i \in 1..Len(r) : R[i] = r[i]
      /\ R[Len(r) + 1] = v
  OBVIOUS
<1>3. /\ DOMAIN P = 1..Len(r)
      /\ \A i \in 1..Len(r) : P[i] = [id |-> r[i].id, resolved |-> r[i].resolved]
  BY <1>1 DEF Published
<1>4. P \in Seq(E) /\ Len(P) = Len(r)
  <2>1. \A i \in 1..Len(r) : [id |-> r[i].id, resolved |-> r[i].resolved] \in E
    BY <1>1 DEF Violation
  <2>2. P = [i \in 1..Len(r) |-> [id |-> r[i].id, resolved |-> r[i].resolved]]
    BY <1>1 DEF Published
  <2>3. P \in [1..Len(r) -> E]
    BY <2>1, <2>2
  <2>4. QED
    BY <1>1, <2>3, FunctionIsSeq
<1>5. e \in E
  BY DEF Violation
<1>6. /\ Append(P, e) \in Seq(E) /\ Len(Append(P, e)) = Len(r) + 1
      /\ \A i \in 1..Len(r) : Append(P, e)[i] = P[i]
      /\ Append(P, e)[Len(r) + 1] = e
  BY <1>4, <1>5, AppendProperties
<1>7. Published(R) =
        [i \in 1..(Len(r) + 1) |-> [id |-> R[i].id, resolved |-> R[i].resolved]]
  BY <1>2 DEF Published
<1>8. QED
  BY <1>1, <1>2, <1>3, <1>4, <1>6, <1>7

\* The rule implements FlagLifecycle: every step of its timers is a firing, a
\* resolution or a step the rest of the gateway does not see.
THEOREM RuleKeepsLifecycle == Spec => KeepsFlagLifecycle
<1> USE DEF Published
<1>1. Init => Flags!Init
  <2> SUFFICES ASSUME Init PROVE Flags!Init
    OBVIOUS
  <2>1. raised = <<>> /\ DOMAIN raised = {}
    BY DEF Init
  <2>2. QED
    BY <2>1 DEF Init, Flags!Init
<1>2. IInv /\ [Next]_vars =>
        [Flags!Next]_<<active_violation_id, Published(raised)>>
  <2> SUFFICES ASSUME IInv, [Next]_vars
               PROVE  \/ Flags!Next
                      \/ UNCHANGED <<active_violation_id, Published(raised)>>
    OBVIOUS
  <2>1. CASE UNCHANGED <<active_violation_id, raised>>
    BY <2>1
  <2>2. ASSUME NEW s \in Sample, OnMatch(s.ms), MayFire(s.ms)
        PROVE  Flags!Fire
    <3> DEFINE v == [id |-> FreshId, resolved |-> FALSE,
                     opened_at_ms |-> CandidateAt(s.ms), fired_at_ms |-> s.ms]
    <3>1. /\ raised' = Append(raised, v) /\ active_violation_id' = FreshId
          /\ active_violation_id = 0
      BY <2>2 DEF OnMatch, MayFire, IInv, StateMatchesLast
    <3>2. v \in Violation /\ raised \in Seq(Violation)
      <4>1. s.ms \in Int /\ CandidateAt(s.ms) \in Int /\ FreshId \in Nat
        BY Constants DEF Sample, CandidateAt, FreshId, IInv, TypeOK
      <4>2. QED
        BY <4>1 DEF Violation, IInv, TypeOK
    <3>3. QED
      BY <3>1, <3>2, PublishedAppend DEF Flags!Fire, Flags!Entry, FreshId
  <2>3. ASSUME NEW s \in Sample, ReleaseRule(s.ms), firing
        PROVE  Flags!Resolve
    <3> DEFINE v == [id |-> active_violation_id, resolved |-> TRUE,
                     opened_at_ms |-> candidate_since_ms,
                     fired_at_ms |-> releasing_since_ms]
    <3>1. /\ raised' = Append(raised, v) /\ active_violation_id' = 0
          /\ active_violation_id # 0
      BY <2>3 DEF ReleaseRule, IInv, StateMatchesLast
    <3>2. v \in Violation /\ raised \in Seq(Violation)
      BY DEF Violation, IInv, TypeOK
    <3>3. QED
      BY <3>1, <3>2, PublishedAppend DEF Flags!Resolve, Flags!Entry
  <2>4. CASE UNCHANGED vars
    BY <2>1, <2>4 DEF vars, rule
  <2>5. ASSUME NEW s \in Sample, Observe(s)
        PROVE  Flags!Next \/ UNCHANGED <<active_violation_id, raised>>
    <3>1. CASE OnMatch(s.ms) /\ ~MayFire(s.ms)
      BY <3>1 DEF OnMatch
    <3>2. CASE ReleaseRule(s.ms) /\ ~firing
      BY <3>2 DEF ReleaseRule, IInv, StateMatchesLast
    <3>3. CASE NoInformation \/ NothingHeld \/ StartRelease(s.ms)
                 \/ StillReleasing(s.ms)
      BY <3>3 DEF NoInformation, NothingHeld, StartRelease, StillReleasing, rule
    <3>4. QED
      BY <2>5, <2>2, <2>3, <3>1, <3>2, <3>3 DEF Observe, Flags!Next
  <2>6. QED
    BY <2>1, <2>4, <2>5 DEF Next
<1>3. QED
  BY <1>1, <1>2, RuleInvariant, PTL DEF Spec, KeepsFlagLifecycle, Flags!Spec

---------------------------------------------------------------------------
(***************************************************************************)
(* The rule behind the integrity check (StretchedClock): what the clock    *)
(* check guarantees of the frames it passes, for every tolerance, length   *)
(* of the exam and behaviour of the client's counter.                      *)
(***************************************************************************)

\* The assumptions on the constants of both.
LEMMA StretchConstants ==
  /\ {Onset, Release, Cooldown, MaxSeq} \subseteq Nat
  /\ Clock \subseteq Nat
  /\ MaxClock \in Nat \ {0}
BY Constants, StretchAssumption DEF StretchAssumption

\* The tolerance is a natural number.
LEMMA Tolerance == SkewTolerance \in Nat
BY IntegrityAssumption DEF IntegrityAssumption

\* A session as create makes it is a session.
LEMMA NewSessionType == NewSession \in Session
BY DEF NewSession, Session, None

\* The check returns a session; its clocks are those of the first frame, and
\* a frame that advances the stream becomes its position.
LEMMA CheckedClocks ==
  ASSUME NEW x \in Session, NEW f, f.seq \in Nat, f.ts_monotonic_ms \in Nat,
         NEW t \in Nat
  PROVE  /\ Checked(x, f, t) \in Session
         /\ Checked(x, f, t).first_client_ms =
              IF IsFirst(x, f) THEN f.ts_monotonic_ms ELSE x.first_client_ms
         /\ Checked(x, f, t).first_server_ms =
              IF IsFirst(x, f) THEN t ELSE x.first_server_ms
         /\ Advances(x, f) => /\ Checked(x, f, t).last_seq = f.seq
                             /\ Checked(x, f, t).last_monotonic_ms = f.ts_monotonic_ms
<1>1. CASE ~Advances(x, f)
  BY <1>1 DEF Checked, IsFirst, InOrder
<1>2. CASE Advances(x, f)
  <2> DEFINE c == IF IsFirst(x, f) THEN f.ts_monotonic_ms ELSE x.first_client_ms
             v == IF IsFirst(x, f) THEN t ELSE x.first_server_ms
  <2>1. c \in Int /\ v \in Int /\ x.events_received + 1 \in Nat
    BY DEF Session
  <2>2. Checked(x, f, t) =
          [last_seq |-> f.seq, last_monotonic_ms |-> f.ts_monotonic_ms,
           first_client_ms |-> c, first_server_ms |-> v,
           events_received |-> x.events_received + 1,
           connected |-> x.connected, ended_cleanly |-> x.ended_cleanly,
           integrity_breaches |-> x.integrity_breaches,
           breach_counts |-> x.breach_counts, breach_last_ms |-> x.breach_last_ms]
    BY <1>2 DEF Checked, Session
  <2> HIDE DEF c, v
  <2>3. /\ Checked(x, f, t) \in Session
        /\ Checked(x, f, t).first_client_ms = c /\ Checked(x, f, t).first_server_ms = v
        /\ Checked(x, f, t).last_seq = f.seq
        /\ Checked(x, f, t).last_monotonic_ms = f.ts_monotonic_ms
    BY <2>1, <2>2 DEF Session
  <2> QED BY <2>3 DEF c, v
<1> QED BY <1>1, <1>2

\* A breach leaves the position and the clocks of the stream alone.
LEMMA BreachedStream ==
  ASSUME NEW x \in Session, NEW b \in Breach, NEW t \in Nat
  PROVE  /\ Breached(x, b, t) \in Session
         /\ Breached(x, b, t).last_seq = x.last_seq
         /\ Breached(x, b, t).last_monotonic_ms = x.last_monotonic_ms
         /\ Breached(x, b, t).first_client_ms = x.first_client_ms
         /\ Breached(x, b, t).first_server_ms = x.first_server_ms
<1>1. Logged(x.integrity_breaches, b) \in Seq(Breach \cup {Suppressed})
  BY AppendProperties DEF Logged, Session
<1>2. /\ [x.breach_counts EXCEPT ![b] = @ + 1] \in [Breach -> Nat]
      /\ [x.breach_last_ms EXCEPT ![b] = IF Reportable(x, b, t) THEN t ELSE @]
           \in [Breach -> Int]
  BY DEF Session
<1> QED BY <1>1, <1>2 DEF Breached, Session

\* The strengthening: every frame the check passed was held to the two clocks
\* of the first frame, and these never change.
NearFirstFrame(x, r) ==
  /\ x.first_client_ms # None
  /\ Distance(r.ms - x.first_client_ms, r.at - x.first_server_ms)
       =< SkewTolerance

ClockInv ==
  /\ session \in Session
  /\ receipts \in Seq(Receipt)
  /\ now \in Nat \ {0}
  /\ session.first_client_ms # None => session.first_server_ms >= 1
  /\ \A i \in 1..Len(receipts) :
       receipts[i].passed => NearFirstFrame(session, receipts[i])

\* The fields of a frame have their types.
LEMMA FrameNumbers ==
  ASSUME NEW f \in Frame
  PROVE  f.seq \in Nat /\ f.ts_monotonic_ms \in Nat
<1>1. MaxSeq \in Nat /\ Clock \subseteq Nat
  BY StretchConstants
<1>2. f.seq \in 0..MaxSeq /\ f.ts_monotonic_ms \in Clock
  BY DEF Frame
<1>3. 0..MaxSeq \subseteq Nat
  BY <1>1
<1>4. QED
  BY <1>1, <1>2, <1>3, Zenon

\* The clocks start in their invariant.
LEMMA InitClockInv == StretchInit => ClockInv
BY NewSessionType DEF StretchInit, ClockInv, NewSession

\* The session after a frame: its clocks are the check's.
LEMMA SessionAfterClocks ==
  ASSUME ClockInv, NEW f \in Frame
  PROVE  /\ SessionAfter(f) \in Session
         /\ SessionAfter(f).first_client_ms = Checked(session, f, now).first_client_ms
         /\ SessionAfter(f).first_server_ms = Checked(session, f, now).first_server_ms
         /\ SessionAfter(f).last_monotonic_ms =
              Checked(session, f, now).last_monotonic_ms
<1> DEFINE v == BreachesOf(session, f, now)
           x == Checked(session, f, now)
<1>1. x \in Session
  BY FrameNumbers, CheckedClocks DEF ClockInv
<1>2. CASE v = {}
  BY <1>1, <1>2 DEF SessionAfter
<1>3. CASE v # {}
  <2>1. (CHOOSE b \in v : TRUE) \in Breach
    BY <1>3 DEF BreachesOf
  <2>2. PICK b \in Breach : SessionAfter(f) = Breached(x, b, now)
    BY <1>3, <2>1 DEF SessionAfter
  <2>3. now \in Nat
    BY DEF ClockInv
  <2> HIDE DEF v, x
  <2>4. /\ Breached(x, b, now) \in Session
        /\ Breached(x, b, now).first_client_ms = x.first_client_ms
        /\ Breached(x, b, now).first_server_ms = x.first_server_ms
        /\ Breached(x, b, now).last_monotonic_ms = x.last_monotonic_ms
    BY <1>1, <2>3, BreachedStream
  <2>5. QED
    BY <2>2, <2>4 DEF x
<1>4. QED
  BY <1>2, <1>3

\* A frame preserves the invariant of the clocks.
LEMMA ReceiveClockInv ==
  ASSUME ClockInv, NEW f \in Frame, Receive(f)
  PROVE  ClockInv'
<1> DEFINE r == [at |-> now, ms |-> f.ts_monotonic_ms,
                 passed |-> Passes(session, f, now)]
<1>1. f.seq \in Nat /\ f.ts_monotonic_ms \in Nat /\ now \in Nat \ {0}
  BY FrameNumbers DEF ClockInv
<1>2. r \in Receipt
  BY <1>1 DEF Receipt, Passes, InOrder, Advances, IsReplay, IsRewound, Drifted
<1>3. /\ receipts' = Append(receipts, r) /\ now' = now
      /\ session' = SessionAfter(f) /\ session' \in Session
      /\ receipts \in Seq(Receipt)
  BY SessionAfterClocks DEF Receive, ClockInv
<1>4. /\ receipts' \in Seq(Receipt)
      /\ Len(receipts') = Len(receipts) + 1
      /\ \A i \in 1..Len(receipts) : receipts'[i] = receipts[i]
      /\ receipts'[Len(receipts) + 1] = r
      /\ DOMAIN receipts' = 1..(Len(receipts) + 1)
  BY <1>2, <1>3, AppendProperties, LenProperties
<1>5. IF IsFirst(session, f)
      THEN session'.first_client_ms = f.ts_monotonic_ms
           /\ session'.first_server_ms = now
      ELSE session'.first_client_ms = session.first_client_ms
           /\ session'.first_server_ms = session.first_server_ms
  <2>1. session \in Session /\ now \in Nat
    BY DEF ClockInv
  <2>2. IF IsFirst(session, f)
        THEN /\ Checked(session, f, now).first_client_ms = f.ts_monotonic_ms
             /\ Checked(session, f, now).first_server_ms = now
        ELSE /\ Checked(session, f, now).first_client_ms = session.first_client_ms
             /\ Checked(session, f, now).first_server_ms = session.first_server_ms
    BY <1>1, <2>1, CheckedClocks
  <2>3. QED
    BY <1>3, <2>2, SessionAfterClocks
<1>6. /\ session.first_client_ms \in Int /\ session.first_server_ms \in Int
      /\ session.first_client_ms # None => session.first_server_ms >= 1
  BY DEF ClockInv, Session
<1>7. session'.first_client_ms # None => session'.first_server_ms >= 1
  BY <1>1, <1>5, <1>6
<1>8. ASSUME NEW i \in 1..Len(receipts), receipts[i].passed
      PROVE  NearFirstFrame(session', receipts[i])
  <2>1. NearFirstFrame(session, receipts[i])
    BY <1>8 DEF ClockInv
  <2>2. ~IsFirst(session, f)
    BY <2>1 DEF NearFirstFrame, IsFirst
  <2>3. QED
    BY <1>5, <2>1, <2>2 DEF NearFirstFrame
<1>9. ASSUME Passes(session, f, now)
      PROVE  NearFirstFrame(session', r)
  <2>1. CASE IsFirst(session, f)
    <3>1. Distance(r.ms - session'.first_client_ms,
                   r.at - session'.first_server_ms) = 0
      BY <1>1, <1>5, <2>1 DEF Distance
    <3>2. session'.first_client_ms # None
      BY <1>1, <1>5, <2>1 DEF None
    <3>3. QED
      BY <3>1, <3>2, Tolerance DEF NearFirstFrame
  <2>2. CASE ~IsFirst(session, f)
    <3>1. session.first_client_ms # None /\ InOrder(session, f)
      BY <1>9, <2>2 DEF Passes, IsFirst
    <3>2. ~(Skew(session, f, now) > SkewTolerance)
      BY <1>9, <3>1 DEF Passes, Drifted
    <3>3. Skew(session, f, now) =
            Distance(r.ms - session.first_client_ms,
                     r.at - session.first_server_ms)
      BY <1>6, <3>1 DEF Skew, ServerBase
    <3>4. Skew(session, f, now) \in Int
      BY <1>1, <1>6, <3>3 DEF Distance
    <3>5. Skew(session, f, now) =< SkewTolerance
      BY <3>2, <3>4, Tolerance
    <3>6. QED
      BY <1>5, <2>2, <3>1, <3>3, <3>5 DEF NearFirstFrame
  <2>3. QED
    BY <2>1, <2>2
<1>10. \A i \in 1..Len(receipts') :
         receipts'[i].passed => NearFirstFrame(session', receipts'[i])
  <2>1. Len(receipts) \in Nat
    BY <1>3, LenProperties
  <2>2. r.passed <=> Passes(session, f, now)
    OBVIOUS
  <2> HIDE DEF r
  <2>3. ASSUME NEW i \in 1..Len(receipts'), receipts'[i].passed
        PROVE  NearFirstFrame(session', receipts'[i])
    <3>1. CASE i \in 1..Len(receipts)
      BY <1>4, <1>8, <2>3, <3>1
    <3>2. CASE i = Len(receipts) + 1
      BY <1>4, <1>9, <2>2, <2>3, <3>2
    <3>3. QED
      BY <1>4, <2>1, <3>1, <3>2
  <2>4. QED
    BY <2>3
<1>11. QED
  BY <1>1, <1>3, <1>4, <1>7, <1>10 DEF ClockInv

\* Every step preserves the invariant of the clocks.
LEMMA NextClockInv == ClockInv /\ [StretchNext]_stretchvars => ClockInv'
<1> SUFFICES ASSUME ClockInv, [StretchNext]_stretchvars PROVE ClockInv'
  OBVIOUS
<1>1. ASSUME NEW f \in Frame, Receive(f) PROVE ClockInv'
  BY <1>1, ReceiveClockInv
<1>2. CASE Elapse
  BY <1>2, StretchConstants DEF Elapse, vars, ClockInv, NearFirstFrame
<1>3. CASE UNCHANGED stretchvars
  BY <1>3 DEF stretchvars, ClockInv, NearFirstFrame
<1>4. QED
  BY <1>1, <1>2, <1>3 DEF StretchNext

\* The invariant of the clocks holds throughout.
LEMMA ClocksInvariant == StretchSpec => []ClockInv
BY InitClockInv, NextClockInv, PTL DEF StretchSpec

\* Session.check holds each frame it passes to the first frame of the session,
\* so the elapsed times of any two of them are within twice the tolerance of
\* the server's: the bound validate_against_policy would need, and the one the
\* docstring of check is half of.
THEOREM PassedFramesAreClose == StretchSpec => []PassedFramesAgree
<1>1. ASSUME ClockInv PROVE PassedFramesAgree
  <2> SUFFICES ASSUME NEW i \in DOMAIN receipts, NEW j \in DOMAIN receipts,
                      receipts[i].passed, receipts[j].passed
               PROVE  Distance(receipts[j].ms - receipts[i].ms, Elapsed(i, j))
                        =< 2 * SkewTolerance
    BY DEF PassedFramesAgree
  <2>0. i \in 1..Len(receipts) /\ j \in 1..Len(receipts)
    BY <1>1, LenProperties DEF ClockInv
  <2>1. /\ NearFirstFrame(session, receipts[i])
        /\ NearFirstFrame(session, receipts[j])
    BY <1>1, <2>0 DEF ClockInv
  <2>2. receipts[i] \in Receipt /\ receipts[j] \in Receipt
    BY <1>1, <2>0, LenProperties DEF ClockInv
  <2>3. session.first_client_ms \in Int /\ session.first_server_ms \in Int
    BY <1>1 DEF ClockInv, Session
  <2>4. /\ receipts[i].ms \in Nat /\ receipts[i].at \in Nat
        /\ receipts[j].ms \in Nat /\ receipts[j].at \in Nat
    BY <2>2 DEF Receipt
  <2>5. QED
    BY <2>1, <2>3, <2>4, Tolerance DEF NearFirstFrame, Distance, Elapsed
<1>2. QED
  BY <1>1, ClocksInvariant, PTL

(***************************************************************************)
(* The rule behind the check.                                              *)
(***************************************************************************)
Unbroken(i) ==
  \A k \in i..Len(receipts) : receipts[k].passed /\ samples[k].verdict = Holds

\* The candidate timer is never ahead of the stream's clock, so an unbroken run
\* of passed frames is dated from its first frame or earlier; and the last
\* frame was answered if the run was long enough on the client's counter.
HoldInv ==
  /\ samples \in Seq(Sample)
  /\ Len(samples) = Len(receipts)
  /\ \A k \in 1..Len(receipts) : receipts[k].ms = samples[k].ms
  /\ candidate_since_ms \in Int
  /\ last_fired_ms \in Int
  /\ firing \in BOOLEAN
  /\ candidate_since_ms =< session.last_monotonic_ms
  /\ \A i \in 1..Len(receipts) : Unbroken(i) =>
       candidate_since_ms # NotSet /\ candidate_since_ms =< receipts[i].ms
  /\ Len(receipts) > 0
     /\ samples[Len(receipts)].verdict = Holds
     /\ samples[Len(receipts)].ms - candidate_since_ms >= Onset
     => Answered

\* The rule's timers start in their invariant.
LEMMA InitHoldInv == StretchInit => HoldInv
<1> SUFFICES ASSUME StretchInit PROVE HoldInv
  OBVIOUS
<1>1. /\ receipts = <<>> /\ samples = <<>> /\ firing = FALSE
      /\ candidate_since_ms = -1 /\ last_fired_ms = -1
      /\ session.last_monotonic_ms = -1
  BY DEF StretchInit, Init, NewSession, NotSet
<1>2. /\ Len(receipts) = 0 /\ Len(samples) = 0
      /\ 1..Len(receipts) = {} /\ ~(Len(receipts) > 0)
  BY <1>1
<1>3. samples \in Seq(Sample)
  BY <1>1
<1>4. firing \in BOOLEAN
  BY <1>1
<1>5. /\ candidate_since_ms \in Int /\ last_fired_ms \in Int
      /\ candidate_since_ms =< session.last_monotonic_ms
  BY <1>1
<1>6. QED
  BY <1>2, <1>3, <1>4, <1>5 DEF HoldInv

\* What one frame does to the timers HoldInv speaks of.
LEMMA RuleStep ==
  ASSUME HoldInv, NEW s \in Sample, s.ms \in Nat, Observe(s)
  PROVE  /\ samples' = Append(samples, s)
         /\ candidate_since_ms' \in {candidate_since_ms, s.ms, NotSet}
         /\ last_fired_ms' \in Int /\ firing' \in BOOLEAN
         /\ s.verdict = Holds =>
              /\ candidate_since_ms' =
                   IF candidate_since_ms = NotSet THEN s.ms
                   ELSE candidate_since_ms
              /\ s.ms - candidate_since_ms' >= Onset =>
                   firing' \/ ~(\/ last_fired_ms' = NotSet
                                \/ s.ms - last_fired_ms' >= Cooldown)
<1> USE DEF Holds, Fails, Unsure
<1>1. CASE s.verdict = Holds
  <2>1. OnMatch(s.ms) /\ samples' = Append(samples, s)
    BY <1>1 DEF Observe
  <2>2. CASE MayFire(s.ms)
    BY <2>1, <2>2 DEF OnMatch, CandidateAt, HoldInv
  <2>3. CASE ~MayFire(s.ms)
    BY <2>1, <2>3 DEF OnMatch, MayFire, CandidateAt,
                      CoolAt, HoldInv
  <2>4. QED
    BY <2>2, <2>3
<1>2. CASE s.verdict # Holds
  BY <1>2 DEF Observe, NoInformation, NothingHeld, rule,
              StartRelease, StillReleasing, ReleaseRule, HoldInv
<1>3. QED
  BY <1>1, <1>2

\* Where the stream's clock is after a frame that is not a replay.
LEMMA ClockStep ==
  ASSUME ClockInv, NEW f \in Frame, Receive(f)
  PROVE  /\ session.last_monotonic_ms \in Int
         /\ session'.last_monotonic_ms \in Int
         /\ session'.last_monotonic_ms >= session.last_monotonic_ms
         /\ session'.last_monotonic_ms >= f.ts_monotonic_ms
         /\ Passes(session, f, now) =>
              f.ts_monotonic_ms >= session.last_monotonic_ms
<1>1. f.seq \in Nat /\ f.ts_monotonic_ms \in Nat /\ now \in Nat
      /\ session \in Session
  BY FrameNumbers DEF ClockInv
<1>2. /\ session.last_monotonic_ms \in Int
      /\ session' = SessionAfter(f) /\ ~IsReplay(session, f)
  BY <1>1 DEF Session, Receive
<1>3. session'.last_monotonic_ms = Checked(session, f, now).last_monotonic_ms
  BY <1>2, SessionAfterClocks
<1>4. /\ Checked(session, f, now).last_monotonic_ms >= session.last_monotonic_ms
      /\ Checked(session, f, now).last_monotonic_ms \in Int
  <2>1. CASE Advances(session, f)
    <3>1. Checked(session, f, now).last_monotonic_ms = f.ts_monotonic_ms
      BY <1>1, <2>1, CheckedClocks
    <3>2. ~(f.ts_monotonic_ms < session.last_monotonic_ms)
      BY <2>1 DEF Advances, IsRewound
    <3> QED BY <1>1, <1>2, <3>1, <3>2
  <2>2. CASE ~Advances(session, f)
    BY <1>2, <2>2 DEF Checked
  <2> QED BY <2>1, <2>2
<1>5. CASE Advances(session, f)
  <2>1. Checked(session, f, now).last_monotonic_ms = f.ts_monotonic_ms
    BY <1>1, <1>5, CheckedClocks
  <2>2. QED
    BY <1>1, <1>2, <1>3, <1>4, <2>1
<1>6. CASE ~Advances(session, f)
  <2>1. f.ts_monotonic_ms < session.last_monotonic_ms
    BY <1>2, <1>6 DEF Advances, IsRewound
  <2>2. ~Passes(session, f, now)
    BY <1>6 DEF Passes, InOrder
  <2>3. QED
    BY <1>1, <1>2, <1>3, <1>4, <2>1, <2>2
<1>7. QED
  BY <1>5, <1>6

\* A frame preserves the invariant of the rule's timers.
LEMMA ReceiveHoldInv ==
  ASSUME ClockInv, HoldInv, NEW f \in Frame, Receive(f)
  PROVE  HoldInv'
<1> DEFINE s == [ms |-> f.ts_monotonic_ms, verdict |-> f.verdict]
           r == [at |-> now, ms |-> f.ts_monotonic_ms,
                 passed |-> Passes(session, f, now)]
           n == Len(receipts)
<1>1. s \in Sample /\ s.ms \in Nat /\ s.ms = f.ts_monotonic_ms
  BY FrameNumbers DEF Frame, Sample
<1>2. Observe(s) /\ receipts' = Append(receipts, r)
  BY DEF Receive
<1>3. n \in Nat /\ receipts \in Seq(Receipt) /\ samples \in Seq(Sample)
      /\ Len(samples) = n
  BY LenProperties DEF ClockInv, HoldInv
<1>4. ClockInv'
  BY ReceiveClockInv
<1>5. /\ Len(receipts') = n + 1 /\ receipts'[n + 1] = r
      /\ \A i \in 1..n : receipts'[i] = receipts[i]
  BY <1>2, <1>3
<1>6. /\ samples' = Append(samples, s) /\ samples' \in Seq(Sample)
      /\ Len(samples') = n + 1 /\ samples'[n + 1] = s
      /\ \A i \in 1..n : samples'[i] = samples[i]
  <2>1. samples' = Append(samples, s)
    BY <1>1, <1>2, RuleStep
  <2>2. QED
    BY <1>1, <1>3, <2>1, AppendProperties
<1>7. /\ candidate_since_ms' \in {candidate_since_ms, s.ms, NotSet}
      /\ last_fired_ms' \in Int /\ firing' \in BOOLEAN
      /\ s.verdict = Holds =>
           /\ candidate_since_ms' =
                IF candidate_since_ms = NotSet THEN s.ms
                ELSE candidate_since_ms
           /\ s.ms - candidate_since_ms' >= Onset =>
                firing' \/ ~(\/ last_fired_ms' = NotSet
                             \/ s.ms - last_fired_ms' >= Cooldown)
  BY <1>1, <1>2, RuleStep
<1>8. candidate_since_ms \in Int
      /\ candidate_since_ms =< session.last_monotonic_ms
  BY DEF HoldInv
<1>9. candidate_since_ms' \in Int
      /\ candidate_since_ms' =< session'.last_monotonic_ms
  <2>1. session'.last_monotonic_ms >= 0
    BY <1>1, ClockStep
  <2>2. QED
    BY <1>1, <1>7, <1>8, <2>1, ClockStep DEF NotSet
<1> HIDE DEF s, r, n
<1>10. ASSUME NEW i \in 1..(n + 1), Unbroken(i)'
       PROVE  /\ candidate_since_ms' # NotSet
              /\ candidate_since_ms' =< receipts'[i].ms
  <2>1. \A k \in i..(n + 1) :
          receipts'[k].passed /\ samples'[k].verdict = Holds
    BY <1>5, <1>10 DEF Unbroken
  <2>2. r.passed /\ s.verdict = Holds
    BY <1>3, <1>5, <1>6, <2>1
  <2>3. s.ms >= session.last_monotonic_ms
    BY <1>1, <2>2, ClockStep DEF r
  <2>4. CASE i = n + 1
    <3>1. receipts'[i].ms = s.ms
      BY <1>5, <2>4 DEF r, s
    <3>2. QED
      BY <1>1, <1>7, <1>8, <2>2, <2>3, <3>1, ClockStep DEF NotSet
  <2>5. CASE i \in 1..n
    <3>1. Unbroken(i)
      BY <1>3, <1>5, <1>6, <2>1, <2>5 DEF Unbroken, n
    <3>2. candidate_since_ms # NotSet /\ candidate_since_ms =< receipts[i].ms
      BY <2>5, <3>1 DEF HoldInv, n
    <3>3. QED
      BY <1>5, <1>7, <2>2, <2>5, <3>2
  <2>6. QED
    BY <1>3, <2>4, <2>5
<1>11. \A k \in 1..(n + 1) : receipts'[k].ms = samples'[k].ms
  <2>1. receipts'[n + 1].ms = samples'[n + 1].ms
    BY <1>5, <1>6 DEF r, s
  <2>2. \A k \in 1..n : receipts'[k].ms = samples'[k].ms
    BY <1>5, <1>6 DEF HoldInv, n
  <2>3. QED
    BY <1>3, <2>1, <2>2
<1>12. samples'[n + 1].verdict = Holds
       /\ samples'[n + 1].ms - candidate_since_ms' >= Onset
       => Answered'
  BY <1>3, <1>6, <1>7 DEF Answered, CoolAt
<1>13. QED
  BY <1>3, <1>5, <1>6, <1>7, <1>9, <1>10, <1>11, <1>12 DEF HoldInv

\* Every step preserves the invariant of the rule's timers.
LEMMA NextHoldInv == ClockInv /\ HoldInv /\ [StretchNext]_stretchvars => HoldInv'
<1> SUFFICES ASSUME ClockInv, HoldInv, [StretchNext]_stretchvars PROVE HoldInv'
  OBVIOUS
<1>1. ASSUME NEW f \in Frame, Receive(f) PROVE HoldInv'
  BY <1>1, ReceiveHoldInv
<1>2. CASE Elapse \/ UNCHANGED stretchvars
  BY <1>2 DEF Elapse, stretchvars, vars, rule, HoldInv, Unbroken, Answered, CoolAt
<1>3. QED
  BY <1>1, <1>2 DEF StretchNext

\* A condition that holds for Onset plus twice the tolerance of the server's
\* time, on frames that raise no breach, is flagged: whatever the client does
\* with its counter before and meanwhile (check, then _step_rule).
THEOREM StretchBound == StretchSpec => []StretchIsBounded
<1>1. ASSUME ClockInv, HoldInv, PassedFramesAgree PROVE StretchIsBounded
  <2> SUFFICES ASSUME HeldFor(Onset + 2 * SkewTolerance) PROVE Answered
    BY DEF StretchIsBounded
  <2> DEFINE n == Len(receipts)
  <2>1. n \in Nat /\ DOMAIN receipts = 1..n /\ receipts \in Seq(Receipt)
        /\ \A k \in 1..n : receipts[k] \in Receipt
    BY <1>1, LenProperties DEF ClockInv
  <2>2. PICK i \in 1..n : /\ Elapsed(i, n) >= Onset + 2 * SkewTolerance
                          /\ Unbroken(i)
    BY <2>1 DEF HeldFor, Unbroken
  <2>3. n \in 1..n /\ n \in i..n /\ i \in i..n /\ n > 0
    BY <2>1, <2>2
  <2>4. receipts[i].passed /\ receipts[n].passed
        /\ samples[n].verdict = Holds
    BY <2>2, <2>3 DEF Unbroken
  <2>5. Distance(receipts[n].ms - receipts[i].ms, Elapsed(i, n))
          =< 2 * SkewTolerance
    BY <1>1, <2>1, <2>3, <2>4 DEF PassedFramesAgree
  <2>6. /\ receipts[i].ms \in Nat /\ receipts[i].at \in Nat
        /\ receipts[n].ms \in Nat /\ receipts[n].at \in Nat
    BY <2>1, <2>3 DEF Receipt
  <2>7. receipts[n].ms - receipts[i].ms >= Onset
    <3>1. Onset \in Nat /\ SkewTolerance \in Nat
      BY StretchConstants, Tolerance
    <3>2. QED
      BY <2>2, <2>5, <2>6, <3>1 DEF Distance, Elapsed
  <2>8. candidate_since_ms \in Int /\ candidate_since_ms =< receipts[i].ms
        /\ samples[n].ms = receipts[n].ms
    BY <1>1, <2>2, <2>3 DEF HoldInv
  <2>9. samples[n].ms - candidate_since_ms >= Onset
    BY <2>6, <2>7, <2>8, StretchConstants
  <2>10. QED
    BY <1>1, <2>3, <2>4, <2>9 DEF HoldInv
<1>2. StretchSpec => []HoldInv
  BY ClocksInvariant, InitHoldInv, NextHoldInv, PTL DEF StretchSpec
<1>3. QED
  BY <1>1, <1>2, ClocksInvariant, PassedFramesAreClose, PTL

==========================================================================
