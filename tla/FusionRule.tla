--------------------------- MODULE FusionRule ----------------------------
(***************************************************************************)
(* One rule of the policy on one session: the onset, release and cooldown  *)
(* timers of FusionEngine._step_rule (src/python/proctor_fusion/engine.py).*)
(*                                                                         *)
(* A sample is what the rule makes of a payload: it holds, it does not, or *)
(* the detector was not confident enough to say (min_confidence).  Samples *)
(* carry the client's monotonic counter.  The engine does not check that   *)
(* the counter goes forward: the gateway flags a frame whose counter went  *)
(* back and still hands it over.                                           *)
(***************************************************************************)
EXTENDS Integers, Sequences, FiniteSets

CONSTANTS
  Onset,      \* onset_ms
  Release,    \* release_ms
  Cooldown,   \* cooldown_ms
  Clock,      \* values of ts_monotonic_ms
  MaxRewinds, \* bounds: times the counter goes back,
  MaxSamples  \*         samples of a run

ASSUME FusionAssumption ==
  /\ {Onset, Release, Cooldown, MaxRewinds, MaxSamples} \subseteq Nat
  /\ Clock \subseteq Nat

NotSet == -1
Holds   == "holds"
Fails   == "fails"
Unsure  == "unsure"
Verdict == {Holds, Fails, Unsure}

VARIABLES
  candidate_since_ms, \* the fields of _RuleState; active_violation_id is the
  releasing_since_ms, \* number of the firing in progress, 0 when there is
  firing,             \* none
  last_fired_ms,
  active_violation_id,
  raised,             \* the violations returned to the gateway, in order
  samples             \* history: the samples so far

rule == <<candidate_since_ms, releasing_since_ms, firing, last_fired_ms,
          active_violation_id>>
vars == <<rule, raised, samples>>

Sample == [ms : Clock, verdict : Verdict]
Violation == [id : Nat, resolved : BOOLEAN, opened_at_ms : Int,
              fired_at_ms : Int]

TypeOK ==
  /\ candidate_since_ms \in Int
  /\ releasing_since_ms \in Int
  /\ firing \in BOOLEAN
  /\ last_fired_ms \in Int
  /\ active_violation_id \in Nat
  /\ raised \in Seq(Violation)
  /\ samples \in Seq(Sample)

Init ==
  /\ candidate_since_ms = NotSet
  /\ releasing_since_ms = NotSet
  /\ firing = FALSE
  /\ last_fired_ms = NotSet
  /\ active_violation_id = 0
  /\ raised = <<>>
  /\ samples = <<>>

---------------------------------------------------------------------------
\* Mutated form of CandidateAt: every matching sample restarts the timer.
CandidateRestarts(ms) == ms

\* Where the condition has been held to start, once it holds at ms.
CandidateAt(ms) ==
  IF candidate_since_ms = NotSet THEN ms ELSE candidate_since_ms

\* Mutated form of CoolAt: one too early.
CoolEarly(ms) == last_fired_ms = NotSet \/ ms - last_fired_ms >= Cooldown - 1

CoolAt(ms) == last_fired_ms = NotSet \/ ms - last_fired_ms >= Cooldown

\* Mutated forms of MayFire: no onset; an onset to be exceeded.
MayFireAtOnce(ms) == ~firing /\ CoolAt(ms)
MayFireLate(ms) == ~firing /\ ms - CandidateAt(ms) > Onset /\ CoolAt(ms)

MayFire(ms) == ~firing /\ ms - CandidateAt(ms) >= Onset /\ CoolAt(ms)

\* Mutated form of FreshId: one id per rule.
FreshIdPerRule == 1

FreshId == Len(raised) + 1

\* Below the rule's confidence: neither timer moves.
NoInformation == UNCHANGED <<rule, raised>>

\* _on_match
OnMatch(ms) ==
  /\ releasing_since_ms' = NotSet
  /\ candidate_since_ms' = CandidateAt(ms)
  /\ \/ /\ MayFire(ms)
        /\ firing' = TRUE
        /\ last_fired_ms' = ms
        /\ active_violation_id' = FreshId
        /\ raised' = Append(raised,
             [id |-> FreshId, resolved |-> FALSE,
              opened_at_ms |-> CandidateAt(ms), fired_at_ms |-> ms])
     \/ /\ ~MayFire(ms)
        /\ UNCHANGED <<firing, last_fired_ms, active_violation_id, raised>>

\* _on_no_match, with nothing to release.
NothingHeld == candidate_since_ms = NotSet /\ UNCHANGED <<rule, raised>>

\* ... the first sample that does not hold starts the release timer ...
StartRelease(ms) ==
  /\ candidate_since_ms # NotSet
  /\ releasing_since_ms = NotSet
  /\ releasing_since_ms' = ms
  /\ UNCHANGED <<candidate_since_ms, firing, last_fired_ms,
                 active_violation_id, raised>>

\* ... which must run for Release ...
StillReleasing(ms) ==
  /\ candidate_since_ms # NotSet
  /\ releasing_since_ms # NotSet
  /\ ms - releasing_since_ms < Release
  /\ UNCHANGED <<rule, raised>>

\* ... and then resets the rule and resolves what fired.
ReleaseRule(ms) ==
  /\ candidate_since_ms # NotSet
  /\ releasing_since_ms # NotSet
  /\ ms - releasing_since_ms >= Release
  /\ candidate_since_ms' = NotSet
  /\ releasing_since_ms' = NotSet
  /\ firing' = FALSE
  /\ active_violation_id' = 0
  /\ raised' = IF firing
               THEN Append(raised,
                      [id |-> active_violation_id, resolved |-> TRUE,
                       opened_at_ms |-> candidate_since_ms,
                       fired_at_ms |-> releasing_since_ms])
               ELSE raised
  /\ UNCHANGED last_fired_ms

\* Times the counter went back so far.
Rewinds ==
  Cardinality({k \in DOMAIN samples : k > 1 /\ samples[k].ms < samples[k - 1].ms})

\* _step_rule on one sample.
Observe(s) ==
  /\ Len(samples) < MaxSamples
  /\ Rewinds = MaxRewinds /\ samples # <<>> => s.ms >= samples[Len(samples)].ms
  /\ samples' = Append(samples, s)
  /\ \/ s.verdict = Unsure /\ NoInformation
     \/ s.verdict = Holds /\ OnMatch(s.ms)
     \/ /\ s.verdict = Fails
        /\ \/ NothingHeld
           \/ StartRelease(s.ms)
           \/ StillReleasing(s.ms)
           \/ ReleaseRule(s.ms)

Next == \E s \in Sample : Observe(s)

Spec == Init /\ [][Next]_vars

---------------------------------------------------------------------------
(* What the timers are for, said of the history of samples.                *)

HoldsAt(k) == samples[k].verdict = Holds

\* Between two samples i and j the condition was released: from the first
\* sample it failed at, it failed without holding again for Release or more.
ReleasedBetween(i, j) ==
  \E a, b \in i..j :
    /\ a < b
    /\ samples[a].verdict = Fails /\ samples[b].verdict = Fails
    /\ \A m \in a..b : ~HoldsAt(m)
    /\ \A m \in i..a : samples[m].verdict = Fails /\ m < a
                        => \E h \in m..a : HoldsAt(h)
    /\ samples[b].ms - samples[a].ms >= Release

\* The sample the current episode of the condition starts at: the first that
\* holds with no release since.
EpisodeStarts ==
  {i \in DOMAIN samples : /\ HoldsAt(i)
                          /\ ~ReleasedBetween(i, Len(samples))}

\* "How long the condition must hold continuously": the candidate timer dates
\* from the start of the episode, however many low-confidence samples and
\* short interruptions it went through, and is off between episodes.
CandidateIsEpisodeStart ==
  IF EpisodeStarts = {} THEN candidate_since_ms = NotSet
  ELSE \E i \in EpisodeStarts :
         /\ \A j \in EpisodeStarts : i =< j
         /\ candidate_since_ms = samples[i].ms

\* What fired lasted: at every firing the condition had held from a sample
\* Onset earlier to the sample it fired on, without a release in between.
FiredIsSustained ==
  \A v \in DOMAIN raised : ~raised[v].resolved =>
    \E i, j \in DOMAIN samples :
      /\ i =< j
      /\ HoldsAt(i) /\ HoldsAt(j)
      /\ samples[i].ms = raised[v].opened_at_ms
      /\ samples[j].ms = raised[v].fired_at_ms
      /\ raised[v].fired_at_ms - raised[v].opened_at_ms >= Onset
      /\ ~ReleasedBetween(i, j)

\* "One reviewable event rather than forty-eight": firings of a rule are at
\* least the cooldown apart, on the counter they are stamped with.
FiringsSpaced ==
  \A v, w \in DOMAIN raised :
    v < w /\ ~raised[v].resolved /\ ~raised[w].resolved
      => raised[w].fired_at_ms - raised[v].fired_at_ms >= Cooldown

\* Firings and resolutions alternate, and a resolution carries the id and the
\* opening time of the firing it closes.
ResolutionsPair ==
  \A v \in DOMAIN raised :
    IF raised[v].resolved
    THEN /\ v > 1
         /\ ~raised[v - 1].resolved
         /\ raised[v - 1].id = raised[v].id
         /\ raised[v - 1].opened_at_ms = raised[v].opened_at_ms
    ELSE v > 1 => raised[v - 1].resolved

\* A condition that has held for Onset is flagged by the sample that shows it,
\* unless the rule fired less than the cooldown ago.
SustainedIsFired ==
  LET n == Len(samples) IN
    n > 0 /\ HoldsAt(n) /\ samples[n].ms - candidate_since_ms >= Onset
      => firing \/ ~CoolAt(samples[n].ms)

---------------------------------------------------------------------------
\* The rule keeps the promise of FlagLifecycle: its timers decide only when to
\* fire and when to resolve.
Flags == INSTANCE FlagLifecycle
           WITH open <- active_violation_id,
                log <- [v \in DOMAIN raised |->
                          [id |-> raised[v].id, resolved |-> raised[v].resolved]]

KeepsFlagLifecycle == Flags!Spec

==========================================================================
