------------------------- MODULE IdentityVerifier -------------------------
(***************************************************************************)
(* Identity (proctor_identity): the comparison of a capture with the       *)
(* enrolment (matching.py) and the window of outcomes that decides when    *)
(* disagreement is reported (verifier.py).                                 *)
(*                                                                         *)
(* An embedding is a direction in a plane, in degrees: normalising a       *)
(* vector leaves its direction, the cosine of two falls as the angle       *)
(* between them grows, and the centroid of unit vectors that lie within a  *)
(* half-turn is, to a rounding, their mean angle.                          *)
(***************************************************************************)
EXTENDS Deque

CONSTANTS
  MatchThreshold,      \* Threshold.value, as a similarity
  EnrolmentConsistency,\* enrolment_consistency
  MinCaptures,         \* minimum_captures
  Window,              \* VerificationPolicy.window
  MismatchesRequired,  \*   .mismatches_required
  UnobservableRun,     \*   .unobservable_run
  RecentOutcomes,      \* maxlen of SessionIdentity.recent
  None                 \* no enrolment

\* VerificationPolicy.__post_init__; a deque shorter than the window would
\* leave the window to the deque.
ASSUME VerificationAssumption ==
  /\ MismatchesRequired \in 2 .. Window
  /\ {Window, UnobservableRun, MinCaptures} \subseteq Nat \ {0}
  /\ RecentOutcomes \in Nat /\ RecentOutcomes >= Window

---------------------------------------------------------------------------
(* matching.py                                                             *)

\* cosine_similarity, on 0 (opposite) .. 180 (the same).
Similarity(a, b) == 180 - (IF a < b THEN b - a ELSE a - b)

Centroid(embeddings) == FoldLeft(+, 0, embeddings) \div Len(embeddings)

\* build_enrolment: enough captures, and no two that disagree.
Consistent(embeddings) ==
  /\ Len(embeddings) >= MinCaptures
  /\ \A i, j \in DOMAIN embeddings :
       Similarity(embeddings[i], embeddings[j]) >= EnrolmentConsistency

BuildEnrolment(embeddings) == Centroid(embeddings)

\* compare: quality, here the set of its issues, is judged before similarity.
Compare(probe, reference, quality) ==
  IF quality # {} \/ probe = None THEN "not_assessable"
  ELSE IF Similarity(probe, reference) >= MatchThreshold THEN "match"
  ELSE "mismatch"

---------------------------------------------------------------------------
(* verifier.py                                                             *)

NewIdentity ==
  [enrolment |-> None, recent |-> <<>>, unassessable_run |-> 0,
   status |-> "unverified"]

\* enrol: the outcomes judged against the former reference are kept.
Enrol(state, reference) ==
  [state EXCEPT !.enrolment = reference, !.status = "unverified"]

Assessable(outcomes) == {i \in DOMAIN outcomes : outcomes[i] # "not_assessable"}

\* The places of the last assessable outcomes, as many as the window takes.
Assessed(outcomes) ==
  {i \in Assessable(outcomes) :
     Cardinality({j \in Assessable(outcomes) : j > i}) < Window}

\* How many of those are mismatches.
Mismatched(outcomes) ==
  Cardinality({i \in Assessed(outcomes) : outcomes[i] = "mismatch"})

\* Mutated form of Evaluate: one mismatch is enough.
EvaluateHasty(state) ==
  IF state.unassessable_run >= UnobservableRun THEN "unobservable"
  ELSE IF Assessable(state.recent) = {} THEN "unverified"
  ELSE IF Mismatched(state.recent) >= 1 THEN "mismatch_suspected"
  ELSE IF Cardinality(Assessed(state.recent)) >= Window THEN "confirmed"
  ELSE state.status

Evaluate(state) ==
  LET mismatched == Mismatched(state.recent) IN
  IF state.unassessable_run >= UnobservableRun THEN "unobservable"
  ELSE IF Assessable(state.recent) = {} THEN "unverified"
  ELSE IF mismatched >= MismatchesRequired THEN "mismatch_suspected"
  ELSE IF Cardinality(Assessed(state.recent)) >= Window /\ mismatched = 0 THEN "confirmed"
  ELSE state.status

\* probe: a finding is due when the status is another one than before.
Probe(state, outcome) ==
  LET seen == [state EXCEPT
                 !.recent = Pushed(@, outcome, RecentOutcomes),
                 !.unassessable_run = IF outcome = "not_assessable" THEN @ + 1 ELSE 0]
  IN [seen EXCEPT !.status = Evaluate(seen)]

===========================================================================
