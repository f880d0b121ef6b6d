--------------------------- MODULE AudioMonitor ---------------------------
(***************************************************************************)
(* Speech (proctor_audio): the label a classifier gives a transcript       *)
(* (intent.py) and the window of labels that decides when it is reported   *)
(* (monitor.py).                                                           *)
(***************************************************************************)
EXTENDS Deque

CONSTANTS
  HelpWindow,   \* AudioMonitorPolicy.window
  HelpRequired, \*   .seeking_help_required
  RecentLabels  \* maxlen of SessionAudio.recent

\* AudioMonitorPolicy.__post_init__; as for the verifier's deque.
ASSUME AudioAssumption ==
  /\ HelpRequired \in 2 .. HelpWindow
  /\ HelpWindow \in Nat /\ RecentLabels \in Nat /\ RecentLabels >= HelpWindow

\* IntentLabel
IntentLabels == {"thinking_aloud", "reading_aloud", "seeking_help", "unclear"}

\* LLMIntentClassifier.classify: an answer that cannot be parsed, or names no
\* label, or none at all, is UNCLEAR.
Classify(answer) == IF answer \in IntentLabels THEN answer ELSE "unclear"

NewAudio == [recent |-> <<>>, status |-> "quiet"]

HelpIn(labels) == Cardinality({i \in DOMAIN labels : labels[i] = "seeking_help"})

\* Mutated form of Judged: everything remembered counts.
JudgedAll(labels) == labels

\* The labels judged: the last ones, as many as the window takes.
Judged(labels) == LastOf(labels, HelpWindow)

\* record: only the step to "sustained" is a finding.
Record(state, label) ==
  LET recent == Pushed(state.recent, label, RecentLabels) IN
  [recent |-> recent,
   status |-> IF HelpIn(Judged(recent)) >= HelpRequired
              THEN "sustained_help_suspected" ELSE "quiet"]

===========================================================================
