---------------------------- MODULE MCMonitors ----------------------------
(* Values for the runs of Monitors.                                        *)
EXTENDS Monitors, TLC

CONSTANTS s1, s2, c1, c2, e1, e2

\* The candidate's face, another one; captures that agree, and that do not.
FacesMC == {0, 90}
CaptureSetsMC == {<<0, 0, 12>>, <<90, 84, 90>>, <<0, 90, 0>>}

Followed == [identity |-> FALSE, audio |-> "disabled", sessions |-> {s1}, requests |-> 0,
             telemetry |-> 0, restarts |-> 0, failures |-> 0, days |-> 0, steps_back |-> 0]

\* One deployment for identity, one for its restarts and failures, two for
\* audio, and two with neither, for what the store keeps and restores.
DeploymentsMC == {
  [Followed EXCEPT !.identity = TRUE, !.requests = 6],
  [Followed EXCEPT !.identity = TRUE, !.requests = 4, !.restarts = 1, !.failures = 1,
                   !.days = 2],
  [Followed EXCEPT !.audio = "classify", !.requests = 4, !.restarts = 1,
                   !.failures = 1, !.days = 2],
  [Followed EXCEPT !.audio = "transcribe", !.requests = 2, !.restarts = 1, !.days = 2],
  [Followed EXCEPT !.sessions = {s1, s2}, !.telemetry = 4, !.restarts = 2, !.days = 3],
  [Followed EXCEPT !.telemetry = 4, !.restarts = 1, !.days = 3, !.steps_back = 1] }

Slots == Permutations({c1, c2}) \cup Permutations({e1, e2})
===========================================================================
