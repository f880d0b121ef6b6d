------------------------- MODULE StreamIntegrity -------------------------
(***************************************************************************)
(* The per-session stream-integrity check of the gateway                   *)
(* (src/python/proctor_gateway/sessions.py): what one authenticated frame  *)
(* does to a session, and how a breach is logged, counted and rate         *)
(* limited.  No variables: the modules that run sessions apply these       *)
(* operators to their own copies of a session.                             *)
(*                                                                         *)
(* Data that only travels (exam, candidate, attested build, signal tally,  *)
(* wording of a breach) is left out; a log entry is the breach it names.   *)
(***************************************************************************)
EXTENDS Integers, Sequences

CONSTANTS
  SkewTolerance,       \* skew_tolerance_ms of the session
  BreachCooldown,      \* BREACH_COOLDOWN_MS
  MaxRecordedBreaches  \* MAX_RECORDED_BREACHES

ASSUME IntegrityAssumption ==
  /\ SkewTolerance \in Nat
  /\ BreachCooldown \in Nat
  /\ MaxRecordedBreaches \in Nat

\* An optional timestamp that is not set (Python's None).  Every timestamp
\* the code compares is a natural number, so -1 is never one.
None == -1

\* IntegrityBreach; stream_attestation_mismatch is declared but never raised.
Replay       == "stream_replay"
SequenceGap  == "stream_sequence_gap"
ClockSkew    == "stream_clock_skew"
BadSignature == "stream_bad_signature"
Abandoned    == "stream_abandoned"
Breach == {Replay, SequenceGap, ClockSkew, BadSignature, Abandoned}

\* The entry that closes a full breach log.
Suppressed == "further_breaches_suppressed"

\* A session in memory.
Session ==
  [last_seq : Int, last_monotonic_ms : Int,
   first_client_ms : Int, first_server_ms : Int,
   events_received : Nat, connected : BOOLEAN, ended_cleanly : BOOLEAN,
   integrity_breaches : Seq(Breach \cup {Suppressed}),
   breach_counts : [Breach -> Nat], breach_last_ms : [Breach -> Int]]

NewSession ==
  [last_seq |-> -1, last_monotonic_ms |-> -1,
   first_client_ms |-> None, first_server_ms |-> None,
   events_received |-> 0, connected |-> FALSE, ended_cleanly |-> FALSE,
   integrity_breaches |-> <<>>,
   breach_counts |-> [b \in Breach |-> 0],
   breach_last_ms |-> [b \in Breach |-> None]]

\* Mutated form of ToRecord: the clock of the stream left out.
ToRecordNoClock(x) ==
  [x EXCEPT !.connected = FALSE, !.breach_last_ms = NewSession.breach_last_ms,
            !.last_monotonic_ms = NewSession.last_monotonic_ms]

\* What to_record stores of a session.  Whether a client is attached and the
\* state of the rate limiter are not stored: restore gives them the values of
\* a new session, so a stored record here carries those values already.
ToRecord(x) ==
  [x EXCEPT !.connected = NewSession.connected,
            !.breach_last_ms = NewSession.breach_last_ms]

---------------------------------------------------------------------------
(* Session.check: the verdict on a frame f received at server time t.      *)

\* Mutated form of IsReplay: the last number itself is let through.
IsReplayOffByOne(x, f) == f.seq < x.last_seq

IsReplay(x, f)  == f.seq =< x.last_seq
IsRewound(x, f) == ~IsReplay(x, f) /\ f.ts_monotonic_ms < x.last_monotonic_ms

\* Mutated form of Advances: the clock is not looked at.
AdvancesAnyClock(x, f) == ~IsReplay(x, f)

\* The frames that move the stream position, whatever the verdict.
Advances(x, f) == ~IsReplay(x, f) /\ ~IsRewound(x, f)
IsGap(x, f)    == Advances(x, f) /\ f.seq # x.last_seq + 1
InOrder(x, f)  == Advances(x, f) /\ f.seq = x.last_seq + 1

Distance(a, b) == IF a >= b THEN a - b ELSE b - a

\* Mutated form of ServerBase: every frame is the first.
ServerBaseNow(x, t) == t

\* `self.first_server_ms or server_ms`: a zero base counts as not set.
ServerBase(x, t) == IF x.first_server_ms = 0 THEN t ELSE x.first_server_ms

\* Mutated form of Skew: only a counter that runs ahead counts.
SkewOneWay(x, f, t) ==
  (f.ts_monotonic_ms - x.first_client_ms) - (t - ServerBase(x, t))

Skew(x, f, t) ==
  Distance(f.ts_monotonic_ms - x.first_client_ms, t - ServerBase(x, t))

\* The first frame in order sets both clocks; later ones are held to them.
IsFirst(x, f)  == InOrder(x, f) /\ x.first_client_ms = None
Drifted(x, f, t) ==
  InOrder(x, f) /\ x.first_client_ms # None /\ Skew(x, f, t) > SkewTolerance

\* The breach the check reports: at most one, none when the frame passes.
BreachesOf(x, f, t) ==
  {b \in Breach : \/ b = Replay /\ IsReplay(x, f)
                  \/ b = ClockSkew /\ (IsRewound(x, f) \/ Drifted(x, f, t))
                  \/ b = SequenceGap /\ IsGap(x, f)}

Passes(x, f, t) == InOrder(x, f) /\ ~Drifted(x, f, t)

\* Mutated forms of Checked: every frame is counted; a replay resynchronises.
CheckedCountsAll(x, f, t) ==
  IF ~Advances(x, f) THEN [x EXCEPT !.events_received = @ + 1]
  ELSE [x EXCEPT !.last_seq = f.seq,
                 !.last_monotonic_ms = f.ts_monotonic_ms,
                 !.events_received = @ + 1]

\* The session after the check.  A gap and a drift resynchronise; a replay
\* and a rewound clock leave the position where it was.
Checked(x, f, t) ==
  IF ~Advances(x, f) THEN x
  ELSE [x EXCEPT !.last_seq = f.seq,
                 !.last_monotonic_ms = f.ts_monotonic_ms,
                 !.events_received = @ + 1,
                 !.first_client_ms =
                    IF IsFirst(x, f) THEN f.ts_monotonic_ms ELSE @,
                 !.first_server_ms = IF IsFirst(x, f) THEN t ELSE @]

---------------------------------------------------------------------------
(* record_breach and should_report_breach, in the order _raise_breach      *)
(* calls them.                                                             *)

Logged(log, b) ==
  IF Len(log) < MaxRecordedBreaches THEN Append(log, b)
  ELSE IF Len(log) = MaxRecordedBreaches THEN Append(log, Suppressed)
  ELSE log

Reportable(x, b, t) ==
  x.breach_last_ms[b] = None \/ t - x.breach_last_ms[b] >= BreachCooldown

\* Mutated form of Breached: counted only when reported.
BreachedIfReported(x, b, t) ==
  [x EXCEPT !.integrity_breaches = Logged(@, b),
            !.breach_counts[b] = IF Reportable(x, b, t) THEN @ + 1 ELSE @,
            !.breach_last_ms[b] = IF Reportable(x, b, t) THEN t ELSE @]

Breached(x, b, t) ==
  [x EXCEPT !.integrity_breaches = Logged(@, b),
            !.breach_counts[b] = @ + 1,
            !.breach_last_ms[b] = IF Reportable(x, b, t) THEN t ELSE @]

===========================================================================
