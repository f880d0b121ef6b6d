-------------------------- MODULE StretchedClock -------------------------
(***************************************************************************)
(* How much of a violation a client can hide by advancing its counter      *)
(* slower or faster than real time: Session.check (StreamIntegrity) in     *)
(* front of one rule (FusionRule), against the server's clock.  The        *)
(* composition is _handle_frame of src/python/proctor_gateway/app.py: the  *)
(* check flags the frame, and every frame but a replay goes on to the rule,*)
(* which is timed on the client's counter.                                 *)
(***************************************************************************)
EXTENDS FusionRule, StreamIntegrity

CONSTANTS
  MaxSeq,  \* bounds: highest sequence number,
  MaxClock \*         where the server clock stops

ASSUME StretchAssumption == MaxSeq \in Nat /\ MaxClock \in Nat \ {0}

VARIABLES
  session,  \* the Session
  receipts, \* history: when each sample came in, and whether it was flagged
  now       \* the server's clock

stretchvars == <<session, vars, receipts, now>>

Frame == [seq : 0..MaxSeq, ts_monotonic_ms : Clock, verdict : Verdict]

Receipt == [at : Nat, ms : Nat, passed : BOOLEAN]

StretchInit ==
  /\ session = NewSession
  /\ Init
  /\ receipts = <<>>
  /\ now = 1

\* The session after the check and the breach it reports.
SessionAfter(f) ==
  LET v == BreachesOf(session, f, now)
      x == Checked(session, f, now)
  IN IF v = {} THEN x ELSE Breached(x, CHOOSE b \in v : TRUE, now)

\* A frame that is not a replay reaches the rule, flagged or not.
Receive(f) ==
  /\ ~IsReplay(session, f)
  /\ session' = SessionAfter(f)
  /\ Observe([ms |-> f.ts_monotonic_ms, verdict |-> f.verdict])
  /\ receipts' = Append(receipts,
       [at |-> now, ms |-> f.ts_monotonic_ms,
        passed |-> Passes(session, f, now)])
  /\ UNCHANGED now

Elapse ==
  /\ now < MaxClock
  /\ now' = now + 1
  /\ UNCHANGED <<session, vars, receipts>>

StretchNext == (\E f \in Frame : Receive(f)) \/ Elapse

StretchSpec == StretchInit /\ [][StretchNext]_stretchvars

---------------------------------------------------------------------------
StretchTypeOK ==
  /\ session \in Session
  /\ TypeOK
  /\ receipts \in Seq(Receipt)
  /\ Len(receipts) = Len(samples)
  /\ now \in 1..MaxClock

Elapsed(i, j) == receipts[j].at - receipts[i].at

\* Any two frames the check passed were stamped with elapsed times that differ
\* from the server's by at most twice the tolerance: each is held to the first
\* frame of the session, not to the other.
PassedFramesAgree ==
  \A i, j \in DOMAIN receipts :
    receipts[i].passed /\ receipts[j].passed
      => Distance(receipts[j].ms - receipts[i].ms, Elapsed(i, j))
           =< 2 * SkewTolerance

\* The condition held, on frames the check passed, over this many milliseconds
\* of the server's clock before the last frame.
HeldFor(d) ==
  \E i \in DOMAIN receipts :
    /\ Elapsed(i, Len(receipts)) >= d
    /\ \A k \in i..Len(receipts) :
         receipts[k].passed /\ samples[k].verdict = Holds

\* The rule has answered: it is firing, or it fired within its cooldown.
Answered ==
  firing \/ ~CoolAt(samples[Len(samples)].ms)

\* No client hides more than twice the tolerance: a condition that holds for
\* Onset and twice the tolerance of real time, on frames that raise no breach,
\* is flagged.
StretchIsBounded == HeldFor(Onset + 2 * SkewTolerance) => Answered

===========================================================================
