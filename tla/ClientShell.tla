--------------------------- MODULE ClientShell ---------------------------
(***************************************************************************)
(* The exam shell of the client: the start and end of the session in the   *)
(* main process (src/apps/client/src/main/index.ts), the page that asks    *)
(* for consent, counts blocked actions and opens the camera                *)
(* (renderer/index.ts, consent.ts, lockdown.ts), and what the gateway's    *)
(* rule for exhausted warnings makes of the counts it is sent.             *)
(*                                                                         *)
(* Page and main process are two event loops; a step runs from one await   *)
(* to the next.  What the page asks of main travels in order.  Frames      *)
(* reach the gateway in the order they were emitted (TelemetryClient) and  *)
(* carry the time of it, so the model evaluates each when it is emitted.   *)
(* Electron is external: it loads the page while the session starts,       *)
(* rejects a call nobody handles, and reloads the page when asked to by    *)
(* its own menu.                                                           *)
(***************************************************************************)
EXTENDS Integers, SequencesExt

CONSTANTS
  Allowance,   \* DEFAULT_ALLOWANCE of the page
  MaxStrikes,  \* value of the condition of lockdown_strikes_exhausted
  Cooldown,    \* its cooldown_ms
  Courses,     \* bounds, alternatives: loads of the page, blocked actions,
               \* other frames of page and main, restarts of the gateway
  MaxAttempts, \* bound: blocked actions of any course
  MaxClock     \* bound: performance.now()

ASSUME ShellAssumption ==
  /\ {Allowance, MaxStrikes, Cooldown, MaxAttempts, MaxClock} \subseteq Nat
  /\ Courses \subseteq
       [loads : Nat, attempts : 0..MaxAttempts, reports : Nat, restarts : Nat]

VARIABLES
  (* the main process *)
  session,  \* "enrolling", "starting", "attesting", "serving", "ending", "over"
  inbox,    \* calls of the page, each with the load that made it
  (* the page *)
  load,     \* times it was loaded
  page,     \* "loading", "joining", "asking", "granting", "locked",
            \* "monitoring", "failed", "rejected", "closed"
  strike,   \* #strike of its StrikeCounter
  (* the wire *)
  stream,   \* frames emitted, in order
  candidate_since_ms, releasing_since_ms, firing, last_fired_ms,
  active_violation_id, raised, samples, \* of the rule
  (* the world *)
  now,
  left      \* what is left of the bounds

rule == <<candidate_since_ms, releasing_since_ms, firing, last_fired_ms,
          active_violation_id>>
gateway == <<rule, raised, samples>>
vars == <<session, inbox, load, page, strike, stream, gateway, now, left>>

\* onset_ms and release_ms of the rule are 0: a keystroke is discrete.
Rule == INSTANCE FusionRule
          WITH Onset <- 0, Release <- 0, Clock <- 0..MaxClock,
               MaxRewinds <- 0, MaxSamples <- MaxAttempts

Frame(kind, from, n) ==
  [kind |-> kind, load |-> from, strike |-> n, ms |-> IF kind = "lockdown" THEN now ELSE 0]
Call(kind, n) == [kind |-> kind, load |-> load, strike |-> n]

Kinds == {"session_start", "attestation", "exam_start", "session_end",
          "environment", "heartbeat", "observation", "lockdown"}

\* Every field but the rule's own, which it types itself.
TypeOK ==
  /\ session \in {"enrolling", "starting", "attesting", "serving", "ending", "over"}
  /\ page \in {"loading", "joining", "asking", "granting", "locked", "monitoring",
               "failed", "rejected", "closed"}
  /\ load \in Nat \ {0} /\ strike \in 0..MaxAttempts /\ now \in 0..MaxClock
  /\ stream \in Seq([kind : Kinds, load : Nat, strike : 0..MaxAttempts, ms : 0..MaxClock])
  /\ Rule!TypeOK

Init ==
  /\ session = "enrolling"
  /\ inbox = <<>>
  /\ load = 1 /\ page = "loading" /\ strike = 0
  /\ stream = <<>>
  /\ Rule!Init
  /\ now = 0
  /\ left \in Courses

Spends(bound) == left[bound] > 0 /\ left' = [left EXCEPT ![bound] = @ - 1]

\* The client emits frames until it is closed.
Emits(f) == stream' = Append(stream, f)
Emitting == session \in {"starting", "attesting", "serving", "ending"}

---------------------------------------------------------------------------
(* The main process.                                                       *)

\* startSession, from the answer to enrol() on.
Enrolled ==
  /\ session = "enrolling"
  /\ session' = "starting"
  /\ Emits(Frame("session_start", 0, 0))
  /\ UNCHANGED <<inbox, load, page, strike, gateway, now, left>>

\* ... or enrol() throws, and app.quit() finds nothing to end.
EnrolFails ==
  /\ session = "enrolling"
  /\ session' = "over" /\ page' = "closed"
  /\ UNCHANGED <<inbox, load, strike, stream, gateway, now, left>>

Attest ==
  /\ session = "starting"
  /\ session' = "attesting"
  /\ Emits(Frame("attestation", 0, 0))
  /\ UNCHANGED <<inbox, load, page, strike, gateway, now, left>>

\* The handlers of the page's calls are registered, the intervals started.
Serve ==
  /\ session = "attesting"
  /\ session' = "serving"
  /\ UNCHANGED <<inbox, load, page, strike, stream, gateway, now, left>>

\* reportEnvironmentNow on blur, focus and displays, and the interval.
Environment ==
  /\ Emitting /\ Spends("reports")
  /\ Emits(Frame("environment", 0, 0))
  /\ UNCHANGED <<session, inbox, load, page, strike, gateway, now>>

Heartbeat ==
  /\ session \in {"serving", "ending"} /\ Spends("reports")
  /\ Emits(Frame("heartbeat", 0, 0))
  /\ UNCHANGED <<session, inbox, load, page, strike, gateway, now>>

\* Whether main handles the page's calls.
Handles == session \in {"serving", "ending"}

\* The page a call was made by is still the one shown.
Shown(call) == call.load = load /\ page # "closed"

\* A call no handler is registered for rejects, and with it main() of the page.
Reject ==
  /\ inbox # <<>> /\ ~Handles
  /\ inbox' = Tail(inbox)
  /\ page' = IF Shown(Head(inbox)) THEN "rejected" ELSE page
  /\ UNCHANGED <<session, load, strike, stream, gateway, now, left>>

\* Mutated form of MediaJoin: it throws when the media plane is unreachable.
MediaJoinThrows ==
  /\ inbox # <<>> /\ Handles /\ Head(inbox).kind = "media-join"
  /\ inbox' = Tail(inbox)
  /\ page' \in IF Shown(Head(inbox)) THEN {"asking", "rejected"} ELSE {page}
  /\ UNCHANGED <<session, load, strike, stream, gateway, now, left>>

\* proctor:media-join.  Whatever the media plane answers, the page asks.
MediaJoin ==
  /\ inbox # <<>> /\ Handles /\ Head(inbox).kind = "media-join"
  /\ inbox' = Tail(inbox)
  /\ page' = IF Shown(Head(inbox)) THEN "asking" ELSE page
  /\ UNCHANGED <<session, load, strike, stream, gateway, now, left>>

\* proctor:consent, and after its POST, recorded or not, the rest of the
\* page's main() up to the camera: fullscreen if it may, and the lockdown.
Consent ==
  /\ inbox # <<>> /\ Handles /\ Head(inbox).kind = "consent"
  /\ inbox' = Tail(inbox)
  /\ Emits(Frame("exam_start", Head(inbox).load, 0))
  /\ UNCHANGED <<session, load, page, strike, gateway, now, left>>

\* proctor:observe, of what the models see.
Observe ==
  /\ inbox # <<>> /\ Handles /\ Head(inbox).kind = "observation"
  /\ inbox' = Tail(inbox)
  /\ Emits(Frame("observation", Head(inbox).load, 0))
  /\ UNCHANGED <<session, load, page, strike, gateway, now, left>>

\* Mutated form of Exhausted: one more.
ExhaustedLate(f) == f.strike > MaxStrikes + 1

\* The condition of the rule, on what the client reports.
Exhausted(f) == f.strike > MaxStrikes

\* ... and of a blocked action, which steps the rule.
ObserveLockdown ==
  /\ inbox # <<>> /\ Handles /\ Head(inbox).kind = "lockdown"
  /\ inbox' = Tail(inbox)
  /\ LET f == Frame("lockdown", Head(inbox).load, Head(inbox).strike) IN
     /\ Emits(f)
     /\ Rule!Observe([ms |-> f.ms, verdict |-> IF Exhausted(f) THEN Rule!Holds ELSE Rule!Fails])
  /\ UNCHANGED <<session, load, page, strike, now, left>>

\* before-quit: endSession, or nothing to end.
Quit ==
  /\ session \in {"enrolling", "starting", "attesting", "serving"}
  /\ IF Emitting
     THEN session' = "ending" /\ Emits(Frame("session_end", 0, 0)) /\ UNCHANGED page
     ELSE session' = "over" /\ page' = "closed" /\ UNCHANGED stream
  /\ UNCHANGED <<inbox, load, strike, gateway, now, left>>

\* close() is done: app.exit.
Exit ==
  /\ session = "ending"
  /\ session' = "over" /\ page' = "closed" /\ inbox' = <<>>
  /\ UNCHANGED <<load, strike, stream, gateway, now, left>>

---------------------------------------------------------------------------
(* The page.                                                               *)

\* main() of the page starts.
Loaded ==
  /\ page = "loading"
  /\ page' = "joining"
  /\ inbox' = Append(inbox, Call("media-join", 0))
  /\ UNCHANGED <<session, load, strike, stream, gateway, now, left>>

\* The candidate presses the button.
Accept ==
  /\ page = "asking"
  /\ page' = "granting"
  /\ inbox' = Append(inbox, Call("consent", 0))
  /\ UNCHANGED <<session, load, strike, stream, gateway, now, left>>

\* Mutated form of MayProceed: the page does not wait for main.
MayProceedAtOnce == page \in {"asking", "granting"}

\* grantConsent has returned: main has the consent on the stream.
MayProceed ==
  page = "granting" /\ \E f \in ToSet(stream) : f.kind = "exam_start" /\ f.load = load

\* ... and the page goes on, whatever became of the POST: lockdown.
Lock ==
  /\ MayProceed
  /\ page' = "locked"
  /\ UNCHANGED <<session, inbox, load, strike, stream, gateway, now, left>>

\* Camera and model, or a message that they are not available.
SetUp(works) ==
  /\ page = "locked"
  /\ page' = IF works THEN "monitoring" ELSE "failed"
  /\ UNCHANGED <<session, inbox, load, strike, stream, gateway, now, left>>

\* report, reportObjects, reportQuality
Report ==
  /\ page = "monitoring" /\ Spends("reports")
  /\ inbox' = Append(inbox, Call("observation", 0))
  /\ UNCHANGED <<session, load, page, strike, stream, gateway, now>>

\* A blocked key or click: StrikeCounter.record.
Attempt ==
  /\ page \in {"locked", "monitoring", "failed"} /\ Spends("attempts")
  /\ strike' = strike + 1
  /\ inbox' = Append(inbox, Call("lockdown", strike'))
  /\ UNCHANGED <<session, load, page, stream, gateway, now>>

\* The page is loaded again, with a counter of its own.
Reload ==
  /\ page # "closed" /\ Spends("loads")
  /\ load' = load + 1 /\ page' = "loading" /\ strike' = 0
  /\ UNCHANGED <<session, inbox, stream, gateway, now>>

\* The window is closed and the application stays, as it does on macOS;
\* elsewhere Quit follows.
CloseWindow ==
  /\ page # "closed"
  /\ page' = "closed"
  /\ UNCHANGED <<session, inbox, load, strike, stream, gateway, now, left>>

---------------------------------------------------------------------------
(* The gateway.                                                            *)

\* The rule starts afresh; what it raised is stored.
GatewayRestart ==
  /\ Spends("restarts")
  /\ candidate_since_ms' = Rule!NotSet /\ releasing_since_ms' = Rule!NotSet
  /\ firing' = FALSE /\ last_fired_ms' = Rule!NotSet /\ active_violation_id' = 0
  /\ UNCHANGED <<session, inbox, load, page, strike, stream, raised, samples, now>>

Elapse ==
  /\ now < MaxClock
  /\ now' = now + 1
  /\ UNCHANGED <<session, inbox, load, page, strike, stream, gateway, left>>

Next ==
  \/ Enrolled \/ EnrolFails \/ Attest \/ Serve \/ Environment \/ Heartbeat
  \/ Reject \/ MediaJoin \/ Consent \/ Observe \/ ObserveLockdown \/ Quit \/ Exit
  \/ Loaded \/ Accept \/ Lock \/ (\E works \in BOOLEAN : SetUp(works)) \/ Report \/ Attempt
  \/ Reload \/ CloseWindow \/ GatewayRestart \/ Elapse

\* Both event loops run what is ready, and a call to the gateway ends, in an
\* answer or by the timeout of fetch.  The rest is up to people.
Fairness ==
  /\ WF_vars(Attest) /\ WF_vars(Serve)
  /\ WF_vars(Reject) /\ WF_vars(MediaJoin) /\ WF_vars(Consent) /\ WF_vars(Observe) /\ WF_vars(ObserveLockdown)
  /\ WF_vars(Loaded) /\ WF_vars(Lock) /\ WF_vars(\E works \in BOOLEAN : SetUp(works))

Spec == Init /\ [][Next]_vars /\ Fairness

---------------------------------------------------------------------------
(* Properties.                                                             *)

\* "Nothing is captured before the candidate accepts" (ARCHITECTURE.md
\* 5.7.1): the page locks the keyboard and opens the camera, and the stream
\* carries what it saw, only after the consent given to that very page, and
\* a page loaded again must ask again.  What main watches by itself, the
\* environment, does not wait.
ConsentBeforeCapture ==
  LET Consented(from, n) ==
        \E i \in 1..n : stream[i].kind = "exam_start" /\ stream[i].load = from
  IN
  /\ \A n \in DOMAIN stream :
       stream[n].kind \in {"observation", "lockdown"} => Consented(stream[n].load, n - 1)
  /\ page \in {"locked", "monitoring", "failed"} => Consented(load, Len(stream))

\* Where the stream carries a blocked action.
Blocked == {n \in DOMAIN stream : stream[n].kind = "lockdown"}

\* "You have used all 3 warnings. Further attempts are recorded and will be
\* reviewed by a person" (lockdown.ts): an attempt of a page that has used
\* up its warnings finds a flag raised that is not resolved before it, or
\* less than a cooldown ago; and no attempt is flagged that was not preceded
\* by every warning, given by the same page.  Whatever page, network and
\* gateway are restarted in between.
WarnedThenFlagged ==
  LET Warnings(n) ==
        Cardinality({i \in Blocked : i < n /\ stream[i].load = stream[n].load})
      Resolved(v) == \E w \in ToSet(raised) : w.resolved /\ w.id = v.id
  IN
  /\ \A n \in Blocked :
       (\A i \in Blocked : i =< n) /\ stream[n].strike > Allowance =>
         \E v \in ToSet(raised) :
           /\ ~v.resolved
           /\ ~Resolved(v) \/ stream[n].ms - v.fired_at_ms < Cooldown
  /\ \A v \in ToSet(raised) : ~v.resolved =>
       \E n \in Blocked : stream[n].ms = v.fired_at_ms /\ Warnings(n) >= Allowance

\* Once main listens, a page that has not asked it yet gets to show the
\* dialog whatever the media plane answers, and whatever becomes of recording
\* the consent a page that has it leads to the camera, or to a message in its
\* place; unless it is loaded again, closed or the session ends.
StartsOrSaysSo ==
  LET Ended == session # "serving" \/ page = "closed" IN
  \A n \in 1..(1 + Max({c.loads : c \in Courses})) :
    /\ session = "serving" /\ load = n /\ page \in {"loading", "joining"}
         ~> page = "asking" \/ load # n \/ Ended
    /\ session = "serving" /\ load = n /\ page = "granting"
         ~> page \in {"monitoring", "failed"} \/ load # n \/ Ended

============================================================================
