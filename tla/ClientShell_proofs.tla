------------------------ MODULE ClientShell_proofs ------------------------
(***************************************************************************)
(* Proofs about ClientShell, for any number of loads of the page, blocked  *)
(* actions and other frames: nothing of a page is observed before the      *)
(* consent that was given to that very load of it, and no attempt is       *)
(* flagged before the last warning nor left unflagged after it.            *)
(***************************************************************************)
EXTENDS ClientShell, SequenceTheorems, FiniteSetTheorems, TLAPS

\* The assumptions on the bounds, one by one.
LEMMA Constants ==
  /\ {Allowance, MaxStrikes, Cooldown, MaxAttempts, MaxClock} \subseteq Nat
  /\ \A c \in Courses :
       c \in [loads : Nat, attempts : Nat, reports : Nat, restarts : Nat]
<1>1. MaxAttempts \in Nat /\ 0..MaxAttempts \subseteq Nat
  BY ShellAssumption DEF ShellAssumption
<1> QED BY <1>1, ShellAssumption DEF ShellAssumption

---------------------------------------------------------------------------
(* The invariant                                                           *)

Frames == [kind : Kinds, load : Nat, strike : Nat, ms : Nat]
Calls ==
  [kind : {"media-join", "consent", "observation", "lockdown"}, load : Nat, strike : Nat]

Watching == {"locked", "monitoring", "failed"}
Capture == {"observation", "lockdown"}

\* The candidate's consent to this load of the page is on the stream, among
\* its first n frames.
ConsentedBy(n, from) ==
  \E i \in 1..n : stream[i].kind = "exam_start" /\ stream[i].load = from

Consented(from) == ConsentedBy(Len(stream), from)

Typed ==
  /\ inbox \in Seq(Calls)
  /\ stream \in Seq(Frames)
  /\ load \in Nat /\ strike \in Nat /\ now \in Nat

\* What the stream says of a page has that page's consent before it.
CapturesFollowConsent ==
  \A n \in 1..Len(stream) :
    stream[n].kind \in Capture => ConsentedBy(n - 1, stream[n].load)

\* What makes that inductive: the same of what a page has reported and main
\* has not handled yet, of pages that were reloaded since as well, and of the
\* page that is shown.
CallsFollowConsent ==
  \A i \in 1..Len(inbox) : inbox[i].kind \in Capture => Consented(inbox[i].load)

PageFollowsConsent == page \in Watching => Consented(load)

IInv == Typed /\ CapturesFollowConsent /\ CallsFollowConsent /\ PageFollowsConsent

\* The invariant says what the property does.
LEMMA InvariantImplies == IInv => ConsentBeforeCapture
BY LenProperties
   DEF IInv, Typed, CapturesFollowConsent, PageFollowsConsent, Consented, ConsentedBy,
       ConsentBeforeCapture, Watching, Capture

---------------------------------------------------------------------------
(* Frames and calls                                                        *)

\* A frame on the stream takes no consent away, and one that captures nothing,
\* or has its consent, keeps the stream in order.
LEMMA EmitsKeeps ==
  ASSUME Typed, CapturesFollowConsent, NEW f \in Frames, Emits(f),
         f.kind \in Capture => Consented(f.load)
  PROVE  /\ stream' \in Seq(Frames)
         /\ CapturesFollowConsent'
         /\ \A from : Consented(from) => Consented(from)'
         /\ f.kind = "exam_start" => Consented(f.load)'
<1>1. PICK n \in Nat : n = Len(stream)
  BY LenProperties DEF Typed
<1>2. /\ stream' \in Seq(Frames) /\ Len(stream') = n + 1
      /\ stream'[n + 1] = f /\ \A i \in 1..n : stream'[i] = stream[i]
  BY <1>1, AppendProperties DEF Emits, Typed
<1>3. ASSUME NEW m \in 0..n, NEW from, ConsentedBy(m, from)
      PROVE  ConsentedBy(m, from)'
  <2>1. PICK i \in 1..m : stream[i].kind = "exam_start" /\ stream[i].load = from
    BY <1>3 DEF ConsentedBy
  <2>2. i \in 1..n /\ i \in 1..m
    BY <1>1, <1>3, <2>1
  <2>3. stream'[i].kind = "exam_start" /\ stream'[i].load = from
    BY <1>2, <2>1, <2>2
  <2> QED BY <2>2, <2>3 DEF ConsentedBy
<1>4. ASSUME NEW from, Consented(from) PROVE ConsentedBy(n, from)' /\ Consented(from)'
  <2>1. ConsentedBy(n, from)'
    BY <1>1, <1>3, <1>4 DEF Consented
  <2>2. 1..n \subseteq 1..(n + 1)
    BY <1>1
  <2> QED BY <1>2, <2>1, <2>2 DEF Consented, ConsentedBy
<1>5. ASSUME f.kind = "exam_start" PROVE Consented(f.load)'
  <2>1. n + 1 \in 1..(n + 1)
    BY <1>1
  <2> QED BY <1>2, <1>5, <2>1 DEF Consented, ConsentedBy
<1>6. ASSUME NEW m \in 1..(n + 1), stream'[m].kind \in Capture
      PROVE  ConsentedBy(m - 1, stream[m].load)'
  <2>1. CASE m \in 1..n
    <3>1. stream'[m] = stream[m] /\ m \in 1..Len(stream) /\ m - 1 \in 0..n
      BY <1>1, <1>2, <2>1
    <3>2. ConsentedBy(m - 1, stream[m].load)
      BY <1>6, <3>1 DEF CapturesFollowConsent
    <3>3. PICK from : from = stream[m].load
      OBVIOUS
    <3>4. ConsentedBy(m - 1, from)'
      BY <1>3, <3>1, <3>2, <3>3
    <3> QED BY <3>1, <3>3, <3>4 DEF ConsentedBy
  <2>2. CASE m = n + 1
    <3>1. stream'[m] = f /\ m - 1 = n
      BY <1>1, <1>2, <2>2
    <3>2. ConsentedBy(n, f.load)'
      BY <1>4, <1>6, <3>1
    <3> QED BY <3>1, <3>2 DEF ConsentedBy
  <2> QED BY <1>1, <1>6, <2>1, <2>2
<1>7. CapturesFollowConsent'
  BY <1>2, <1>6 DEF CapturesFollowConsent
<1> QED BY <1>2, <1>4, <1>5, <1>7

\* A frame of main is a frame, whoever's it is.
LEMMA FrameType ==
  ASSUME Typed, NEW kind \in Kinds, NEW from \in Nat, NEW n \in Nat
  PROVE  /\ Frame(kind, from, n) \in Frames
         /\ Frame(kind, from, n).kind = kind /\ Frame(kind, from, n).load = from
BY DEF Frame, Frames, Typed

\* A call that is taken out of the queue had its consent if it needs one, and
\* leaves the others as they were.
LEMMA HandledKeeps ==
  ASSUME Typed, CallsFollowConsent, inbox # <<>>, inbox' = Tail(inbox),
         \A from : Consented(from) => Consented(from)'
  PROVE  /\ inbox' \in Seq(Calls) /\ CallsFollowConsent'
         /\ Head(inbox) \in Calls
         /\ Head(inbox).kind \in Capture => Consented(Head(inbox).load)
<1>1. PICK n \in Nat : n = Len(inbox)
  BY LenProperties DEF Typed
<1>2. /\ inbox' \in Seq(Calls) /\ Len(inbox') = n - 1
      /\ \A i \in 1..(n - 1) : inbox'[i] = inbox[i + 1]
      /\ 1 \in 1..n /\ Head(inbox) = inbox[1] /\ Head(inbox) \in Calls
  BY <1>1, HeadTailProperties, EmptySeq DEF Typed
<1>3. Head(inbox).kind \in Capture => Consented(Head(inbox).load)
  BY <1>1, <1>2 DEF CallsFollowConsent
<1>4. ASSUME NEW i \in 1..(n - 1), inbox'[i].kind \in Capture
      PROVE  Consented(inbox[i].load)'
  <2>1. inbox'[i] = inbox[i + 1] /\ i + 1 \in 1..n
    BY <1>1, <1>2
  <2>2. PICK from : from = inbox[i + 1].load
    OBVIOUS
  <2>3. Consented(from)'
    BY <1>1, <1>4, <2>1, <2>2 DEF CallsFollowConsent
  <2> QED BY <2>1, <2>2, <2>3 DEF Consented, ConsentedBy
<1>5. CallsFollowConsent'
  BY <1>2, <1>4 DEF CallsFollowConsent
<1> QED BY <1>2, <1>3, <1>5

\* A call that is put into the queue with its consent, if it needs one.
LEMMA AskedKeeps ==
  ASSUME Typed, CallsFollowConsent, NEW c \in Calls, inbox' = Append(inbox, c),
         UNCHANGED stream, c.kind \in Capture => Consented(c.load)
  PROVE  inbox' \in Seq(Calls) /\ CallsFollowConsent'
<1>1. PICK n \in Nat : n = Len(inbox)
  BY LenProperties DEF Typed
<1>2. /\ inbox' \in Seq(Calls) /\ Len(inbox') = n + 1
      /\ inbox'[n + 1] = c /\ \A i \in 1..n : inbox'[i] = inbox[i]
  BY <1>1, AppendProperties DEF Typed
<1>3. ASSUME NEW i \in 1..(n + 1), inbox'[i].kind \in Capture
      PROVE  Consented(inbox[i].load)'
  <2>1. CASE i \in 1..n
    BY <1>1, <1>2, <1>3, <2>1 DEF CallsFollowConsent, Consented, ConsentedBy
  <2>2. CASE i = n + 1
    BY <1>2, <1>3, <2>2 DEF Consented, ConsentedBy
  <2> QED BY <1>1, <1>3, <2>1, <2>2
<1> QED BY <1>2, <1>3 DEF CallsFollowConsent

\* The calls wait while consent is only added.
LEMMA WaitingKeeps ==
  ASSUME CallsFollowConsent, UNCHANGED inbox,
         \A from : Consented(from) => Consented(from)'
  PROVE  CallsFollowConsent'
<1> SUFFICES ASSUME NEW i \in 1..Len(inbox), inbox[i].kind \in Capture
             PROVE  Consented(inbox[i].load)'
  BY DEF CallsFollowConsent
<1>1. PICK from : from = inbox[i].load
  OBVIOUS
<1>2. Consented(from)'
  BY <1>1 DEF CallsFollowConsent
<1> QED BY <1>1, <1>2 DEF Consented, ConsentedBy

---------------------------------------------------------------------------
(* The steps                                                               *)

\* The shell starts in the invariant: there is nothing to see.
LEMMA InitInv == Init => IInv
<1> SUFFICES ASSUME Init PROVE IInv
  OBVIOUS
<1>1. /\ inbox = <<>> /\ stream = <<>> /\ page = "loading"
      /\ load = 1 /\ strike = 0 /\ now = 0
  BY DEF Init
<1>2. Len(inbox) = 0 /\ Len(stream) = 0 /\ 1..0 = {}
  BY <1>1
<1> QED BY <1>1, <1>2 DEF IInv, Typed, CapturesFollowConsent, CallsFollowConsent,
                          PageFollowsConsent, Watching

\* Main reports something of its own: the start, the environment, a heartbeat,
\* the end.
LEMMA MainEmits ==
  ASSUME IInv, NEW kind \in Kinds \ Capture, Emits(Frame(kind, 0, 0)),
         UNCHANGED <<inbox, load, strike, now>>,
         page' \in Watching => UNCHANGED page
  PROVE  IInv'
<1>1. PICK f \in Frames : f = Frame(kind, 0, 0) /\ f.kind = kind
  BY FrameType DEF IInv
<1>2. /\ stream' \in Seq(Frames) /\ CapturesFollowConsent'
      /\ \A from : Consented(from) => Consented(from)'
  BY <1>1, EmitsKeeps DEF IInv
<1>3. CallsFollowConsent'
  BY <1>2, WaitingKeeps DEF IInv
<1>4. PageFollowsConsent'
  BY <1>2 DEF IInv, PageFollowsConsent, Consented, ConsentedBy
<1> QED BY <1>2, <1>3, <1>4 DEF IInv, Typed

\* Main handles a call of the page that it puts on the stream: a consent, an
\* observation, a blocked action.
LEMMA MainHandles ==
  ASSUME IInv, inbox # <<>>, inbox' = Tail(inbox),
         NEW kind \in Kinds, NEW n \in Nat,
         Emits(Frame(kind, Head(inbox).load, n)),
         kind \in Capture => Head(inbox).kind \in Capture,
         UNCHANGED <<load, page, strike, now>>
  PROVE  IInv'
<1>1. PICK c \in Calls : c = Head(inbox)
  BY HeadTailProperties, EmptySeq DEF IInv, Typed
<1>2. PICK f \in Frames : f = Frame(kind, c.load, n) /\ f.kind = kind /\ f.load = c.load
  BY <1>1, FrameType DEF IInv, Calls
<1>3. c.kind \in Capture => Consented(c.load)
  <2>1. 1 \in 1..Len(inbox) /\ c = inbox[1]
    BY <1>1, HeadTailProperties, LenProperties, EmptySeq DEF IInv, Typed
  <2> QED BY <2>1 DEF IInv, CallsFollowConsent
<1>4. /\ stream' \in Seq(Frames) /\ CapturesFollowConsent'
      /\ \A from : Consented(from) => Consented(from)'
  BY <1>1, <1>2, <1>3, EmitsKeeps DEF IInv
<1>5. inbox' \in Seq(Calls) /\ CallsFollowConsent'
  BY <1>4, HandledKeeps DEF IInv
<1>6. PageFollowsConsent'
  BY <1>4 DEF IInv, PageFollowsConsent, Consented, ConsentedBy
<1> QED BY <1>4, <1>5, <1>6 DEF IInv, Typed

\* The page goes on without anything new on the stream: to a place where
\* nothing is captured, or with the consent that is there.
LEMMA PageMoves ==
  ASSUME IInv, UNCHANGED stream, inbox' \in Seq(Calls), CallsFollowConsent',
         load' \in Nat, strike' \in Nat, now' \in Nat,
         page' \in Watching => load' = load /\ Consented(load)
  PROVE  IInv'
<1>1. Typed' /\ CapturesFollowConsent'
  BY DEF IInv, Typed, CapturesFollowConsent, ConsentedBy
<1>2. PageFollowsConsent'
  BY DEF PageFollowsConsent, Consented, ConsentedBy
<1> QED BY <1>1, <1>2 DEF IInv

\* Every step of the shell preserves the invariant.
LEMMA StepInv == IInv /\ [Next]_vars => IInv'
<1> SUFFICES ASSUME IInv, [Next]_vars PROVE IInv'
  OBVIOUS
<1>0. /\ Typed /\ CallsFollowConsent /\ inbox \in Seq(Calls)
      /\ load \in Nat /\ strike \in Nat /\ now \in Nat
      /\ page \in Watching => Consented(load)
  BY DEF IInv, Typed, PageFollowsConsent
<1>a. UNCHANGED stream => \A from : Consented(from) => Consented(from)'
  BY DEF Consented, ConsentedBy
<1>b. UNCHANGED <<stream, inbox>> => CallsFollowConsent'
  BY <1>0 DEF CallsFollowConsent, Consented, ConsentedBy
<1>1. CASE Enrolled \/ Attest \/ Environment \/ Heartbeat
  BY <1>1, MainEmits DEF Enrolled, Attest, Environment, Heartbeat, Kinds, Capture
<1>2. CASE Quit
  <2>1. CASE Emitting
    BY <1>2, <2>1, MainEmits DEF Quit, Kinds, Capture
  <2>2. CASE ~Emitting
    BY <1>0, <1>b, <1>2, <2>2, PageMoves DEF Quit, Watching
  <2> QED BY <2>1, <2>2
<1>3. CASE Reject \/ MediaJoin
  <2>1. /\ inbox # <<>> /\ inbox' = Tail(inbox) /\ UNCHANGED <<load, strike, stream, now>>
        /\ page' \in {page, "rejected", "asking"}
    BY <1>3 DEF Reject, MediaJoin
  <2>2. inbox' \in Seq(Calls) /\ CallsFollowConsent'
    BY <1>0, <1>a, <2>1, HandledKeeps
  <2>3. page' \in Watching => load' = load /\ Consented(load)
    BY <1>0, <2>1 DEF Watching
  <2> QED BY <1>0, <2>1, <2>2, <2>3, PageMoves
<1>4. CASE Consent
  BY <1>4, MainHandles DEF Consent, Kinds, Capture
<1>5. CASE Observe
  BY <1>5, MainHandles DEF Observe, Kinds, Capture
<1>6. CASE ObserveLockdown
  <2>1. Head(inbox) \in Calls
    BY <1>0, <1>6, HeadTailProperties, EmptySeq DEF ObserveLockdown
  <2>2. Head(inbox).strike \in Nat
    BY <2>1 DEF Calls
  <2> QED BY <1>6, <2>2, MainHandles DEF ObserveLockdown, Kinds, Capture
<1>7. CASE Loaded \/ Accept
  <2>1. PICK c \in Calls : c.kind \notin Capture /\ inbox' = Append(inbox, c)
    BY <1>0, <1>7 DEF Loaded, Accept, Call, Calls, Capture
  <2>2. /\ UNCHANGED <<load, strike, stream, now>> /\ page' \notin Watching
    BY <1>7 DEF Loaded, Accept, Watching
  <2>3. inbox' \in Seq(Calls) /\ CallsFollowConsent'
    BY <1>0, <2>1, <2>2, AskedKeeps
  <2> QED BY <1>0, <2>2, <2>3, PageMoves
<1>8. CASE Lock
  <2>1. Consented(load)
    BY <1>0, <1>8 DEF Lock, MayProceed, ToSet, Consented, ConsentedBy, Typed
  <2> QED BY <1>0, <1>b, <1>8, <2>1, PageMoves DEF Lock
<1>9. ASSUME NEW works \in BOOLEAN, SetUp(works) PROVE IInv'
  BY <1>0, <1>b, <1>9, PageMoves DEF SetUp, Watching
<1>10. CASE Report \/ Attempt
  <2>1. /\ page \in Watching /\ UNCHANGED <<load, page, stream, now>> /\ strike' \in Nat
    BY <1>0, <1>10 DEF Report, Attempt, Watching
  <2>2. PICK c \in Calls : c.load = load /\ inbox' = Append(inbox, c)
    BY <1>0, <1>10, <2>1 DEF Report, Attempt, Call, Calls
  <2>3. inbox' \in Seq(Calls) /\ CallsFollowConsent'
    BY <1>0, <2>1, <2>2, AskedKeeps
  <2> QED BY <1>0, <2>1, <2>3, PageMoves
<1>11. CASE Reload
  BY <1>0, <1>b, <1>11, PageMoves DEF Reload, Watching
<1>12. CASE CloseWindow \/ EnrolFails
  BY <1>0, <1>b, <1>12, PageMoves DEF CloseWindow, EnrolFails, Watching
<1>13. CASE Exit
  <2>1. inbox' \in Seq(Calls) /\ CallsFollowConsent'
    BY <1>13, EmptySeq DEF Exit, CallsFollowConsent
  <2> QED BY <1>0, <1>13, <2>1, PageMoves DEF Exit, Watching
<1>14. CASE Serve \/ GatewayRestart \/ Elapse
  BY <1>0, <1>b, <1>14, PageMoves DEF Serve, GatewayRestart, Elapse
<1>15. CASE UNCHANGED vars
  BY <1>0, <1>b, <1>15, PageMoves DEF vars
<1> QED BY <1>1, <1>2, <1>3, <1>4, <1>5, <1>6, <1>7, <1>8, <1>9, <1>10, <1>11, <1>12,
           <1>13, <1>14, <1>15 DEF Next

---------------------------------------------------------------------------
(* The theorem                                                             *)

\* The page locks the keyboard, opens the camera and reports what it sees only
\* after the consent given to that very load of it has reached the stream, and
\* what is on the stream of a page comes after that page's consent: reloads,
\* calls still under way when the page is gone, a quit at any point and a
\* restart of the gateway included.
THEOREM NothingBeforeConsent == Spec => []ConsentBeforeCapture
BY InitInv, StepInv, InvariantImplies, PTL DEF Spec

---------------------------------------------------------------------------
(* The count of blocked actions                                            *)

\* A blocked action of this load of the page under this number: among the
\* first n frames of the stream, among the first i calls under way.
Sent(n, from, j) ==
  \E m \in 1..n : /\ stream[m].kind = "lockdown"
                  /\ stream[m].load = from /\ stream[m].strike = j

Asked(i, from, j) ==
  \E m \in 1..i : /\ inbox[m].kind = "lockdown"
                  /\ inbox[m].load = from /\ inbox[m].strike = j

Counted(from, j) == Sent(Len(stream), from, j) \/ Asked(Len(inbox), from, j)

\* Whatever number an action has, the actions with the smaller ones went
\* before it: on the stream, on the way to main, and in the page's counter.
CountsOnStream ==
  \A n \in 1..Len(stream) : stream[n].kind = "lockdown" =>
    \A j \in 1..(stream[n].strike - 1) : Sent(n - 1, stream[n].load, j)

CountsUnderWay ==
  \A i \in 1..Len(inbox) : inbox[i].kind = "lockdown" =>
    \A j \in 1..(inbox[i].strike - 1) :
      Sent(Len(stream), inbox[i].load, j) \/ Asked(i - 1, inbox[i].load, j)

PageCounts == page # "closed" => \A j \in 1..strike : Counted(load, j)

\* Main refuses no blocked action: it takes calls before the first consent is
\* on the stream, and the page is gone before it stops.
RefusesNone ==
  /\ session \in {"enrolling", "starting", "attesting", "serving", "ending", "over"}
  /\ session \in {"enrolling", "starting", "attesting"} =>
       \A n \in 1..Len(stream) : stream[n].kind # "exam_start"
  /\ ~Handles => \A i \in 1..Len(inbox) : inbox[i].kind \notin Capture
  /\ session = "over" => page = "closed"

CountInv == IInv /\ CountsOnStream /\ CountsUnderWay /\ PageCounts /\ RefusesNone

---------------------------------------------------------------------------
(* What the rule has raised                                                *)

Answers(v, at) ==
  /\ ~raised[v].resolved
  /\ \/ \A w \in 1..Len(raised) : raised[w].resolved => raised[w].id # raised[v].id
     \/ at - raised[v].fired_at_ms < Cooldown

\* The rule's fields are times that have passed and numbers that were given
\* out; while it fires, its flag is open, and the cooldown it remembers is that
\* of a flag.
RuleTyped ==
  /\ raised \in Seq(Rule!Violation)
  /\ \A v \in 1..Len(raised) : raised[v].id \in 0..Len(raised)
  /\ candidate_since_ms \in Int /\ candidate_since_ms =< now
  /\ releasing_since_ms \in Int /\ last_fired_ms \in Int
  /\ active_violation_id \in 0..Len(raised)

FiringIsOpen ==
  firing => \E v \in 1..Len(raised) :
              /\ ~raised[v].resolved /\ raised[v].id = active_violation_id
              /\ \A w \in 1..Len(raised) :
                   raised[w].resolved => raised[w].id # active_violation_id

CooldownIsOfAFlag ==
  last_fired_ms # Rule!NotSet => \E v \in 1..Len(raised) :
    ~raised[v].resolved /\ raised[v].fired_at_ms = last_fired_ms

RuleInv == RuleTyped /\ FiringIsOpen /\ CooldownIsOfAFlag

IsLast(n) == \A i \in 1..Len(stream) : stream[i].kind = "lockdown" => i =< n

LastIsAnswered ==
  \A n \in 1..Len(stream) :
    stream[n].kind = "lockdown" /\ IsLast(n) /\ stream[n].strike > Allowance =>
      \E v \in 1..Len(raised) : Answers(v, stream[n].ms)

FlagsWereWarned ==
  \A v \in 1..Len(raised) : ~raised[v].resolved =>
    \E n \in 1..Len(stream) :
      /\ stream[n].kind = "lockdown" /\ stream[n].ms = raised[v].fired_at_ms
      /\ \A j \in 1..Allowance : Sent(n - 1, stream[n].load, j)

WarnInv == CountInv /\ RuleInv /\ LastIsAnswered /\ FlagsWereWarned

---------------------------------------------------------------------------
(* Steps and the count                                                     *)

\* A frame keeps what was counted on the stream, and counts if it is a blocked
\* action whose predecessors are there.
LEMMA EmitsCounts ==
  ASSUME Typed, CountsOnStream, NEW f \in Frames, Emits(f),
         f.kind = "lockdown" =>
           \A j \in 1..(f.strike - 1) : Sent(Len(stream), f.load, j)
  PROVE  /\ CountsOnStream'
         /\ \A from, j : Sent(Len(stream), from, j) => Sent(Len(stream), from, j)'
         /\ f.kind = "lockdown" => Sent(Len(stream), f.load, f.strike)'
<1>1. PICK n \in Nat : n = Len(stream)
  BY LenProperties DEF Typed
<1>2. /\ stream' \in Seq(Frames) /\ Len(stream') = n + 1
      /\ stream'[n + 1] = f /\ \A i \in 1..n : stream'[i] = stream[i]
  BY <1>1, AppendProperties DEF Emits, Typed
<1>3. ASSUME NEW m \in 0..n, NEW from, NEW j, Sent(m, from, j)
      PROVE  Sent(m, from, j)'
  <2>1. PICK i \in 1..m : /\ stream[i].kind = "lockdown"
                          /\ stream[i].load = from /\ stream[i].strike = j
    BY <1>3 DEF Sent
  <2>2. stream'[i] = stream[i]
    BY <1>1, <1>2
  <2> QED BY <2>1, <2>2 DEF Sent
<1>4. ASSUME NEW from, NEW j, Sent(n, from, j)
      PROVE  Sent(n, from, j)' /\ Sent(Len(stream), from, j)'
  <2>1. Sent(n, from, j)'
    BY <1>1, <1>3, <1>4
  <2>2. 1..n \subseteq 1..(n + 1)
    BY <1>1
  <2> QED BY <1>2, <2>1, <2>2 DEF Sent
<1>5. f.kind = "lockdown" => Sent(Len(stream), f.load, f.strike)'
  <2>1. n + 1 \in 1..(n + 1)
    BY <1>1
  <2> QED BY <1>2, <2>1 DEF Sent
<1>6. ASSUME NEW m \in 1..(n + 1), stream'[m].kind = "lockdown",
             NEW j \in 1..(stream'[m].strike - 1)
      PROVE  Sent(m - 1, stream[m].load, j)'
  <2>1. CASE m \in 1..n
    <3>1. stream'[m] = stream[m] /\ m \in 1..Len(stream) /\ m - 1 \in 0..n
      BY <1>1, <1>2, <2>1
    <3>2. Sent(m - 1, stream[m].load, j)
      BY <1>6, <3>1 DEF CountsOnStream
    <3>3. PICK from : from = stream[m].load
      OBVIOUS
    <3>4. Sent(m - 1, from, j)'
      BY <1>3, <3>1, <3>2, <3>3
    <3> QED BY <3>1, <3>3, <3>4 DEF Sent
  <2>2. CASE m = n + 1
    <3>1. stream'[m] = f /\ m - 1 = n
      BY <1>1, <1>2, <2>2
    <3>2. Sent(n, f.load, j)'
      BY <1>1, <1>4, <1>6, <3>1
    <3> QED BY <3>1, <3>2 DEF Sent
  <2> QED BY <1>1, <1>6, <2>1, <2>2
<1>7. CountsOnStream'
  BY <1>2, <1>6 DEF CountsOnStream
<1> QED BY <1>1, <1>4, <1>5, <1>7

\* A call that main takes out of the queue: it is no blocked action, or it is
\* on the stream now.
LEMMA HandledCounts ==
  ASSUME Typed, CountsUnderWay, inbox # <<>>, inbox' = Tail(inbox),
         \A from, j : Sent(Len(stream), from, j) => Sent(Len(stream), from, j)',
         \A from, j : /\ Head(inbox).kind = "lockdown"
                      /\ Head(inbox).load = from /\ Head(inbox).strike = j
                      => Sent(Len(stream), from, j)'
  PROVE  /\ CountsUnderWay'
         /\ \A from, j : Counted(from, j) => Counted(from, j)'
<1>1. PICK n \in Nat : n = Len(inbox)
  BY LenProperties DEF Typed
<1>2. /\ Len(inbox') = n - 1 /\ n > 0
      /\ \A i \in 1..(n - 1) : inbox'[i] = inbox[i + 1]
      /\ Head(inbox) = inbox[1]
  BY <1>1, HeadTailProperties, EmptySeq DEF Typed
<1>3. ASSUME NEW i \in 1..n, NEW from, NEW j, Asked(i, from, j)
      PROVE  Sent(Len(stream), from, j)' \/ Asked(i - 1, from, j)'
  <2>1. PICK m \in 1..i : /\ inbox[m].kind = "lockdown"
                          /\ inbox[m].load = from /\ inbox[m].strike = j
    BY <1>3 DEF Asked
  <2>2. CASE m = 1
    BY <1>2, <2>1, <2>2
  <2>3. CASE m # 1
    <3>1. m - 1 \in 1..(i - 1) /\ inbox'[m - 1] = inbox[m]
      BY <1>1, <1>2, <2>3
    <3> QED BY <2>1, <3>1 DEF Asked
  <2> QED BY <2>2, <2>3
<1>4. ASSUME NEW i \in 1..(n - 1), inbox'[i].kind = "lockdown",
             NEW j \in 1..(inbox'[i].strike - 1)
      PROVE  (Sent(Len(stream), inbox[i].load, j) \/ Asked(i - 1, inbox[i].load, j))'
  <2>1. inbox'[i] = inbox[i + 1] /\ i + 1 \in 1..n /\ (i + 1) - 1 = i /\ i \in 1..n
    BY <1>1, <1>2
  <2>2. PICK from : from = inbox[i + 1].load
    OBVIOUS
  <2>3. Sent(Len(stream), from, j) \/ Asked(i, from, j)
    BY <1>1, <1>4, <2>1, <2>2 DEF CountsUnderWay
  <2>4. Sent(Len(stream), from, j)' \/ Asked(i - 1, from, j)'
    BY <1>3, <2>1, <2>3
  <2> QED BY <2>1, <2>2, <2>4 DEF Sent, Asked
<1>5. CountsUnderWay'
  BY <1>2, <1>4 DEF CountsUnderWay
<1>6. ASSUME NEW from, NEW j, Counted(from, j) PROVE Counted(from, j)'
  <2>1. Sent(Len(stream), from, j)' \/ Asked(n - 1, from, j)'
    BY <1>1, <1>2, <1>3, <1>6 DEF Counted
  <2> QED BY <1>2, <2>1 DEF Counted, Asked
<1> QED BY <1>5, <1>6

\* A call of the page that is put into the queue.
LEMMA AskedCounts ==
  ASSUME Typed, CountsUnderWay, NEW c \in Calls, inbox' = Append(inbox, c),
         UNCHANGED stream,
         c.kind = "lockdown" => \A j \in 1..(c.strike - 1) : Counted(c.load, j)
  PROVE  /\ CountsUnderWay'
         /\ \A from, j : Counted(from, j) => Counted(from, j)'
         /\ c.kind = "lockdown" => Counted(c.load, c.strike)'
<1>1. PICK n \in Nat : n = Len(inbox)
  BY LenProperties DEF Typed
<1>2. /\ inbox' \in Seq(Calls) /\ Len(inbox') = n + 1
      /\ inbox'[n + 1] = c /\ \A i \in 1..n : inbox'[i] = inbox[i]
  BY <1>1, AppendProperties DEF Typed
<1>3. \A from, j : Sent(Len(stream), from, j) => Sent(Len(stream), from, j)'
  BY DEF Sent
<1>4. ASSUME NEW i \in 0..n, NEW from, NEW j, Asked(i, from, j)
      PROVE  Asked(i, from, j)' /\ Asked(Len(inbox), from, j)'
  <2>1. PICK m \in 1..i : /\ inbox[m].kind = "lockdown"
                          /\ inbox[m].load = from /\ inbox[m].strike = j
    BY <1>4 DEF Asked
  <2>2. inbox'[m] = inbox[m] /\ m \in 1..(n + 1)
    BY <1>1, <1>2
  <2> QED BY <1>2, <2>1, <2>2 DEF Asked
<1>5. ASSUME NEW from, NEW j, Counted(from, j)
      PROVE  Counted(from, j)' /\ (Sent(Len(stream), from, j)' \/ Asked(n, from, j)')
  <2>1. CASE Sent(Len(stream), from, j)
    BY <1>3, <2>1 DEF Counted
  <2>2. CASE Asked(n, from, j)
    BY <1>1, <1>4, <2>2 DEF Counted
  <2> QED BY <1>1, <1>5, <2>1, <2>2 DEF Counted
<1>6. c.kind = "lockdown" => Counted(c.load, c.strike)'
  <2>1. n + 1 \in 1..(n + 1)
    BY <1>1
  <2> QED BY <1>2, <2>1 DEF Counted, Asked
<1>7. ASSUME NEW i \in 1..(n + 1), inbox'[i].kind = "lockdown",
             NEW j \in 1..(inbox'[i].strike - 1)
      PROVE  (Sent(Len(stream), inbox[i].load, j) \/ Asked(i - 1, inbox[i].load, j))'
  <2>1. CASE i \in 1..n
    <3>1. inbox'[i] = inbox[i] /\ i - 1 \in 0..n /\ i \in 1..Len(inbox)
      BY <1>1, <1>2, <2>1
    <3>2. PICK from : from = inbox[i].load
      OBVIOUS
    <3>3. Sent(Len(stream), from, j) \/ Asked(i - 1, from, j)
      BY <1>7, <3>1, <3>2 DEF CountsUnderWay
    <3>4. Sent(Len(stream), from, j)' \/ Asked(i - 1, from, j)'
      BY <1>3, <1>4, <3>1, <3>3
    <3> QED BY <3>1, <3>2, <3>4 DEF Sent, Asked
  <2>2. CASE i = n + 1
    <3>1. inbox'[i] = c /\ i - 1 = n
      BY <1>1, <1>2, <2>2
    <3>2. Sent(Len(stream), c.load, j)' \/ Asked(n, c.load, j)'
      BY <1>5, <1>7, <3>1
    <3> QED BY <3>1, <3>2 DEF Sent, Asked
  <2> QED BY <1>1, <1>7, <2>1, <2>2
<1>8. CountsUnderWay'
  BY <1>2, <1>7 DEF CountsUnderWay
<1> QED BY <1>5, <1>6, <1>8

\* The calls under way are counted as before while only the stream grows.
LEMMA WaitingCounts ==
  ASSUME CountsUnderWay, UNCHANGED inbox,
         \A from, j : Sent(Len(stream), from, j) => Sent(Len(stream), from, j)'
  PROVE  CountsUnderWay' /\ \A from, j : Counted(from, j) => Counted(from, j)'
<1>1. ASSUME NEW i, NEW from, NEW j, Asked(i, from, j) PROVE Asked(i, from, j)'
  BY <1>1 DEF Asked
<1>2. ASSUME NEW i \in 1..Len(inbox), inbox[i].kind = "lockdown",
             NEW j \in 1..(inbox[i].strike - 1)
      PROVE  (Sent(Len(stream), inbox[i].load, j) \/ Asked(i - 1, inbox[i].load, j))'
  <2>1. PICK from : from = inbox[i].load
    OBVIOUS
  <2>2. Sent(Len(stream), from, j)' \/ Asked(i - 1, from, j)'
    BY <1>1, <1>2, <2>1 DEF CountsUnderWay
  <2> QED BY <2>1, <2>2 DEF Sent, Asked
<1>3. CountsUnderWay'
  BY <1>2 DEF CountsUnderWay
<1>4. ASSUME NEW from, NEW j, Counted(from, j) PROVE Counted(from, j)'
  <2>1. Asked(Len(inbox), from, j) => Asked(Len(inbox), from, j)'
    BY DEF Asked
  <2> QED BY <1>4, <2>1 DEF Counted
<1> QED BY <1>3, <1>4

\* The page's counter stands for what was counted, while neither it nor the
\* load changes.
LEMMA CounterKept ==
  ASSUME PageCounts, UNCHANGED <<load, strike>>,
         page' # "closed" => page # "closed",
         \A from, j : Counted(from, j) => Counted(from, j)'
  PROVE  PageCounts'
<1> SUFFICES ASSUME page' # "closed", NEW j \in 1..strike PROVE Counted(load, j)'
  BY DEF PageCounts
<1>1. PICK from : from = load
  OBVIOUS
<1>2. Counted(from, j)'
  BY <1>1 DEF PageCounts
<1> QED BY <1>1, <1>2 DEF Counted, Sent, Asked

\* A frame that is no blocked action changes no count.
LEMMA OtherFrameCounts ==
  ASSUME CountInv, NEW kind \in Kinds \ {"lockdown"}, NEW from \in Nat,
         Emits(Frame(kind, from, 0)), UNCHANGED <<load, strike>>,
         page' # "closed" => page # "closed",
         \/ UNCHANGED inbox
         \/ inbox # <<>> /\ inbox' = Tail(inbox) /\ Head(inbox).kind # "lockdown"
  PROVE  CountsOnStream' /\ CountsUnderWay' /\ PageCounts'
<1>1. PICK f \in Frames : f = Frame(kind, from, 0) /\ f.kind # "lockdown"
  BY FrameType DEF CountInv, IInv
<1>2. /\ CountsOnStream'
      /\ \A l, j : Sent(Len(stream), l, j) => Sent(Len(stream), l, j)'
  BY <1>1, EmitsCounts DEF CountInv, IInv
<1>3. CountsUnderWay' /\ \A l, j : Counted(l, j) => Counted(l, j)'
  BY <1>2, WaitingCounts, HandledCounts DEF CountInv, IInv
<1> QED BY <1>2, <1>3, CounterKept DEF CountInv

\* A step that leaves the stream alone, and at most takes a call that is no
\* blocked action out of the queue.
LEMMA QuietCounts ==
  ASSUME CountInv, UNCHANGED <<stream, load, strike>>,
         page' # "closed" => page # "closed",
         \/ UNCHANGED inbox
         \/ inbox # <<>> /\ inbox' = Tail(inbox) /\ Head(inbox).kind # "lockdown"
  PROVE  CountsOnStream' /\ CountsUnderWay' /\ PageCounts'
<1>1. /\ CountsOnStream'
      /\ \A l, j : Sent(Len(stream), l, j) => Sent(Len(stream), l, j)'
  BY DEF CountInv, CountsOnStream, Sent
<1>2. CountsUnderWay' /\ \A l, j : Counted(l, j) => Counted(l, j)'
  BY <1>1, WaitingCounts, HandledCounts DEF CountInv, IInv
<1> QED BY <1>1, <1>2, CounterKept DEF CountInv

\* A page that watches has a main process that listens.
LEMMA WatchedIsHandled ==
  ASSUME IInv, RefusesNone, page \in Watching
  PROVE  Handles
<1>1. \E n \in 1..Len(stream) : stream[n].kind = "exam_start"
  BY DEF IInv, PageFollowsConsent, Consented, ConsentedBy
<1>2. page # "closed"
  BY DEF Watching
<1> QED BY <1>1, <1>2 DEF RefusesNone, Handles

\* Main keeps refusing none.
LEMMA RefusesStep == IInv /\ RefusesNone /\ [Next]_vars => RefusesNone'
<1> SUFFICES ASSUME IInv, RefusesNone, [Next]_vars PROVE RefusesNone'
  OBVIOUS
<1>0. inbox \in Seq(Calls) /\ stream \in Seq(Frames) /\ load \in Nat
  BY DEF IInv, Typed
<1> DEFINE early == {"enrolling", "starting", "attesting"}
           none(S) == \A i \in 1..Len(S) : S[i].kind \notin Capture
<1>1. ASSUME NEW kind \in Kinds, NEW from, NEW n, kind # "exam_start",
             Emits(Frame(kind, from, n)),
             \A i \in 1..Len(stream) : stream[i].kind # "exam_start"
      PROVE  \A i \in 1..Len(stream') : stream'[i].kind # "exam_start"
  <2>1. PICK f : f = Frame(kind, from, n) /\ f.kind # "exam_start"
    BY <1>1 DEF Frame
  <2>2. /\ Len(stream') = Len(stream) + 1 /\ Len(stream) \in Nat
        /\ stream'[Len(stream) + 1] = f
        /\ \A i \in 1..Len(stream) : stream'[i] = stream[i]
    BY <1>0, <1>1, <2>1 DEF Emits
  <2> QED BY <1>1, <2>1, <2>2
<1>2. inbox # <<>> /\ none(inbox) => none(Tail(inbox))
  <2> SUFFICES ASSUME inbox # <<>>, none(inbox) PROVE none(Tail(inbox))
    OBVIOUS
  <2>1. /\ Len(Tail(inbox)) = Len(inbox) - 1 /\ Len(inbox) \in Nat
        /\ \A i \in 1..(Len(inbox) - 1) : Tail(inbox)[i] = inbox[i + 1]
    BY <1>0, HeadTailProperties, EmptySeq
  <2> QED BY <2>1
<1>3. ASSUME NEW c, c.kind \notin Capture, none(inbox) PROVE none(Append(inbox, c))
  <2>1. /\ Len(Append(inbox, c)) = Len(inbox) + 1 /\ Len(inbox) \in Nat
        /\ Append(inbox, c)[Len(inbox) + 1] = c
        /\ \A i \in 1..Len(inbox) : Append(inbox, c)[i] = inbox[i]
    BY <1>0
  <2> QED BY <1>3, <2>1
<1>a. /\ session \in early => \A n \in 1..Len(stream) : stream[n].kind # "exam_start"
      /\ ~Handles => none(inbox)
      /\ session = "over" => page = "closed"
      /\ session \in {"enrolling", "starting", "attesting", "serving", "ending", "over"}
  BY DEF RefusesNone
<1> HIDE DEF early
<1>4. CASE Enrolled \/ Attest
  <2>1. session \in early /\ ~Handles /\ UNCHANGED <<inbox, page>>
    BY <1>4 DEF Enrolled, Attest, Handles, early
  <2>2. \A i \in 1..Len(stream') : stream'[i].kind # "exam_start"
    BY <1>1, <1>4, <1>a, <2>1 DEF Enrolled, Attest, Kinds
  <2> QED BY <1>4, <1>a, <2>1, <2>2 DEF Enrolled, Attest, RefusesNone, Handles
<1>5. CASE Environment \/ Heartbeat
  <2>1. UNCHANGED <<session, inbox, page>>
    BY <1>5 DEF Environment, Heartbeat
  <2>2. session \in early => \A i \in 1..Len(stream') : stream'[i].kind # "exam_start"
    BY <1>1, <1>5, <1>a DEF Environment, Heartbeat, Kinds
  <2> QED BY <1>a, <2>1, <2>2 DEF RefusesNone, Handles, early
<1>6. CASE Quit
  <2>1. CASE Emitting
    BY <1>6, <2>1 DEF Quit, RefusesNone, Handles
  <2>2. CASE ~Emitting
    BY <1>6, <1>a, <2>2 DEF Quit, RefusesNone, Handles, Emitting
  <2> QED BY <2>1, <2>2
<1>7. CASE Reject \/ MediaJoin
  <2>1. /\ inbox # <<>> /\ inbox' = Tail(inbox) /\ UNCHANGED <<session, stream>>
        /\ page = "closed" => page' = "closed"
    BY <1>7 DEF Reject, MediaJoin, Shown
  <2> QED BY <1>2, <1>a, <2>1 DEF RefusesNone, Handles, early
<1>8. CASE Consent \/ Observe \/ ObserveLockdown
  <2>1. Handles /\ UNCHANGED <<session, page>>
    BY <1>8 DEF Consent, Observe, ObserveLockdown
  <2> QED BY <1>a, <2>1 DEF RefusesNone, Handles
<1>9. CASE Loaded \/ Accept
  <2>1. PICK c : c.kind \notin Capture /\ inbox' = Append(inbox, c)
    BY <1>9 DEF Loaded, Accept, Call, Capture
  <2>2. UNCHANGED <<session, stream>> /\ page # "closed"
    BY <1>9 DEF Loaded, Accept
  <2> QED BY <1>3, <1>a, <2>1, <2>2 DEF RefusesNone, Handles, early
<1>10. CASE Report \/ Attempt
  <2>1. Handles /\ UNCHANGED <<session, page>>
    BY <1>10, WatchedIsHandled DEF Report, Attempt, Watching
  <2> QED BY <1>a, <2>1 DEF RefusesNone, Handles
<1>11. CASE Exit \/ EnrolFails
  <2>1. session' = "over" /\ page' = "closed"
    BY <1>11 DEF Exit, EnrolFails
  <2>2. none(inbox')
    BY <1>11, <1>a DEF Exit, EnrolFails, Handles
  <2> QED BY <2>1, <2>2 DEF RefusesNone, Handles
<1>12. CASE Serve
  BY <1>12 DEF Serve, RefusesNone, Handles
<1>13. ASSUME \/ Lock \/ Reload \/ CloseWindow \/ GatewayRestart \/ Elapse
              \/ UNCHANGED vars \/ \E works \in BOOLEAN : SetUp(works)
       PROVE  RefusesNone'
  <2>1. /\ UNCHANGED <<session, inbox, stream>>
        /\ page = "closed" => page' = "closed"
    BY <1>13 DEF Lock, MayProceed, Reload, CloseWindow, GatewayRestart, Elapse, SetUp, vars
  <2> QED BY <1>a, <2>1 DEF RefusesNone, Handles, early
<1> QED BY <1>4, <1>5, <1>6, <1>7, <1>8, <1>9, <1>10, <1>11, <1>12, <1>13 DEF Next

\* Every step keeps the count.
LEMMA CountStep == CountInv /\ [Next]_vars => CountInv'
<1> SUFFICES ASSUME CountInv, [Next]_vars
             PROVE  CountsOnStream' /\ CountsUnderWay' /\ PageCounts'
  BY StepInv, RefusesStep DEF CountInv
<1>0. /\ Typed /\ IInv /\ RefusesNone /\ CountsUnderWay /\ CountsOnStream /\ PageCounts
      /\ inbox \in Seq(Calls) /\ load \in Nat /\ strike \in Nat
  BY DEF CountInv, IInv, Typed
<1>h. inbox # <<>> => Head(inbox) \in Calls /\ Head(inbox) = inbox[1] /\ 1 \in 1..Len(inbox)
  BY <1>0, HeadTailProperties, EmptySeq
<1>1. CASE Enrolled \/ Attest \/ Environment \/ Heartbeat
  BY <1>1, OtherFrameCounts DEF Enrolled, Attest, Environment, Heartbeat, Kinds
<1>2. CASE Quit
  <2>1. CASE Emitting
    BY <1>2, <2>1, OtherFrameCounts DEF Quit, Kinds
  <2>2. CASE ~Emitting
    BY <1>2, <2>2, QuietCounts DEF Quit
  <2> QED BY <2>1, <2>2
<1>3. CASE Reject
  <2>1. Head(inbox).kind # "lockdown"
    BY <1>0, <1>3, <1>h DEF Reject, RefusesNone, Capture
  <2>2. /\ inbox # <<>> /\ inbox' = Tail(inbox) /\ UNCHANGED <<stream, load, strike>>
        /\ page' # "closed" => page # "closed"
    BY <1>3 DEF Reject, Shown
  <2> QED BY <2>1, <2>2, QuietCounts
<1>4. CASE MediaJoin
  <2>1. /\ inbox # <<>> /\ inbox' = Tail(inbox) /\ UNCHANGED <<stream, load, strike>>
        /\ page' # "closed" => page # "closed"
        /\ Head(inbox).kind # "lockdown"
    BY <1>4 DEF MediaJoin, Shown
  <2> QED BY <2>1, QuietCounts
<1>5. CASE Consent \/ Observe
  <2>1. Head(inbox).load \in Nat
    BY <1>5, <1>h DEF Consent, Observe, Calls
  <2> QED BY <1>5, <2>1, OtherFrameCounts DEF Consent, Observe, Kinds
<1>6. CASE ObserveLockdown
  <2>1. PICK c \in Calls : c = Head(inbox) /\ c = inbox[1] /\ c.kind = "lockdown"
    BY <1>6, <1>h DEF ObserveLockdown
  <2>2. PICK f \in Frames : /\ f = Frame("lockdown", c.load, c.strike)
                            /\ f.kind = "lockdown" /\ f.load = c.load
                            /\ f.strike = c.strike
    <3>1. c.load \in Nat /\ c.strike \in Nat /\ "lockdown" \in Kinds
      BY <2>1 DEF Calls, Kinds
    <3>2. Frame("lockdown", c.load, c.strike) \in Frames
      BY <1>0, <3>1, FrameType
    <3> QED BY <3>2 DEF Frame
  <2>3. \A j \in 1..(f.strike - 1) : Sent(Len(stream), f.load, j)
    <3>1. ASSUME NEW j \in 1..(c.strike - 1)
          PROVE  Sent(Len(stream), c.load, j)
      <4>1. Sent(Len(stream), c.load, j) \/ Asked(1 - 1, c.load, j)
        BY <1>0, <1>6, <1>h, <2>1, <3>1 DEF ObserveLockdown, CountsUnderWay
      <4>2. ~Asked(1 - 1, c.load, j)
        BY DEF Asked
      <4> QED BY <4>1, <4>2
    <3> QED BY <2>2, <3>1
  <2>4. /\ CountsOnStream'
        /\ \A l, j : Sent(Len(stream), l, j) => Sent(Len(stream), l, j)'
        /\ Sent(Len(stream), f.load, f.strike)'
    BY <1>0, <1>6, <2>1, <2>2, <2>3, EmitsCounts DEF ObserveLockdown
  <2>5. ASSUME NEW from, NEW j, Head(inbox).load = from, Head(inbox).strike = j
        PROVE  Sent(Len(stream), from, j)'
    <3>1. c.load = from /\ c.strike = j /\ f.load = from /\ f.strike = j
      BY <2>1, <2>2, <2>5
    <3> QED BY <2>4, <3>1
  <2>6. CountsUnderWay' /\ \A l, j : Counted(l, j) => Counted(l, j)'
    BY <1>0, <1>6, <2>4, <2>5, HandledCounts DEF ObserveLockdown
  <2> QED BY <1>0, <1>6, <2>4, <2>6, CounterKept DEF ObserveLockdown
<1>7. CASE Loaded \/ Accept \/ Report
  <2>1. PICK c \in Calls : c.kind # "lockdown" /\ inbox' = Append(inbox, c)
    BY <1>0, <1>7 DEF Loaded, Accept, Report, Call, Calls
  <2>2. UNCHANGED <<stream, load, strike>> /\ page # "closed"
    BY <1>7 DEF Loaded, Accept, Report
  <2>3. CountsUnderWay' /\ \A l, j : Counted(l, j) => Counted(l, j)'
    BY <1>0, <2>1, <2>2, AskedCounts
  <2>4. CountsOnStream'
    BY <1>0, <2>2 DEF CountsOnStream, Sent
  <2> QED BY <1>0, <2>2, <2>3, <2>4, CounterKept
<1>8. CASE Attempt
  <2>1. PICK c \in Calls : /\ inbox' = Append(inbox, c) /\ c.kind = "lockdown"
                           /\ c.load = load /\ c.strike = strike + 1
    BY <1>0, <1>8 DEF Attempt, Call, Calls
  <2>2. /\ UNCHANGED <<stream, load, page>> /\ page # "closed" /\ strike' = strike + 1
    BY <1>8 DEF Attempt
  <2>3. \A j \in 1..(c.strike - 1) : Counted(c.load, j)
    <3>1. \A j \in 1..strike : Counted(load, j)
      BY <1>0, <2>2 DEF PageCounts
    <3> QED BY <1>0, <2>1, <3>1
  <2>4. /\ CountsUnderWay' /\ \A l, j : Counted(l, j) => Counted(l, j)'
        /\ Counted(c.load, c.strike)'
    BY <1>0, <2>1, <2>2, <2>3, AskedCounts
  <2>5. CountsOnStream'
    BY <1>0, <2>2 DEF CountsOnStream, Sent
  <2>6. ASSUME NEW j \in 1..(strike + 1) PROVE Counted(load, j)'
    <3>1. PICK l : l = load
      OBVIOUS
    <3>2. CASE j \in 1..strike
      <4>1. Counted(l, j)'
        BY <2>1, <2>3, <2>4, <3>1, <3>2, <1>0
      <4> QED BY <2>2, <3>1, <4>1 DEF Counted, Sent, Asked
    <3>3. CASE j = strike + 1
      BY <2>1, <2>2, <2>4, <3>3 DEF Counted, Sent, Asked
    <3> QED BY <1>0, <2>6, <3>2, <3>3
  <2> QED BY <2>2, <2>4, <2>5, <2>6 DEF PageCounts
<1>9. CASE Reload
  <2>1. UNCHANGED <<stream, inbox>> /\ strike' = 0
    BY <1>9 DEF Reload
  <2>2. CountsOnStream' /\ CountsUnderWay'
    BY <1>0, <2>1 DEF CountsOnStream, CountsUnderWay, Sent, Asked
  <2>3. PageCounts'
    BY <2>1 DEF PageCounts
  <2> QED BY <2>2, <2>3
<1>10. CASE Exit
  <2>1. UNCHANGED stream /\ inbox' = <<>> /\ page' = "closed"
    BY <1>10 DEF Exit
  <2>2. CountsOnStream'
    BY <1>0, <2>1 DEF CountsOnStream, Sent
  <2>3. CountsUnderWay' /\ PageCounts'
    BY <2>1, EmptySeq DEF CountsUnderWay, PageCounts
  <2> QED BY <2>2, <2>3
<1>11. ASSUME \/ Serve \/ EnrolFails \/ Lock \/ CloseWindow \/ GatewayRestart \/ Elapse
              \/ UNCHANGED vars \/ \E works \in BOOLEAN : SetUp(works)
       PROVE  CountsOnStream' /\ CountsUnderWay' /\ PageCounts'
  <2>1. /\ UNCHANGED <<stream, inbox, load, strike>>
        /\ page' # "closed" => page # "closed"
    BY <1>11 DEF Serve, EnrolFails, Lock, MayProceed, CloseWindow, GatewayRestart, Elapse,
                 SetUp, vars
  <2> QED BY <2>1, QuietCounts
<1> QED BY <1>1, <1>2, <1>3, <1>4, <1>5, <1>6, <1>7, <1>8, <1>9, <1>10, <1>11 DEF Next

---------------------------------------------------------------------------
(* The rule and the warnings                                               *)

\* The stream and what was raised start empty.
LEMMA InitWarnInv == Init => WarnInv
<1> SUFFICES ASSUME Init PROVE WarnInv
  OBVIOUS
<1>1. /\ inbox = <<>> /\ stream = <<>> /\ strike = 0 /\ now = 0
      /\ session = "enrolling" /\ raised = <<>>
      /\ candidate_since_ms = -1 /\ releasing_since_ms = -1 /\ last_fired_ms = -1
      /\ firing = FALSE /\ active_violation_id = 0
  BY DEF Init, Rule!Init, Rule!NotSet
<1>2. Len(inbox) = 0 /\ Len(stream) = 0 /\ Len(raised) = 0 /\ 1..0 = {}
  BY <1>1
<1>3. IInv
  BY InitInv
<1>4. CountInv
  BY <1>1, <1>2, <1>3 DEF CountInv, CountsOnStream, CountsUnderWay, PageCounts, RefusesNone
<1>5. RuleInv
  <2>1. raised \in Seq(Rule!Violation)
    BY <1>1
  <2>2. RuleTyped
    BY <1>1, <1>2, <2>1 DEF RuleTyped
  <2>3. FiringIsOpen
    BY <1>1 DEF FiringIsOpen
  <2> QED BY <1>1, <2>2, <2>3 DEF RuleInv, CooldownIsOfAFlag, Rule!NotSet
<1> QED BY <1>2, <1>4, <1>5 DEF WarnInv, LastIsAnswered, FlagsWereWarned

\* A blocked action at this moment steps the rule: if it is one too many it is
\* answered, and what is raised is raised by it.
LEMMA RuleStep ==
  ASSUME RuleInv, now \in Nat, UNCHANGED now,
         NEW verdict \in {Rule!Holds, Rule!Fails},
         Rule!Observe([ms |-> now, verdict |-> verdict])
  PROVE  /\ RuleInv'
         /\ verdict = Rule!Holds => \E v \in 1..Len(raised') : Answers(v, now)'
         /\ \A v \in 1..Len(raised') : ~raised'[v].resolved =>
              \/ v \in 1..Len(raised) /\ raised'[v] = raised[v]
              \/ verdict = Rule!Holds /\ raised'[v].fired_at_ms = now
<1>1. PICK n \in Nat : n = Len(raised)
  BY LenProperties DEF RuleInv, RuleTyped
<1>0. /\ raised \in Seq(Rule!Violation)
      /\ \A v \in 1..n : raised[v].id \in 0..n
      /\ candidate_since_ms \in Int /\ candidate_since_ms =< now
      /\ releasing_since_ms \in Int /\ last_fired_ms \in Int
      /\ active_violation_id \in 0..n
  BY <1>1 DEF RuleInv, RuleTyped
<1>a. Rule!CandidateAt(now) \in Int /\ Rule!CandidateAt(now) =< now
  BY <1>0 DEF Rule!CandidateAt
<1>2. CASE verdict = Rule!Holds /\ Rule!MayFire(now)
  <2>1. PICK v \in Rule!Violation :
          /\ v = [id |-> n + 1, resolved |-> FALSE,
                  opened_at_ms |-> Rule!CandidateAt(now), fired_at_ms |-> now]
          /\ v.id = n + 1 /\ ~v.resolved /\ v.fired_at_ms = now
    <3>1. [id |-> n + 1, resolved |-> FALSE, opened_at_ms |-> Rule!CandidateAt(now),
           fired_at_ms |-> now] \in Rule!Violation
      BY <1>a DEF Rule!Violation
    <3> QED BY <3>1
  <2>2. /\ raised' = Append(raised, v) /\ firing' = TRUE
        /\ last_fired_ms' = now /\ active_violation_id' = n + 1
        /\ candidate_since_ms' = Rule!CandidateAt(now) /\ releasing_since_ms' = Rule!NotSet
    BY <1>1, <1>2, <2>1 DEF Rule!Observe, Rule!OnMatch, Rule!FreshId, Rule!Holds, Rule!Fails,
                            Rule!Unsure
  <2>3. /\ raised' \in Seq(Rule!Violation) /\ Len(raised') = n + 1
        /\ raised'[n + 1] = v /\ \A i \in 1..n : raised'[i] = raised[i]
    BY <1>0, <1>1, <2>2, AppendProperties
  <2>4. candidate_since_ms' \in Int /\ candidate_since_ms' =< now
    BY <1>a, <2>2
  <2>5. /\ \A i \in 1..(n + 1) : raised'[i].id \in 0..(n + 1)
        /\ \A i \in 1..(n + 1) : raised'[i].resolved => raised'[i].id # n + 1
    <3>1. ASSUME NEW i \in 1..n
          PROVE  raised'[i].id \in 0..(n + 1) /\ raised'[i].id # n + 1
      <4>1. raised'[i] = raised[i] /\ raised[i].id \in 0..n
        BY <1>0, <2>3
      <4> QED BY <4>1
    <3>2. raised'[n + 1].id = n + 1 /\ ~raised'[n + 1].resolved
      BY <2>1, <2>3
    <3>3. \A i \in 1..(n + 1) : i \in 1..n \/ i = n + 1
      OBVIOUS
    <3> QED BY <3>1, <3>2, <3>3
  <2>6. RuleInv'
    <3>1. n + 1 \in 1..(n + 1) /\ n + 1 \in 0..(n + 1) /\ Rule!NotSet \in Int
      BY DEF Rule!NotSet
    <3>2. RuleTyped'
      BY <2>2, <2>3, <2>4, <2>5, <3>1 DEF RuleTyped
    <3>3. FiringIsOpen'
      BY <2>1, <2>2, <2>3, <2>5, <3>1 DEF FiringIsOpen
    <3>4. CooldownIsOfAFlag'
      BY <2>1, <2>2, <2>3, <3>1 DEF CooldownIsOfAFlag
    <3> QED BY <3>2, <3>3, <3>4 DEF RuleInv
  <2>7. Answers(n + 1, now)'
    <3>1. \A w \in 1..Len(raised') : raised'[w].resolved => raised'[w].id # raised'[n + 1].id
      BY <2>1, <2>3, <2>5
    <3> QED BY <2>1, <2>3, <3>1 DEF Answers
  <2>8. n + 1 \in 1..Len(raised')
    BY <2>3
  <2> QED BY <1>1, <1>2, <2>1, <2>3, <2>6, <2>7, <2>8
<1>3. CASE verdict = Rule!Holds /\ ~Rule!MayFire(now)
  <2>1. /\ candidate_since_ms' = Rule!CandidateAt(now) /\ releasing_since_ms' = Rule!NotSet
        /\ UNCHANGED <<firing, last_fired_ms, active_violation_id, raised>>
    BY <1>3 DEF Rule!Observe, Rule!OnMatch, Rule!Holds, Rule!Fails, Rule!Unsure
  <2>2. candidate_since_ms' \in Int /\ candidate_since_ms' =< now
    BY <1>a, <2>1
  <2>3. RuleInv'
    <3>1. Rule!NotSet \in Int
      BY DEF Rule!NotSet
    <3>2. RuleTyped'
      BY <1>0, <1>1, <2>1, <2>2, <3>1 DEF RuleTyped
    <3> QED BY <2>1, <3>2 DEF RuleInv, FiringIsOpen, CooldownIsOfAFlag
  <2>4. \E v \in 1..n : Answers(v, now)
    <3>1. CASE firing
      <4>1. PICK v \in 1..n :
              /\ ~raised[v].resolved /\ raised[v].id = active_violation_id
              /\ \A w \in 1..n : raised[w].resolved => raised[w].id # active_violation_id
        BY <1>1, <3>1 DEF RuleInv, FiringIsOpen
      <4> QED BY <1>1, <4>1 DEF Answers
    <3>2. CASE ~firing
      <4>1. now - Rule!CandidateAt(now) >= 0
        BY <1>a
      <4>2. last_fired_ms # Rule!NotSet /\ now - last_fired_ms < Cooldown
        <5>1. ~Rule!CoolAt(now)
          BY <1>3, <3>2, <4>1 DEF Rule!MayFire
        <5> QED BY <1>0, <5>1, Constants DEF Rule!CoolAt
      <4>3. PICK v \in 1..n : ~raised[v].resolved /\ raised[v].fired_at_ms = last_fired_ms
        BY <1>1, <4>2 DEF RuleInv, CooldownIsOfAFlag
      <4> QED BY <4>2, <4>3 DEF Answers
    <3> QED BY <3>1, <3>2
  <2>5. \E v \in 1..n : Answers(v, now)'
    BY <2>1, <2>4 DEF Answers
  <2> QED BY <1>1, <2>1, <2>3, <2>5
<1>4. CASE verdict = Rule!Fails
  <2>1. \/ UNCHANGED <<rule, raised>>
        \/ /\ releasing_since_ms' = now
           /\ UNCHANGED <<candidate_since_ms, firing, last_fired_ms, active_violation_id,
                          raised>>
        \/ Rule!ReleaseRule(now)
    BY <1>4 DEF Rule!Observe, Rule!Holds, Rule!Fails, Rule!Unsure, Rule!NothingHeld,
                Rule!StartRelease, Rule!StillReleasing, Rule!rule, rule
  <2>2. CASE UNCHANGED <<candidate_since_ms, firing, last_fired_ms, active_violation_id,
                         raised>>
             /\ releasing_since_ms' \in Int
    <3>1. RuleTyped'
      BY <1>0, <1>1, <2>2 DEF RuleTyped
    <3>2. RuleInv'
      BY <2>2, <3>1 DEF RuleInv, FiringIsOpen, CooldownIsOfAFlag
    <3> QED BY <1>1, <1>4, <2>2, <3>2 DEF Rule!Holds, Rule!Fails
  <2>3. CASE Rule!ReleaseRule(now)
    <3>1. /\ candidate_since_ms' = Rule!NotSet /\ releasing_since_ms' = Rule!NotSet
          /\ firing' = FALSE /\ active_violation_id' = 0 /\ UNCHANGED last_fired_ms
          /\ Rule!NotSet = -1 /\ Rule!NotSet \in Int /\ Rule!NotSet =< now
      BY <2>3 DEF Rule!ReleaseRule, Rule!NotSet
    <3>2. CASE ~firing
      <4>1. raised' = raised
        BY <2>3, <3>2 DEF Rule!ReleaseRule
      <4>2. RuleTyped'
        BY <1>0, <1>1, <3>1, <4>1 DEF RuleTyped
      <4>3. RuleInv'
        BY <3>1, <4>1, <4>2 DEF RuleInv, FiringIsOpen, CooldownIsOfAFlag
      <4> QED BY <1>1, <1>4, <4>1, <4>3 DEF Rule!Holds, Rule!Fails
    <3>3. CASE firing
      <4>1. PICK v \in Rule!Violation :
              /\ raised' = Append(raised, v)
              /\ v.id = active_violation_id /\ v.resolved
        <5>1. [id |-> active_violation_id, resolved |-> TRUE,
               opened_at_ms |-> candidate_since_ms, fired_at_ms |-> releasing_since_ms]
                \in Rule!Violation
          BY <1>0 DEF Rule!Violation
        <5> QED BY <2>3, <3>3, <5>1 DEF Rule!ReleaseRule
      <4>2. /\ raised' \in Seq(Rule!Violation) /\ Len(raised') = n + 1
            /\ raised'[n + 1] = v /\ \A i \in 1..n : raised'[i] = raised[i]
        BY <1>0, <1>1, <4>1, AppendProperties
      <4>3. \A i \in 1..(n + 1) : raised'[i].id \in 0..(n + 1)
        BY <1>0, <4>1, <4>2
      <4>4. last_fired_ms # Rule!NotSet => \E i \in 1..(n + 1) :
              ~raised'[i].resolved /\ raised'[i].fired_at_ms = last_fired_ms
        <5> SUFFICES ASSUME last_fired_ms # Rule!NotSet
                     PROVE  \E i \in 1..(n + 1) :
                       ~raised'[i].resolved /\ raised'[i].fired_at_ms = last_fired_ms
          OBVIOUS
        <5>1. PICK i \in 1..n : ~raised[i].resolved /\ raised[i].fired_at_ms = last_fired_ms
          BY <1>1 DEF RuleInv, CooldownIsOfAFlag
        <5>2. i \in 1..(n + 1) /\ raised'[i] = raised[i]
          BY <4>2
        <5> QED BY <5>1, <5>2
      <4>5. RuleInv'
        <5>1. 0 \in 0..(n + 1)
          OBVIOUS
        <5>2. RuleTyped'
          BY <1>0, <3>1, <4>2, <4>3, <5>1 DEF RuleTyped
        <5>3. FiringIsOpen'
          BY <3>1 DEF FiringIsOpen
        <5>4. CooldownIsOfAFlag'
          BY <3>1, <4>2, <4>4 DEF CooldownIsOfAFlag, Rule!NotSet
        <5> QED BY <5>2, <5>3, <5>4 DEF RuleInv
      <4>6. \A i \in 1..(n + 1) : ~raised'[i].resolved =>
              i \in 1..n /\ raised'[i] = raised[i]
        BY <4>1, <4>2
      <4> QED BY <1>1, <1>4, <4>2, <4>5, <4>6 DEF Rule!Holds, Rule!Fails
    <3> QED BY <3>2, <3>3
  <2>4. now \in Int /\ releasing_since_ms \in Int
    BY <1>0
  <2> QED BY <2>1, <2>2, <2>3, <2>4 DEF rule
<1> QED BY <1>2, <1>3, <1>4

\* What was sent before stays sent when a frame follows.
LEMMA SentStays ==
  ASSUME Typed, NEW f \in Frames, Emits(f),
         NEW m \in 0..Len(stream), NEW from, NEW j, Sent(m, from, j)
  PROVE  Sent(m, from, j)'
<1>1. PICK n \in Nat : n = Len(stream)
  BY LenProperties DEF Typed
<1>2. \A i \in 1..n : stream'[i] = stream[i]
  BY <1>1, AppendProperties DEF Emits, Typed
<1>3. PICK i \in 1..m : /\ stream[i].kind = "lockdown"
                        /\ stream[i].load = from /\ stream[i].strike = j
  BY DEF Sent
<1>4. i \in 1..n
  BY <1>1
<1> QED BY <1>2, <1>3, <1>4 DEF Sent

\* A flag that was warned before stays so, whatever frame follows.
LEMMA WarnedStays ==
  ASSUME Typed, NEW f \in Frames, Emits(f), NEW at, NEW n \in 1..Len(stream),
         stream[n].kind = "lockdown", stream[n].ms = at,
         \A j \in 1..Allowance : Sent(n - 1, stream[n].load, j)
  PROVE  \E m \in 1..Len(stream') :
           /\ stream'[m].kind = "lockdown" /\ stream'[m].ms = at
           /\ \A j \in 1..Allowance : Sent(m - 1, stream[m].load, j)'
<1>1. /\ Len(stream') = Len(stream) + 1 /\ Len(stream) \in Nat
      /\ stream'[n] = stream[n]
  BY AppendProperties, LenProperties DEF Emits, Typed
<1>2. ASSUME NEW j \in 1..Allowance PROVE Sent(n - 1, stream[n].load, j)'
  <2>1. PICK from : from = stream[n].load
    OBVIOUS
  <2>2. n - 1 \in 0..Len(stream)
    BY <1>1
  <2>3. Sent(n - 1, from, j)'
    BY <2>1, <2>2, SentStays
  <2> QED BY <1>1, <2>1, <2>3 DEF Sent
<1>3. n \in 1..Len(stream')
  BY <1>1
<1> QED BY <1>1, <1>2, <1>3

\* A frame that is no blocked action, of which the rule hears nothing, changes
\* nothing about the warnings.
LEMMA OtherFrameWarns ==
  ASSUME Typed, LastIsAnswered, FlagsWereWarned, UNCHANGED raised,
         NEW f \in Frames, f.kind # "lockdown", Emits(f)
  PROVE  LastIsAnswered' /\ FlagsWereWarned'
<1>1. PICK n \in Nat : n = Len(stream)
  BY LenProperties DEF Typed
<1>2. /\ Len(stream') = n + 1 /\ stream'[n + 1] = f
      /\ \A i \in 1..n : stream'[i] = stream[i]
  BY <1>1, AppendProperties DEF Emits, Typed
<1>3. ASSUME NEW m \in 1..(n + 1), stream'[m].kind = "lockdown", IsLast(m)',
             stream'[m].strike > Allowance
      PROVE  \E v \in 1..Len(raised) : Answers(v, stream[m].ms)'
  <2>1. m \in 1..n /\ stream'[m] = stream[m]
    BY <1>1, <1>2, <1>3
  <2>2. IsLast(m)
    <3> SUFFICES ASSUME NEW i \in 1..n, stream[i].kind = "lockdown" PROVE i =< m
      BY <1>1 DEF IsLast
    <3>1. stream'[i].kind = "lockdown" /\ i \in 1..(n + 1)
      BY <1>1, <1>2
    <3> QED BY <1>2, <1>3, <3>1 DEF IsLast
  <2>3. PICK v \in 1..Len(raised) : Answers(v, stream[m].ms)
    BY <1>1, <1>3, <2>1, <2>2 DEF LastIsAnswered
  <2> QED BY <2>1, <2>3 DEF Answers
<1>4. LastIsAnswered'
  BY <1>2, <1>3 DEF LastIsAnswered
<1>5. ASSUME NEW v \in 1..Len(raised), ~raised[v].resolved
      PROVE  \E m \in 1..Len(stream') :
               /\ stream'[m].kind = "lockdown" /\ stream'[m].ms = raised[v].fired_at_ms
               /\ \A j \in 1..Allowance : Sent(m - 1, stream[m].load, j)'
  BY <1>5, WarnedStays DEF FlagsWereWarned
<1>6. FlagsWereWarned'
  BY <1>5 DEF FlagsWereWarned
<1> QED BY <1>4, <1>6

\* Time passes, or nothing happens to the rule at all.
LEMMA QuietRule ==
  ASSUME RuleInv, UNCHANGED <<rule, raised>>, now \in Nat, now' \in Nat, now =< now'
  PROVE  RuleInv'
<1>1. RuleTyped'
  <2>1. candidate_since_ms \in Int /\ candidate_since_ms =< now
    BY DEF RuleInv, RuleTyped
  <2>2. candidate_since_ms =< now'
    BY <2>1
  <2> QED BY <2>2 DEF RuleInv, RuleTyped, rule
<1> QED BY <1>1 DEF RuleInv, FiringIsOpen, CooldownIsOfAFlag, rule

\* A blocked action reaches the rule: all warnings of its page are on the
\* stream before it if it is one too many, and then it finds a flag.
LEMMA LockdownWarns ==
  ASSUME Allowance = MaxStrikes, WarnInv, ObserveLockdown
  PROVE  RuleInv' /\ LastIsAnswered' /\ FlagsWereWarned'
<1>0. /\ Typed /\ CountsUnderWay /\ RuleInv /\ FlagsWereWarned
      /\ inbox \in Seq(Calls) /\ now \in Nat /\ UNCHANGED now /\ inbox # <<>>
  BY DEF WarnInv, CountInv, IInv, Typed, ObserveLockdown
<1>1. PICK c \in Calls : /\ c = Head(inbox) /\ c = inbox[1] /\ c.kind = "lockdown"
                         /\ c.load \in Nat /\ c.strike \in Nat /\ 1 \in 1..Len(inbox)
  <2>1. /\ Head(inbox) \in Calls /\ Head(inbox) = inbox[1] /\ 1 \in 1..Len(inbox)
        /\ Head(inbox).kind = "lockdown"
    BY <1>0, HeadTailProperties, EmptySeq DEF ObserveLockdown
  <2>2. Head(inbox).load \in Nat /\ Head(inbox).strike \in Nat
    BY <2>1 DEF Calls
  <2> QED BY <2>1, <2>2
<1>2. PICK f \in Frames : /\ f = Frame("lockdown", c.load, c.strike)
                          /\ f.kind = "lockdown" /\ f.load = c.load
                          /\ f.strike = c.strike /\ f.ms = now
  <2>1. "lockdown" \in Kinds
    BY DEF Kinds
  <2>2. Frame("lockdown", c.load, c.strike) \in Frames
    BY <1>0, <1>1, <2>1, FrameType
  <2> QED BY <2>2 DEF Frame
<1>3. PICK n \in Nat : n = Len(stream)
  BY <1>0, LenProperties DEF Typed
<1>4. Emits(f)
  BY <1>1, <1>2 DEF ObserveLockdown
<1>5. /\ Len(stream') = n + 1 /\ stream'[n + 1] = f
      /\ \A i \in 1..n : stream'[i] = stream[i]
  BY <1>0, <1>3, <1>4, AppendProperties DEF Emits, Typed
<1>6. PICK verdict \in {Rule!Holds, Rule!Fails} :
        /\ Rule!Observe([ms |-> now, verdict |-> verdict])
        /\ verdict = Rule!Holds <=> f.strike > MaxStrikes
  <2>1. CASE f.strike > MaxStrikes
    BY <1>1, <1>2, <2>1 DEF ObserveLockdown, Exhausted, Rule!Holds, Rule!Fails
  <2>2. CASE ~(f.strike > MaxStrikes)
    BY <1>1, <1>2, <2>2 DEF ObserveLockdown, Exhausted, Rule!Holds, Rule!Fails
  <2> QED BY <2>1, <2>2
<1>7. /\ RuleInv'
      /\ f.strike > MaxStrikes => \E v \in 1..Len(raised') : Answers(v, now)'
      /\ \A v \in 1..Len(raised') : ~raised'[v].resolved =>
           \/ v \in 1..Len(raised) /\ raised'[v] = raised[v]
           \/ f.strike > MaxStrikes /\ raised'[v].fired_at_ms = now
  BY <1>0, <1>6, RuleStep
<1>8. LastIsAnswered'
  <2> SUFFICES ASSUME NEW m \in 1..(n + 1), stream'[m].kind = "lockdown", IsLast(m)',
                      stream'[m].strike > Allowance
               PROVE  \E v \in 1..Len(raised') : Answers(v, stream[m].ms)'
    BY <1>5 DEF LastIsAnswered
  <2>1. n + 1 \in 1..(n + 1) /\ stream'[n + 1].kind = "lockdown"
    BY <1>2, <1>5
  <2>2. m = n + 1
    BY <1>5, <2>1 DEF IsLast
  <2>3. stream'[m] = f
    BY <1>5, <2>2
  <2>4. PICK v \in 1..Len(raised') : Answers(v, now)'
    BY <1>7, <2>3
  <2>5. stream'[m].ms = now'
    BY <1>0, <1>2, <2>3
  <2> QED BY <2>4, <2>5 DEF Answers
<1>9. FlagsWereWarned'
  <2> SUFFICES ASSUME NEW v \in 1..Len(raised'), ~raised'[v].resolved
               PROVE  \E m \in 1..Len(stream') :
                 /\ stream'[m].kind = "lockdown" /\ stream'[m].ms = raised'[v].fired_at_ms
                 /\ \A j \in 1..Allowance : Sent(m - 1, stream[m].load, j)'
    BY DEF FlagsWereWarned
  <2>1. CASE v \in 1..Len(raised) /\ raised'[v] = raised[v]
    <3>1. PICK m \in 1..Len(stream) :
            /\ stream[m].kind = "lockdown" /\ stream[m].ms = raised[v].fired_at_ms
            /\ \A j \in 1..Allowance : Sent(m - 1, stream[m].load, j)
      BY <1>0, <2>1 DEF FlagsWereWarned
    <3>2. PICK at : at = raised[v].fired_at_ms /\ at = raised'[v].fired_at_ms
      BY <2>1
    <3> QED BY <1>0, <1>4, <3>1, <3>2, WarnedStays
  <2>2. CASE f.strike > MaxStrikes /\ raised'[v].fired_at_ms = now
    <3>1. ASSUME NEW j \in 1..Allowance PROVE Sent(n, f.load, j)
      <4>1. j \in 1..(c.strike - 1)
        BY <1>1, <1>2, <2>2, <3>1, Constants
      <4>2. Sent(n, c.load, j) \/ Asked(1 - 1, c.load, j)
        BY <1>0, <1>1, <1>3, <4>1 DEF CountsUnderWay
      <4>3. ~Asked(1 - 1, c.load, j)
        BY DEF Asked
      <4> QED BY <1>2, <4>2, <4>3
    <3>2. ASSUME NEW j \in 1..Allowance PROVE Sent((n + 1) - 1, stream[n + 1].load, j)'
      <4>1. n \in 0..Len(stream) /\ (n + 1) - 1 = n
        BY <1>3
      <4>2. Sent(n, f.load, j)'
        BY <1>0, <1>4, <3>1, <4>1, SentStays
      <4> QED BY <1>5, <4>1, <4>2 DEF Sent
    <3>3. n + 1 \in 1..Len(stream')
      BY <1>5
    <3> QED BY <1>2, <1>5, <2>2, <3>2, <3>3
  <2> QED BY <1>7, <2>1, <2>2
<1> QED BY <1>7, <1>8, <1>9

\* Every step keeps the warnings and the flags together.
LEMMA WarnStep ==
  ASSUME Allowance = MaxStrikes
  PROVE  WarnInv /\ [Next]_vars => WarnInv'
<1> SUFFICES ASSUME WarnInv, [Next]_vars
             PROVE  RuleInv' /\ LastIsAnswered' /\ FlagsWereWarned'
  BY CountStep DEF WarnInv
<1>0. /\ Typed /\ RuleInv /\ LastIsAnswered /\ FlagsWereWarned /\ RuleTyped
      /\ inbox \in Seq(Calls) /\ now \in Nat
  BY DEF WarnInv, CountInv, IInv, Typed, RuleInv
<1>a. inbox # <<>> => Head(inbox).load \in Nat
  <2>1. inbox # <<>> => Head(inbox) \in Calls
    BY <1>0, HeadTailProperties, EmptySeq
  <2> QED BY <2>1 DEF Calls
<1>1. ASSUME NEW kind \in Kinds \ {"lockdown"}, NEW from \in Nat,
             Emits(Frame(kind, from, 0)), UNCHANGED <<gateway, now>>
      PROVE  RuleInv' /\ LastIsAnswered' /\ FlagsWereWarned'
  <2>1. PICK f \in Frames : f.kind # "lockdown" /\ Emits(f)
    BY <1>0, <1>1, FrameType
  <2>2. LastIsAnswered' /\ FlagsWereWarned'
    BY <1>0, <1>1, <2>1, OtherFrameWarns DEF gateway
  <2> QED BY <1>0, <1>1, <2>2, QuietRule DEF gateway
<1>2. ASSUME UNCHANGED <<stream, raised>>
      PROVE  LastIsAnswered' /\ FlagsWereWarned'
  <2>1. stream' = stream /\ raised' = raised
    BY <1>2
  <2>2. \A v, at : Answers(v, at)' <=> Answers(v, at)
    BY <2>1 DEF Answers
  <2>3. \A n, from, j : Sent(n, from, j)' <=> Sent(n, from, j)
    BY <2>1 DEF Sent
  <2>4. \A n : IsLast(n)' <=> IsLast(n)
    BY <2>1 DEF IsLast
  <2>5. LastIsAnswered'
    BY <1>0, <2>1, <2>2, <2>4 DEF LastIsAnswered
  <2>6. FlagsWereWarned'
    BY <1>0, <2>1, <2>3 DEF FlagsWereWarned
  <2> QED BY <2>5, <2>6
<1>3. ASSUME UNCHANGED <<stream, gateway>>, now' \in Nat, now =< now'
      PROVE  RuleInv' /\ LastIsAnswered' /\ FlagsWereWarned'
  <2>1. UNCHANGED raised /\ UNCHANGED rule
    BY <1>3 DEF gateway
  <2> QED BY <1>0, <1>2, <1>3, <2>1, QuietRule
<1>4. CASE Enrolled \/ Attest \/ Environment \/ Heartbeat
  BY <1>1, <1>4 DEF Enrolled, Attest, Environment, Heartbeat, Kinds
<1>5. CASE Consent \/ Observe
  BY <1>1, <1>5, <1>a DEF Consent, Observe, Kinds
<1>6. CASE Quit
  <2>1. CASE Emitting
    BY <1>1, <1>6, <2>1 DEF Quit, Kinds
  <2>2. CASE ~Emitting
    BY <1>0, <1>3, <1>6, <2>2 DEF Quit
  <2> QED BY <2>1, <2>2
<1>7. CASE ObserveLockdown
  BY <1>7, LockdownWarns
<1>8. CASE GatewayRestart
  <2>1. /\ UNCHANGED <<stream, raised, now>> /\ firing' = FALSE
        /\ candidate_since_ms' = Rule!NotSet /\ releasing_since_ms' = Rule!NotSet
        /\ last_fired_ms' = Rule!NotSet /\ active_violation_id' = 0
    BY <1>8 DEF GatewayRestart
  <2>2. Rule!NotSet \in Int /\ Rule!NotSet =< now
    BY <1>0 DEF Rule!NotSet
  <2>3. 0 \in 0..Len(raised)
    BY <1>0, LenProperties DEF RuleTyped
  <2>4. RuleTyped'
    BY <1>0, <2>1, <2>2, <2>3 DEF RuleTyped
  <2> QED BY <1>2, <2>1, <2>4 DEF RuleInv, FiringIsOpen, CooldownIsOfAFlag
<1>9. CASE Elapse
  <2>1. UNCHANGED <<stream, gateway>> /\ now' = now + 1
    BY <1>9 DEF Elapse
  <2> QED BY <1>0, <1>3, <2>1
<1>10. ASSUME \/ EnrolFails \/ Serve \/ Reject \/ MediaJoin \/ Exit \/ Loaded \/ Accept
              \/ Lock \/ Report \/ Attempt \/ Reload \/ CloseWindow \/ UNCHANGED vars
              \/ \E works \in BOOLEAN : SetUp(works)
       PROVE  RuleInv' /\ LastIsAnswered' /\ FlagsWereWarned'
  <2>1. UNCHANGED <<stream, gateway>> /\ UNCHANGED now
    BY <1>10 DEF EnrolFails, Serve, Reject, MediaJoin, Exit, Loaded, Accept, Lock, MayProceed,
                 Report, Attempt, Reload, CloseWindow, SetUp, vars
  <2> QED BY <1>0, <1>3, <2>1
<1> QED BY <1>4, <1>5, <1>6, <1>7, <1>8, <1>9, <1>10 DEF Next

---------------------------------------------------------------------------
(* Warnings and flags                                                      *)

\* An action before which every number up to the allowance was sent has had as
\* many warnings.
LEMMA WarningsAreMany ==
  ASSUME Typed, NEW n \in 1..Len(stream),
         \A j \in 1..Allowance : Sent(n - 1, stream[n].load, j)
  PROVE  Cardinality({i \in Blocked : i < n /\ stream[i].load = stream[n].load}) >= Allowance
<1> DEFINE W == {i \in Blocked : i < n /\ stream[i].load = stream[n].load}
           warning(j) == CHOOSE i \in 1..(n - 1) :
                           /\ stream[i].kind = "lockdown"
                           /\ stream[i].load = stream[n].load /\ stream[i].strike = j
           number == [j \in 1..Allowance |-> warning(j)]
<1>1. Len(stream) \in Nat /\ DOMAIN stream = 1..Len(stream)
  BY LenProperties DEF Typed
<1>2. IsFiniteSet(1..Len(stream)) /\ W \subseteq 1..Len(stream)
  BY <1>1, FS_Interval DEF Blocked
<1>3. IsFiniteSet(W)
  BY <1>2, FS_Subset
<1>4. ASSUME NEW j \in 1..Allowance
      PROVE  number[j] \in W /\ stream[number[j]].strike = j
  <2>1. \E i \in 1..(n - 1) : /\ stream[i].kind = "lockdown"
                              /\ stream[i].load = stream[n].load /\ stream[i].strike = j
    BY DEF Sent
  <2>2. PICK i : i = warning(j) /\ i = number[j]
    OBVIOUS
  <2>3. /\ i \in 1..(n - 1) /\ stream[i].kind = "lockdown"
        /\ stream[i].load = stream[n].load /\ stream[i].strike = j
    BY <2>1, <2>2
  <2>4. i \in W
    BY <1>1, <2>3 DEF Blocked
  <2> QED BY <2>2, <2>3, <2>4
<1> HIDE DEF W
<1>5. number \in Injection(1..Allowance, W)
  <2>1. number \in [1..Allowance -> W]
    BY <1>4
  <2>2. \A j, k \in 1..Allowance : number[j] = number[k] => j = k
    BY <1>4
  <2> QED BY <2>1, <2>2 DEF Injection, IsInjective
<1>6. Cardinality(1..Allowance) = Allowance
  BY Constants, FS_Interval
<1>7. Cardinality(1..Allowance) =< Cardinality(W)
  BY <1>3, <1>5, FS_Injection
<1>8. Cardinality(W) \in Nat
  BY <1>3, FS_CardinalityType
<1> QED BY <1>6, <1>7, <1>8, Constants DEF W

\* The invariant says what the property does.
LEMMA WarnInvImplies == WarnInv => WarnedThenFlagged
<1> SUFFICES ASSUME WarnInv PROVE WarnedThenFlagged
  OBVIOUS
<1>1. /\ Typed /\ LastIsAnswered /\ FlagsWereWarned /\ raised \in Seq(Rule!Violation)
      /\ Len(stream) \in Nat /\ DOMAIN stream = 1..Len(stream)
      /\ Len(raised) \in Nat /\ DOMAIN raised = 1..Len(raised)
  BY LenProperties DEF WarnInv, CountInv, IInv, Typed, RuleInv, RuleTyped
<1>2. ToSet(raised) = {raised[v] : v \in 1..Len(raised)}
  BY <1>1 DEF ToSet
<1>3. ASSUME NEW n \in Blocked, \A i \in Blocked : i =< n, stream[n].strike > Allowance
      PROVE  \E v \in ToSet(raised) :
               /\ ~v.resolved
               /\ \/ ~\E w \in ToSet(raised) : w.resolved /\ w.id = v.id
                  \/ stream[n].ms - v.fired_at_ms < Cooldown
  <2>1. n \in 1..Len(stream) /\ stream[n].kind = "lockdown" /\ IsLast(n)
    BY <1>1, <1>3 DEF Blocked, IsLast
  <2>2. PICK v \in 1..Len(raised) : Answers(v, stream[n].ms)
    BY <1>1, <1>3, <2>1 DEF LastIsAnswered
  <2>3. raised[v] \in ToSet(raised)
    BY <1>2
  <2>4. \/ ~\E w \in ToSet(raised) : w.resolved /\ w.id = raised[v].id
        \/ stream[n].ms - raised[v].fired_at_ms < Cooldown
    BY <1>2, <2>2 DEF Answers
  <2> QED BY <2>2, <2>3, <2>4 DEF Answers
<1>4. ASSUME NEW v \in ToSet(raised), ~v.resolved
      PROVE  \E n \in Blocked :
               /\ stream[n].ms = v.fired_at_ms
               /\ Cardinality({i \in Blocked : i < n /\ stream[i].load = stream[n].load})
                    >= Allowance
  <2>1. PICK u \in 1..Len(raised) : v = raised[u]
    BY <1>2
  <2>2. PICK n \in 1..Len(stream) :
          /\ stream[n].kind = "lockdown" /\ stream[n].ms = v.fired_at_ms
          /\ \A j \in 1..Allowance : Sent(n - 1, stream[n].load, j)
    BY <1>1, <1>4, <2>1 DEF FlagsWereWarned
  <2>3. n \in Blocked
    BY <1>1, <2>2 DEF Blocked
  <2> QED BY <1>1, <2>2, <2>3, WarningsAreMany
<1> QED BY <1>3, <1>4 DEF WarnedThenFlagged

\* With the page's allowance and the policy's limit the same, as they are in
\* lockdown.ts and default.yaml, an attempt beyond the last warning finds a
\* flag, and a flag comes after every warning, given by one load of the page:
\* whatever is reloaded, rejected or restarted in between.
THEOREM WarnedFirst ==
  ASSUME Allowance = MaxStrikes
  PROVE  Spec => []WarnedThenFlagged
<1>1. Init => WarnInv
  BY InitWarnInv
<1>2. WarnInv /\ [Next]_vars => WarnInv'
  BY WarnStep
<1>3. WarnInv => WarnedThenFlagged
  BY WarnInvImplies
<1> QED BY <1>1, <1>2, <1>3, PTL DEF Spec

===========================================================================
