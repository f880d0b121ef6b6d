----------------------------- MODULE Gateway -----------------------------
(***************************************************************************)
(* The telemetry side of the gateway: src/python/proctor_gateway/app.py    *)
(* with the session registry, the fusion engine's session table, the       *)
(* triage board and the durable store it drives.                           *)
(*                                                                         *)
(* One asyncio loop runs every handler.  Between two awaits that really    *)
(* suspend (waiting for a frame, for the tick timer, for a new connection) *)
(* a handler is one step: hub.publish takes a lock nobody holds across an  *)
(* await.  What is left to interleave is the order of the steps, the       *)
(* sockets of one session overlapping, and the process dying, which it may *)
(* do inside a handler.                                                    *)
(***************************************************************************)
EXTENDS StreamIntegrity, FiniteSets

CONSTANTS
  Sessions,         \* session ids
  Conns,            \* telemetry sockets
  NoSession,        \* what a socket that is not open is attached to
  Clients,          \* the values of a frame's monotonic counter
  Payloads,         \* the payloads frames carry, a subset of PayloadKinds
  MaxGap,           \* policy.liveness.max_gap_ms
  SilenceCooldown,  \* policy.liveness.cooldown_ms
  RestoredPerSession, \* RESTORED_VIOLATIONS_PER_SESSION
  MaxSeq,           \* bound: highest sequence number sent
  MaxClock,         \* bound: the server clock stops here
  MaxFrames,        \* bound: frames received over the whole run
  MaxAttaches,      \* bound: sockets accepted over the whole run
  MaxCrashes        \* bound: process crashes

\* What the gateway tells apart in a payload: the lifecycle event that ends
\* the exam, a sample some rule of the policy reads, anything else.
SessionEnd == "session_end"
Sample     == "sample"
Heartbeat  == "heartbeat"
PayloadKinds == {SessionEnd, Sample, Heartbeat}

ASSUME GatewayAssumption ==
  /\ NoSession \notin Sessions
  /\ Clients \subseteq Nat
  /\ Payloads \subseteq PayloadKinds
  /\ {MaxGap, SilenceCooldown, RestoredPerSession, MaxSeq, MaxFrames,
      MaxAttaches, MaxCrashes} \subseteq Nat
  /\ MaxClock \in Nat \ {0}

\* A frame as verify_frame leaves it; signed is FALSE when authentication
\* fails or the envelope names another session.
Frame == [signed : BOOLEAN, seq : 0..MaxSeq, ts_monotonic_ms : Clients,
          payload : Payloads]

\* The rule that stands for the policy, and the silence rule.
PolicyRule == "policy_rule"
StreamSilent == "stream_silent"
RuleIds == Breach \cup {PolicyRule, StreamSilent}
NoFlag == 0

VARIABLES
  (*************************************************************************)
  (* Memory of the process, rebuilt by Restart                             *)
  (*************************************************************************)
  up,        \* the process runs and has restored its state
  sessions,  \* SessionRegistry._sessions
  engine,    \* FusionEngine._sessions
  board,     \* TriageBoard._sessions
  conns,     \* the session each telemetry socket is attached to
  (*************************************************************************)
  (* The durable store                                                     *)
  (*************************************************************************)
  created,   \* the sessions that have a row
  disk,      \* table sessions
  rows,      \* table violations, per session, in order of insertion
  (*************************************************************************)
  (* The environment                                                       *)
  (*************************************************************************)
  now,       \* the server's clock
  frames,    \* frames received so far, for the bound
  attaches,  \* sockets accepted so far, for the bound
  crashes,   \* process crashes so far
  (*************************************************************************)
  (* History, read by properties only                                      *)
  (*************************************************************************)
  kept,      \* sequence numbers whose checkpoint reached the store
  evaluated, \* how often each sequence number was handed to the engine
  attached,  \* a client has attached, in this run of the process
  overlapped \* a socket closed beside an open one, since the last attach

memory  == <<up, sessions, engine, board, conns>>
store   == <<created, disk, rows>>
history == <<kept, evaluated, attached, overlapped>>
vars    == <<memory, store, now, frames, attaches, crashes, history>>

---------------------------------------------------------------------------
EngineSession ==
  [closed : BOOLEAN, connected : BOOLEAN, last_event_ms : Nat,
   liveness_last_fired_ms : Int, active_violation_id : Nat]

BoardSession ==
  [connected : BOOLEAN, ended_cleanly : BOOLEAN, events_received : Nat,
   open_violations : SUBSET Nat]

Violation ==
  [violation_id : Nat, rule_id : RuleIds, resolved : BOOLEAN,
   recorded_ms : Nat, boot : Nat]

TypeOK ==
  /\ up \in BOOLEAN
  /\ sessions \in [Sessions -> Session]
  /\ engine \in [Sessions -> EngineSession]
  /\ board \in [Sessions -> BoardSession]
  /\ conns \in [Conns -> Sessions \cup {NoSession}]
  /\ created \in SUBSET Sessions
  /\ disk \in [Sessions -> Session]
  /\ rows \in [Sessions -> Seq(Violation)]
  /\ now \in 1..MaxClock
  /\ frames \in 0..MaxFrames
  /\ attaches \in 0..MaxAttaches
  /\ crashes \in 0..MaxCrashes
  /\ kept \in [Sessions -> SUBSET (0..MaxSeq)]
  /\ evaluated \in [Sessions -> [0..MaxSeq -> Nat]]
  /\ attached \in [Sessions -> BOOLEAN]
  /\ overlapped \in [Sessions -> BOOLEAN]

---------------------------------------------------------------------------
(* The parts a handler changes.                                            *)

\* engine.open_session: a fresh state counts as connected.
OpenedEngine(t) ==
  [closed |-> FALSE, connected |-> TRUE, last_event_ms |-> t,
   liveness_last_fired_ms |-> None, active_violation_id |-> NoFlag]

\* Mutated form of EngineConnected: a client that comes back is not noticed.
EngineNeverBack(e, yes) == [e EXCEPT !.connected = @ /\ yes]

\* engine.set_connected
EngineConnected(e, yes) ==
  [e EXCEPT !.connected = yes,
            !.liveness_last_fired_ms = IF yes THEN None ELSE @]

NewBoardSession ==
  [connected |-> FALSE, ended_cleanly |-> FALSE, events_received |-> 0,
   open_violations |-> {}]

\* Row i of a sequence of violations fires a flag no later row resolves.
LeavesOpen(vs, i) ==
  /\ ~vs[i].resolved
  /\ \A j \in DOMAIN vs :
       j > i /\ vs[j].violation_id = vs[i].violation_id => ~vs[j].resolved

\* The flags a sequence of violations leaves open when it is replayed into
\* an empty board entry (add_violation).
OpenIn(vs) ==
  {vs[i].violation_id : i \in {i \in DOMAIN vs : LeavesOpen(vs, i)}}

\* Mutated form of OpenAfter: a resolution closes nothing.
OpenForever(open, vs) == open \cup OpenIn(vs)

\* record_violation for each of vs, on an entry with flags open.
OpenAfter(open, vs) ==
  {id \in open : \A i \in DOMAIN vs :
                   vs[i].violation_id = id => ~vs[i].resolved}
    \cup OpenIn(vs)

\* _Broadcast.publish of violations: the board, then the store.
Publish(s, vs) ==
  /\ board' = [board EXCEPT ![s].open_violations = OpenAfter(@, vs)]
  /\ rows' = [rows EXCEPT ![s] = @ \o vs]

Raised(id, rule, over) ==
  [violation_id |-> id, rule_id |-> rule, resolved |-> over,
   recorded_ms |-> now, boot |-> crashes]

\* An unused violation id of session s: ids are random in the code, and all
\* that matters is that no row of the session carries it.
FreshId(s) == Len(rows[s]) + 1

\* _raise_breach: what it publishes for a session whose state is x.
BreachRows(s, x, b) ==
  IF Reportable(x, b, now) THEN <<Raised(FreshId(s), b, FALSE)>> ELSE <<>>

---------------------------------------------------------------------------
(* _handle_frame: what the frame f does to session s.                      *)

Verdicts(x, f) ==
  IF f.signed THEN BreachesOf(x, f, now) ELSE {BadSignature}

\* The session after authentication, the check and any breach.
AfterCheck(s, f) ==
  LET x == IF f.signed THEN Checked(sessions[s], f, now) ELSE sessions[s]
      v == Verdicts(sessions[s], f)
  IN IF v = {} THEN x ELSE Breached(x, CHOOSE b \in v : TRUE, now)

\* Forged and replayed frames are flagged and go no further.
IsRead(s, f) == f.signed /\ ~IsReplay(sessions[s], f)
Ends(s, f)   == IsRead(s, f) /\ f.payload = SessionEnd

\* Mutated form of IsEvaluated: a closed session goes on.
IsEvaluatedWhenClosed(s, f) == IsRead(s, f) /\ ~Ends(s, f)

\* engine.on_event returns at once for a closed session.
IsEvaluated(s, f) == IsRead(s, f) /\ ~Ends(s, f) /\ ~engine[s].closed

SessionAfter(s, f) ==
  [AfterCheck(s, f) EXCEPT !.ended_cleanly = @ \/ Ends(s, f)]

\* What the rule may answer to a sample: nothing, a firing when it is not
\* firing, the resolution of its firing.  FusionRule says which and when.
RuleAnswers(s, f, id) ==
  {<<>>} \cup
  (IF ~IsEvaluated(s, f) \/ f.payload # Sample THEN {}
   ELSE IF engine[s].active_violation_id = NoFlag
        THEN {<<Raised(id, PolicyRule, FALSE)>>}
        ELSE {<<Raised(engine[s].active_violation_id, PolicyRule, TRUE)>>})

EngineAfter(s, f, answer) ==
  [engine[s] EXCEPT
     !.closed = @ \/ Ends(s, f),
     !.last_event_ms = IF IsEvaluated(s, f) THEN now ELSE @,
     !.active_violation_id =
        IF answer = <<>> THEN @
        ELSE IF answer[1].resolved THEN NoFlag ELSE answer[1].violation_id]

\* The violations a frame publishes, in order: its breach, then the rule's.
BreachPart(s, f) ==
  LET v == Verdicts(sessions[s], f)
  IN IF v = {} THEN <<>>
     ELSE BreachRows(s, sessions[s], CHOOSE b \in v : TRUE)

Publications(s, f) ==
  {BreachPart(s, f) \o a :
     a \in RuleAnswers(s, f, FreshId(s) + Len(BreachPart(s, f)))}

\* The rule's answer is what follows the breach.
AnswerIn(s, f, vs) ==
  SubSeq(vs, Len(BreachPart(s, f)) + 1, Len(vs))

NoteEvaluation(s, f) ==
  evaluated' =
    IF IsEvaluated(s, f) THEN [evaluated EXCEPT ![s][f.seq] = @ + 1]
    ELSE evaluated

---------------------------------------------------------------------------
(* Actions                                                                 *)

\* POST /v1/sessions
CreateSession(s) ==
  /\ up
  /\ s \notin created
  /\ created' = created \cup {s}
  /\ sessions' = [sessions EXCEPT ![s] = NewSession]
  /\ disk' = [disk EXCEPT ![s] = ToRecord(NewSession)]
  /\ engine' = [engine EXCEPT ![s] = OpenedEngine(now)]
  /\ board' = [board EXCEPT ![s] = NewBoardSession]
  /\ UNCHANGED <<up, conns, rows, now, frames, attaches, crashes, history>>

\* A telemetry socket of session s is accepted.
Connect(c, s) ==
  /\ up
  /\ s \in created
  /\ conns[c] = NoSession
  /\ attaches < MaxAttaches
  /\ attaches' = attaches + 1
  /\ conns' = [conns EXCEPT ![c] = s]
  /\ sessions' = [sessions EXCEPT ![s].connected = TRUE]
  /\ engine' = [engine EXCEPT ![s] = EngineConnected(@, TRUE)]
  /\ board' = [board EXCEPT ![s].connected = TRUE]
  /\ attached' = [attached EXCEPT ![s] = TRUE]
  /\ overlapped' = [overlapped EXCEPT ![s] = FALSE]
  /\ UNCHANGED <<up, store, now, frames, crashes, kept, evaluated>>

\* One round of the socket's loop: the frame, then the checkpoint.
ReceiveFrame(c, f) ==
  LET s == conns[c] IN
  /\ up
  /\ s # NoSession
  /\ frames < MaxFrames
  /\ frames' = frames + 1
  /\ \E vs \in Publications(s, f) :
       /\ Publish(s, vs)
       /\ engine' = [engine EXCEPT ![s] = EngineAfter(s, f, AnswerIn(s, f, vs))]
  /\ sessions' = [sessions EXCEPT ![s] = SessionAfter(s, f)]
  /\ disk' = [disk EXCEPT ![s] = ToRecord(SessionAfter(s, f))]
  /\ NoteEvaluation(s, f)
  /\ kept' = IF f.signed /\ Advances(sessions[s], f)
             THEN [kept EXCEPT ![s] = @ \cup {f.seq}] ELSE kept
  /\ UNCHANGED <<up, conns, created, now, attaches, crashes, attached,
                 overlapped>>

\* The socket's `finally`: the checkpoint comes before the breach.
Disconnect(c) ==
  LET s == conns[c]
      x == [sessions[s] EXCEPT !.connected = FALSE]
      abandoned == ~x.ended_cleanly
  IN
  /\ up
  /\ s # NoSession
  /\ conns' = [conns EXCEPT ![c] = NoSession]
  /\ disk' = [disk EXCEPT ![s] = ToRecord(x)]
  /\ engine' = [engine EXCEPT ![s] = EngineConnected(@, FALSE)]
  /\ sessions' = [sessions EXCEPT ![s] =
                    IF abandoned THEN Breached(x, Abandoned, now) ELSE x]
  /\ LET vs == IF abandoned THEN BreachRows(s, x, Abandoned) ELSE <<>> IN
       /\ rows' = [rows EXCEPT ![s] = @ \o vs]
       /\ board' = [board EXCEPT ![s] =
            [connected |-> FALSE,
             ended_cleanly |-> x.ended_cleanly,
             events_received |-> x.events_received,
             open_violations |-> OpenAfter(@.open_violations, vs)]]
  /\ overlapped' =
       [overlapped EXCEPT ![s] = @ \/ \E d \in Conns \ {c} : conns[d] = s]
  /\ UNCHANGED <<up, created, now, frames, attaches, crashes, kept, evaluated, attached>>

\* Mutated form of FallsSilent: once flagged, never again.
FallsSilentOnce(s) ==
  /\ s \in created
  /\ ~engine[s].closed
  /\ engine[s].connected
  /\ now - engine[s].last_event_ms >= MaxGap
  /\ engine[s].liveness_last_fired_ms = None

\* The sessions on_tick raises stream_silent for.
FallsSilent(s) ==
  /\ s \in created
  /\ ~engine[s].closed
  /\ engine[s].connected
  /\ now - engine[s].last_event_ms >= MaxGap
  /\ \/ engine[s].liveness_last_fired_ms = None
     \/ now - engine[s].liveness_last_fired_ms >= SilenceCooldown

\* A tick that raises something; any other changes nothing.
Tick ==
  LET silent == {s \in Sessions : FallsSilent(s)}
      row(s) == IF s \in silent
                THEN <<Raised(FreshId(s), StreamSilent, FALSE)>> ELSE <<>>
  IN
  /\ up
  /\ silent # {}
  /\ engine' = [s \in Sessions |->
       IF s \in silent THEN [engine[s] EXCEPT !.liveness_last_fired_ms = now]
       ELSE engine[s]]
  /\ rows' = [s \in Sessions |-> rows[s] \o row(s)]
  /\ board' = [s \in Sessions |-> [board[s] EXCEPT
       !.open_violations = OpenAfter(@, row(s))]]
  /\ UNCHANGED <<up, sessions, conns, created, disk, now, frames, attaches, crashes, history>>

\* The server's clock advances.
Elapse ==
  /\ now < MaxClock
  /\ now' = now + 1
  /\ UNCHANGED <<memory, store, frames, attaches, crashes, history>>

\* What is left of the process when it dies.
MemoryLost ==
  /\ up' = FALSE
  /\ sessions' = [s \in Sessions |-> NewSession]
  /\ engine' = [s \in Sessions |-> OpenedEngine(0)]
  /\ board' = [s \in Sessions |-> NewBoardSession]
  /\ conns' = [c \in Conns |-> NoSession]
  /\ attached' = [s \in Sessions |-> FALSE]
  /\ overlapped' = [s \in Sessions |-> FALSE]
  /\ crashes' = crashes + 1

\* The process dies between two handlers.
Crash ==
  /\ up
  /\ crashes < MaxCrashes
  /\ MemoryLost
  /\ UNCHANGED <<store, now, frames, attaches, kept, evaluated>>

\* The process dies inside the handling of a frame: of what the frame
\* publishes a prefix is in the store, its checkpoint is not.
CrashInFrame(c, f) ==
  LET s == conns[c] IN
  /\ up
  /\ s # NoSession
  /\ crashes < MaxCrashes
  /\ frames < MaxFrames
  /\ frames' = frames + 1
  /\ \E vs \in Publications(s, f) : \E n \in 0..Len(vs) :
       rows' = [rows EXCEPT ![s] = @ \o SubSeq(vs, 1, n)]
  /\ NoteEvaluation(s, f)
  /\ MemoryLost
  /\ UNCHANGED <<created, disk, now, attaches, kept>>

\* Mutated form of Newest: the limit without the order, so the oldest rows.
NewestDropped(vs) ==
  SubSeq(vs, 1, IF Len(vs) > RestoredPerSession THEN RestoredPerSession
                ELSE Len(vs))

\* load_violations: the newest rows of a session, firings and resolutions
\* alike, oldest first.
Newest(vs) ==
  SubSeq(vs, IF Len(vs) > RestoredPerSession
             THEN Len(vs) - RestoredPerSession + 1 ELSE 1, Len(vs))

\* _restore, for the sessions the store has.  (The purge that comes before it
\* is in module Monitors.)
Restart ==
  /\ ~up
  /\ up' = TRUE
  /\ sessions' = disk
  /\ engine' = [s \in Sessions |->
       IF s \in created
       THEN [EngineConnected(OpenedEngine(now), FALSE) EXCEPT
               !.closed = disk[s].ended_cleanly]
       ELSE OpenedEngine(0)]
  /\ board' = [s \in Sessions |->
       IF s \in created
       THEN [connected |-> FALSE,
             ended_cleanly |-> disk[s].ended_cleanly,
             events_received |-> disk[s].events_received,
             open_violations |-> OpenIn(Newest(rows[s]))]
       ELSE NewBoardSession]
  /\ UNCHANGED <<conns, store, now, frames, attaches, crashes, history>>

Init ==
  /\ up = TRUE
  /\ sessions = [s \in Sessions |-> NewSession]
  /\ engine = [s \in Sessions |-> OpenedEngine(0)]
  /\ board = [s \in Sessions |-> NewBoardSession]
  /\ conns = [c \in Conns |-> NoSession]
  /\ created = {}
  /\ disk = [s \in Sessions |-> NewSession]
  /\ rows = [s \in Sessions |-> <<>>]
  /\ now = 1
  /\ frames = 0
  /\ attaches = 0
  /\ crashes = 0
  /\ kept = [s \in Sessions |-> {}]
  /\ evaluated = [s \in Sessions |-> [n \in 0..MaxSeq |-> 0]]
  /\ attached = [s \in Sessions |-> FALSE]
  /\ overlapped = [s \in Sessions |-> FALSE]

Next ==
  \/ \E s \in Sessions : CreateSession(s)
  \/ \E c \in Conns, s \in Sessions : Connect(c, s)
  \/ \E c \in Conns, f \in Frame : ReceiveFrame(c, f)
  \/ \E c \in Conns, f \in Frame : CrashInFrame(c, f)
  \/ \E c \in Conns : Disconnect(c)
  \/ Tick
  \/ Elapse
  \/ Crash
  \/ Restart

Spec == Init /\ [][Next]_vars

---------------------------------------------------------------------------
(* Safety                                                                  *)

\* The breach log and the counters are two accounts of the same breaches:
\* the log holds one entry per breach up to the cap, then one closing entry,
\* and goes on matching after any number of restarts (record_breach and
\* should_report_breach are always called together).
Sum5(g) == g[Replay] + g[SequenceGap] + g[ClockSkew] + g[BadSignature]
             + g[Abandoned]

LogMatchesCounts(x) ==
  Len(x.integrity_breaches) =
    (IF Sum5(x.breach_counts) > MaxRecordedBreaches
     THEN MaxRecordedBreaches + 1 ELSE Sum5(x.breach_counts))

BreachLogMatchesCounts ==
  \A s \in Sessions : LogMatchesCounts(sessions[s]) /\ LogMatchesCounts(disk[s])

\* Whatever decides on the next frame is in the store whenever no handler
\* runs: the position and clocks of the stream, the end of the exam, and the
\* counts of the breaches raised by frames ("Checkpoint on every frame").
StreamStateDurable ==
  up => \A s \in Sessions :
    /\ \A field \in {"last_seq", "last_monotonic_ms", "first_client_ms",
                     "first_server_ms", "events_received", "ended_cleanly"} :
         disk[s][field] = sessions[s][field]
    /\ \A b \in Breach \ {Abandoned} :
         disk[s].breach_counts[b] = sessions[s].breach_counts[b]

\* events_received counts distinct sequence numbers: neither a replay nor a
\* rewound frame nor a restart makes it count one twice or forget one.
EventsAreDistinct ==
  \A s \in Sessions : disk[s].events_received = Cardinality(kept[s])

\* The flag row i fires is one the process has seen: it raised it itself, or
\* read it at its start, as it surely did if the row still is among the newest.
Seen(vs, i) ==
  vs[i].boot = crashes \/ i > Len(vs) - RestoredPerSession

\* The live board and the store agree on what is open, across handlers, crashes
\* inside them and restarts: the board shows no flag that replaying all rows
\* would not leave open, and lacks one only if an earlier process raised it and
\* RestoredPerSession newer rows of the session are behind it ("A flag raised
\* against someone and then lost to a restart is worse than never flagging").
BoardIsReplayOfStore ==
  up => \A s \in Sessions :
    /\ board[s].open_violations \subseteq OpenIn(rows[s])
    /\ \A i \in DOMAIN rows[s] :
         LeavesOpen(rows[s], i) /\ Seen(rows[s], i)
           => rows[s][i].violation_id \in board[s].open_violations

\* A stream is watched for silence whenever a socket is open, unless a socket
\* closed beside it (the flag is a boolean, not a count of sockets); and once
\* a client has attached it is watched only while a socket is open.
Live(s) == \E c \in Conns : conns[c] = s

WatchedUnlessOverlapped ==
  up => \A s \in created :
    /\ Live(s) /\ ~overlapped[s] => engine[s].connected
    /\ attached[s] /\ engine[s].connected => Live(s)

---------------------------------------------------------------------------
(* Action properties                                                       *)

\* "A restart must not be a way to launder a replay": once the checkpoint of
\* a sequence number is stored, no frame with that number is evaluated again.
NoLaunderedReplay ==
  [][\A s \in Sessions : \A n \in kept[s] :
       evaluated'[s][n] = evaluated[s][n]]_vars

\* The store never goes back: not the position, not the count of a breach,
\* not the end of the exam.
DurableProgress ==
  [][\A s \in Sessions :
       /\ disk'[s].last_seq >= disk[s].last_seq
       /\ disk'[s].last_monotonic_ms >= disk[s].last_monotonic_ms
       /\ \A b \in Breach :
            disk'[s].breach_counts[b] >= disk[s].breach_counts[b]
       /\ disk[s].ended_cleanly => disk'[s].ended_cleanly]_vars

\* Once the end of the exam is stored nothing but breaches is flagged: no rule
\* fires or resolves and no silence is raised, on any socket or after any
\* restart.
EndIsFinal ==
  [][\A s \in Sessions : disk[s].ended_cleanly =>
       \A i \in DOMAIN rows'[s] \ DOMAIN rows[s] :
         rows'[s][i].rule_id \in Breach]_vars

---------------------------------------------------------------------------
(* Liveness.  Time passes, and the tick loop is a timer of the event loop  *)
(* that an exception does not stop: it keeps ticking while the process     *)
(* runs.  Clients, crashes and restarts are owed nothing.                  *)

FairSpec == Spec /\ WF_vars(Tick) /\ WF_vars(Elapse)

\* The stream of s is watched and its last event came in at t.
QuietSince(s, t) ==
  /\ up
  /\ s \in created
  /\ ~engine[s].closed
  /\ engine[s].connected
  /\ engine[s].last_event_ms = t

FlaggedAfter(s, t) ==
  \E i \in DOMAIN rows[s] :
    rows[s][i].rule_id = StreamSilent /\ rows[s][i].recorded_ms >= t

\* A watched stream that stays quiet is flagged, even when an earlier silence
\* was flagged less than the cooldown ago or the client reattached meanwhile;
\* only a new event, the end of the exam, the loss of the client or of the
\* process gets it out of that.  (The clock must have room for the wait: a silence
\* flagged before this one's gap was over may hold it up for the cooldown.)
SilenceIsFlagged ==
  \A s \in Sessions, t \in 1..MaxClock :
    t + MaxGap + SilenceCooldown - 1 =< MaxClock =>
      (QuietSince(s, t) ~> (FlaggedAfter(s, t + MaxGap) \/ ~QuietSince(s, t)))

---------------------------------------------------------------------------
(* What the code's comments say and the code does not do.                  *)

\* "Falling quiet while still connected" is what the silence rule stops: every
\* open stream is watched.
LiveStreamIsWatched ==
  up => \A s \in created : Live(s) => engine[s].connected

===========================================================================
