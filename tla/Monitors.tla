----------------------------- MODULE Monitors -----------------------------
(***************************************************************************)
(* Identity probes and audio chunks over HTTP (app.py): handlers that wait *)
(* for a model and then judge, store and publish, on top of the verifier,  *)
(* the audio monitor, the triage board and the store; and what the start   *)
(* of the process purges from the store and restores from it.              *)
(*                                                                         *)
(* A handler is one step between two waits, and the waits are the calls    *)
(* to the models (asyncio.to_thread).  Telemetry is seen through what it   *)
(* publishes and checkpoints; module Gateway has the rest of it.  The      *)
(* clock counts days.                                                      *)
(***************************************************************************)
EXTENDS Store, IdentityVerifier, AudioMonitor

CONSTANTS
  Sessions,
  Calls,              \* requests that may wait at the same time
  Faces,              \* embeddings of the captures of a probe
  CaptureSets,        \* sequences of embeddings offered for an enrolment
  Answers,            \* of the intent classifier
  Embedders,          \* models a process may be started with
  RetentionDays,      \* retention_days
  TemplateDays,       \* template_retention_days
  TranscriptDays,     \* audio_transcript_retention_days
  RestoredPerSession, \* RESTORED_VIOLATIONS_PER_SESSION
  Deployments         \* what the settings enable, each with its bounds

\* A deployment: identity_enabled, audio_enabled and llm_complete, and how
\* many sessions, requests, telemetry steps, restarts, failing writes, days
\* and steps back of the clock it is followed for.
Deployment ==
  [identity : BOOLEAN, audio : {"disabled", "transcribe", "classify"},
   sessions : SUBSET Sessions, requests : Nat, telemetry : Nat, restarts : Nat,
   failures : Nat, days : Nat, steps_back : Nat]

ASSUME MonitorsAssumption ==
  /\ Deployments \subseteq Deployment
  /\ {RetentionDays, TemplateDays, TranscriptDays, RestoredPerSession} \subseteq Nat
  /\ Embedders # {} /\ None \notin Faces

VARIABLES
  (* the process *)
  settings,  \* the deployment
  embedder,  \* the name of the model this process embeds with
  registry,  \* sessions it knows
  board,     \* per session shown: whether its metadata is known, open flags
  verifier,  \* SessionIdentity, per session
  audio,     \* SessionAudio, per session
  calls,     \* the requests under way
  (* the world *)
  db,
  now,
  uuids,     \* ids given out so far
  left,      \* what is left of the bounds
  created,   \* session ids given out, which are random and never come again
  (* history *)
  boot,      \* of the last start: rows there were, cutoffs, nothing restored
  enrolled,  \* per session: its rows of checks at its last enrolment
  failed     \* sessions one of whose writes raised

memory == <<settings, embedder, registry, board, verifier, audio, calls>>
vars == <<memory, db, now, uuids, left, created, boot, enrolled, failed>>

Idle == [kind |-> "idle"]

---------------------------------------------------------------------------
(* The board.                                                              *)

\* ensure
Ensure(b, s, known) ==
  Upsert(b, s, IF s \in DOMAIN b THEN [b[s] EXCEPT !.known = @ \/ known]
               ELSE [known |-> known, open |-> {}])

\* record_violation, of a firing and of a resolution.
RecordViolation(b, v) ==
  LET e == Ensure(b, v.session_id, FALSE) IN
  [e EXCEPT ![v.session_id].open =
     IF v.resolved THEN @ \ {v.id} ELSE @ \cup {v.id}]

\* _flag_violation, and what the fusion engine makes.
Violation(s, id, rule, resolved, opened, ref) ==
  [session_id |-> s, id |-> id, rule_id |-> rule, resolved |-> resolved,
   opened_at_ms |-> opened, transcript_ref |-> ref]

---------------------------------------------------------------------------
(* Starting: purge, then restore.                                          *)

\* The cutoff of a retention setting; zero days keep everything.
Cutoff(days) == IF days = 0 THEN -1 ELSE now - days

\* _purge, _purge_templates, _purge_transcripts
Purged(d) ==
  PurgeTranscriptsOlderThan(
    PurgeTemplatesOlderThan(
      PurgeOlderThan(d, Cutoff(RetentionDays)),
      Cutoff(TemplateDays)),
    Cutoff(TranscriptDays))

\* Mutated form of Restorable: what is restored is read before the purge.
RestorableUnpurged(d) == d

\* What the store holds once the start has purged it.
Restorable(d) == Purged(d)

\* _restore: nothing at all without a session row; otherwise the sessions,
\* then the violations of any session, replayed oldest first.
Restored(d) ==
  LET shown == LoadSessions(d) \cup {d.violations[i].session_id : i \in DOMAIN d.violations}
      Replay(s) ==
        FoldLeft(RecordViolation,
                 Ensure(<<>>, s, s \in LoadSessions(d)),
                 LoadViolations(d, s, RestoredPerSession))[s]
  IN IF LoadSessions(d) = {} THEN <<>> ELSE [s \in shown |-> Replay(s)]

\* Mutated form of RestoredTemplates: whatever model made it.
RestoredTemplatesAny(d, model) ==
  [s \in Sessions |->
     IF s \in DOMAIN LoadTemplates(d)
     THEN Enrol(NewIdentity, LoadTemplates(d)[s].reference) ELSE NewIdentity]

\* _restore_templates: those this process's model made.
RestoredTemplates(d, model) ==
  [s \in Sessions |->
     IF s \in DOMAIN LoadTemplates(d) /\ LoadTemplates(d)[s].embedder = model
     THEN Enrol(NewIdentity, LoadTemplates(d)[s].reference) ELSE NewIdentity]

Unstarted ==
  [checks |-> 0, audio |-> 0, flags |-> 0, bare |-> FALSE,
   cutoff |-> -1, templates |-> -1, transcripts |-> -1]

\* lifespan, after a crash or a stop that left d; the process that ended
\* takes its requests with it.
Start(d) ==
  LET found == Restorable(d)
      kept == Purged(d)
  IN
  /\ db' = kept
  /\ registry' = LoadSessions(found)
  /\ board' = Restored(found)
  /\ \E model \in Embedders :
       /\ embedder' = model
       /\ verifier' = IF settings.identity THEN RestoredTemplates(found, model)
                      ELSE [s \in Sessions |-> NewIdentity]
  /\ audio' = [s \in Sessions |-> NewAudio]
  /\ calls' = [c \in Calls |-> Idle]
  /\ boot' = [checks |-> Len(kept.identity_checks), audio |-> Len(kept.audio_checks),
              flags |-> Len(kept.violations), bare |-> LoadSessions(found) = {},
              cutoff |-> Cutoff(RetentionDays), templates |-> Cutoff(TemplateDays),
              transcripts |-> Cutoff(TranscriptDays)]
  /\ enrolled' = [s \in Sessions |-> 0]
  /\ failed' = {}
  /\ UNCHANGED <<settings, now, uuids, created>>

Init ==
  /\ settings \in Deployments
  /\ embedder \in Embedders
  /\ registry = {}
  /\ board = <<>>
  /\ verifier = [s \in Sessions |-> NewIdentity]
  /\ audio = [s \in Sessions |-> NewAudio]
  /\ calls = [c \in Calls |-> Idle]
  /\ db = EmptyStore
  /\ now = 0
  /\ uuids = 0
  /\ left = [requests |-> settings.requests, telemetry |-> settings.telemetry,
             restarts |-> settings.restarts, failures |-> settings.failures, steps_back |-> settings.steps_back]
  /\ created = {}
  /\ boot = Unstarted
  /\ enrolled = [s \in Sessions |-> 0]
  /\ failed = {}

---------------------------------------------------------------------------
(* Requests.                                                               *)

Arrives == left.requests > 0 /\ left' = [left EXCEPT !.requests = @ - 1]

Waits(c, call) ==
  /\ calls[c] = Idle
  /\ calls' = [calls EXCEPT ![c] = call]
  /\ Arrives
  /\ UNCHANGED <<settings, embedder, registry, board, verifier, audio, db, now,
                 uuids, created, boot, enrolled, failed>>

Ends(c) == calls' = [calls EXCEPT ![c] = Idle]

\* The write that raises, if one of them does, and leaves the rest undone.
Raises(s, write) ==
  IF write = "none" THEN UNCHANGED <<left, failed>>
  ELSE /\ left.failures > 0
       /\ left' = [left EXCEPT !.failures = @ - 1]
       /\ failed' = failed \cup {s}

\* create_session
CreateSession(s) ==
  /\ s \in settings.sessions \ created
  /\ created' = created \cup {s}
  /\ registry' = registry \cup {s}
  /\ db' = SaveSession(db, s, now)
  /\ board' = Ensure(board, s, TRUE)
  /\ UNCHANGED <<settings, embedder, verifier, audio, calls, now, uuids, left, boot,
                 enrolled, failed>>

\* enrol_identity, up to the embedding of the captures.
BeginEnrol(c, s, captures) ==
  /\ s \in registry /\ settings.identity
  /\ Waits(c, [kind |-> "enrol", session |-> s, captures |-> captures])

\* The rest of it: the verifier first, then the store; captures that disagree
\* change nothing (422).
FinishEnrol(c, write) ==
  LET s == calls[c].session
      reference == BuildEnrolment(calls[c].captures)
  IN
  /\ calls[c].kind = "enrol"
  /\ Ends(c)
  /\ IF Consistent(calls[c].captures)
     THEN /\ write \in {"none", "save_template"}
          /\ verifier' = [verifier EXCEPT ![s] = Enrol(@, reference)]
          /\ db' = IF write = "none" THEN SaveTemplate(db, s, embedder, reference, now) ELSE db
          /\ enrolled' = [enrolled EXCEPT ![s] = Len(db.identity_checks)]
          /\ Raises(s, write)
     ELSE /\ write = "none"
          /\ UNCHANGED <<verifier, db, enrolled, left, failed>>
  /\ UNCHANGED <<settings, embedder, registry, board, audio, now, uuids, created, boot>>

\* Mutated form of Reportable: a candidate nobody can see is not reported.
ReportableHard == {"mismatch_suspected"}

\* _REPORTABLE_IDENTITY
Reportable == {"mismatch_suspected", "unobservable"}

IdentityRule(status) ==
  IF status = "mismatch_suspected" THEN "identity_mismatch" ELSE "identity_unobservable"

\* probe_identity from the comparison on: the verifier, the check, the flag.
Judge(s, outcome, write) ==
  LET state == Probe(verifier[s], outcome)
      finding == state.status # verifier[s].status /\ state.status \in Reportable
      flag == Violation(s, uuids, IdentityRule(state.status), FALSE, now, None)
      checked == AppendIdentityCheck(db, s, outcome, now)
  IN
  /\ verifier' = [verifier EXCEPT ![s] = state]
  /\ \/ /\ write = "append_identity_check"
        /\ UNCHANGED <<db, board, uuids>>
     \/ /\ write = "none" /\ ~finding
        /\ db' = checked
        /\ UNCHANGED <<board, uuids>>
     \/ /\ write \in {"none", "append_violation"} /\ finding
        /\ board' = RecordViolation(board, flag)
        /\ db' = IF write = "none" THEN AppendViolation(checked, flag, now) ELSE checked
        /\ uuids' = uuids + 1
  /\ UNCHANGED <<settings, embedder, registry, audio, now, created, boot, enrolled>>

Writes == {"none", "save_template", "append_identity_check", "append_violation",
           "append_audio_check"}

\* probe_identity with a capture worth comparing, up to its embedding.
BeginProbe(c, s, face) ==
  /\ s \in registry /\ settings.identity
  /\ Waits(c, [kind |-> "probe", session |-> s, face |-> face])

\* Its end, against the reference of that moment; 409 without one.
FinishProbe(c, write) ==
  LET s == calls[c].session IN
  /\ calls[c].kind = "probe"
  /\ Ends(c)
  /\ IF verifier[s].enrolment = None
     THEN /\ write = "none"
          /\ UNCHANGED <<settings, embedder, registry, board, verifier, audio, db, now,
                         uuids, left, created, boot, enrolled, failed>>
     ELSE /\ Judge(s, Compare(calls[c].face, verifier[s].enrolment, {}), write)
          /\ Raises(s, write)

\* probe_identity with a poor capture: nothing to wait for.  (Where a write
\* raises, the bound is the one on failures.)
PoorProbe(s, issues, write) ==
  /\ s \in registry /\ settings.identity
  /\ verifier[s].enrolment # None
  /\ IF write = "none" THEN Arrives /\ UNCHANGED failed
                       ELSE left.requests > 0 /\ Raises(s, write)
  /\ Judge(s, Compare(None, verifier[s].enrolment, issues), write)
  /\ UNCHANGED calls

\* audio_chunk, up to its transcription.
BeginChunk(c, s) ==
  /\ s \in registry /\ settings.audio # "disabled"
  /\ Waits(c, [kind |-> "transcribing", session |-> s])

\* The transcript is stored, with the time it was made.
Transcribed(c) ==
  LET s == calls[c].session IN
  /\ calls[c].kind = "transcribing"
  /\ db' = SaveTranscript(db, uuids, s, now)
  /\ uuids' = uuids + 1
  /\ calls' = [calls EXCEPT ![c] =
       IF settings.audio = "classify"
       THEN [kind |-> "classifying", session |-> s, transcript |-> uuids, now |-> now]
       ELSE Idle]
  /\ UNCHANGED <<settings, embedder, registry, board, verifier, audio, now, left, created, boot,
                 enrolled, failed>>

\* The label is stored with the time of the transcript, then judged.
Classified(c, answer, write) ==
  LET call == calls[c]
      s == call.session
      label == Classify(answer)
      state == Record(audio[s], label)
      finding == state.status # audio[s].status /\ state.status # "quiet"
      flag == Violation(s, uuids, "audio_seeking_help", FALSE, call.now, call.transcript)
      checked == AppendAudioCheck(db, s, call.transcript, label, call.now)
  IN
  /\ call.kind = "classifying"
  /\ Ends(c)
  /\ \/ /\ write = "append_audio_check"
        /\ UNCHANGED <<audio, board, db, uuids>>
     \/ /\ write = "none" /\ ~finding
        /\ audio' = [audio EXCEPT ![s] = state]
        /\ db' = checked
        /\ UNCHANGED <<board, uuids>>
     \/ /\ write \in {"none", "append_violation"} /\ finding
        /\ audio' = [audio EXCEPT ![s] = state]
        /\ board' = RecordViolation(board, flag)
        /\ db' = IF write = "none" THEN AppendViolation(checked, flag, now) ELSE checked
        /\ uuids' = uuids + 1
  /\ Raises(s, write)
  /\ UNCHANGED <<settings, embedder, registry, verifier, now, created, boot, enrolled>>

\* The model refuses its input (400): nothing is stored.
Refused(c) ==
  /\ calls[c].kind \in {"enrol", "probe", "transcribing"}
  /\ Ends(c)
  /\ UNCHANGED <<settings, embedder, registry, board, verifier, audio, db, now, uuids,
                 left, created, boot, enrolled, failed>>

---------------------------------------------------------------------------
(* Telemetry, time and the end of the process.                             *)

Streams == left.telemetry > 0 /\ left' = [left EXCEPT !.telemetry = @ - 1]

\* persist, after a frame that raises nothing.
Checkpoint(s) ==
  /\ s \in registry
  /\ Streams
  /\ db' = SaveSession(db, s, now)
  /\ UNCHANGED <<memory, now, uuids, created, boot, enrolled, failed>>

\* publish of a flag of the fusion engine: by a frame, whose checkpoint
\* follows, or by the tick or the end of a stream, which have none after it.
RuleFlag(s, checkpoint) ==
  LET flag == Violation(s, uuids, "rule", FALSE, now, None)
      stored == AppendViolation(db, flag, now)
  IN
  /\ s \in registry
  /\ Streams
  /\ board' = RecordViolation(board, flag)
  /\ db' = IF checkpoint THEN SaveSession(stored, s, now) ELSE stored
  /\ uuids' = uuids + 1
  /\ UNCHANGED <<settings, embedder, registry, verifier, audio, calls, now, created, boot,
                 enrolled, failed>>

\* publish of its resolution, by a frame, under the id of the flag.  The
\* engine forgets its open flags with the process.
RuleResolution(i) ==
  LET s == db.violations[i].session_id
      resolution == Violation(s, db.violations[i].id, "rule", TRUE, now, None)
  IN
  /\ db.violations[i].rule_id = "rule" /\ i > boot.flags
  /\ \A j \in DOMAIN db.violations : db.violations[j].id = db.violations[i].id => i = j
  /\ Streams
  /\ board' = RecordViolation(board, resolution)
  /\ db' = SaveSession(AppendViolation(db, resolution, now), s, now)
  /\ UNCHANGED <<settings, embedder, registry, verifier, audio, calls, now, uuids, created,
                 boot, enrolled, failed>>

Day ==
  /\ now < settings.days
  /\ now' = now + 1
  /\ UNCHANGED <<memory, db, uuids, left, created, boot, enrolled, failed>>

\* The wall clock is set back.
StepBack ==
  /\ now > 0 /\ left.steps_back > 0
  /\ now' = now - 1
  /\ left' = [left EXCEPT !.steps_back = @ - 1]
  /\ UNCHANGED <<memory, db, uuids, created, boot, enrolled, failed>>

Ending == left.restarts > 0 /\ left' = [left EXCEPT !.restarts = @ - 1]

\* The process stops or dies between two steps, and is started again.
Restart == Ending /\ Start(db)

\* It dies in probe_identity, after the check and before the flag.
DiesInProbe(s, face, issues) ==
  /\ verifier[s].enrolment # None
  /\ Ending
  /\ Start(AppendIdentityCheck(db, s,
             Compare(face, verifier[s].enrolment, issues), now))

CrashInProbe(c) ==
  calls[c].kind = "probe" /\ DiesInProbe(calls[c].session, calls[c].face, {})

CrashInPoorProbe(s, issues) ==
  s \in registry /\ left.requests > 0 /\ DiesInProbe(s, None, issues)

Next ==
  \/ \E s \in Sessions :
       \/ CreateSession(s) \/ Checkpoint(s) \/ CrashInPoorProbe(s, {"no_face"})
       \/ \E write \in Writes : PoorProbe(s, {"no_face"}, write)
       \/ \E checkpoint \in BOOLEAN : RuleFlag(s, checkpoint)
  \/ \E i \in DOMAIN db.violations : RuleResolution(i)
  \/ \E c \in Calls :
       \/ \E s \in Sessions :
            \/ BeginChunk(c, s)
            \/ \E captures \in CaptureSets : BeginEnrol(c, s, captures)
            \/ \E face \in Faces : BeginProbe(c, s, face)
       \/ Transcribed(c) \/ Refused(c) \/ CrashInProbe(c)
       \/ \E write \in Writes :
            \/ FinishEnrol(c, write) \/ FinishProbe(c, write)
            \/ \E answer \in Answers : Classified(c, answer, write)
  \/ Day \/ StepBack \/ Restart

Spec == Init /\ [][Next]_vars

---------------------------------------------------------------------------
(* Properties.                                                             *)

FlagRow ==
  [session_id : Sessions, id : 0 .. uuids, resolved : BOOLEAN,
   opened_at_ms : Nat, recorded_ms : Nat,
   rule_id : {"identity_mismatch", "identity_unobservable", "audio_seeking_help", "rule"},
   transcript_ref : 0 .. uuids \cup {None}]

\* The type invariant.
TypeOK ==
  /\ settings \in Deployments /\ embedder \in Embedders /\ now \in Nat /\ uuids \in Nat
  /\ registry \subseteq created /\ created \subseteq settings.sessions
  /\ \A s \in DOMAIN board : board[s] \in [known : BOOLEAN, open : SUBSET (0 .. uuids)]
  /\ \A s \in Sessions :
       /\ verifier[s].status \in {"unverified", "confirmed", "mismatch_suspected", "unobservable"}
       /\ Len(verifier[s].recent) <= RecentOutcomes
       /\ audio[s].status \in {"quiet", "sustained_help_suspected"}
       /\ Len(audio[s].recent) <= RecentLabels
  /\ \A i \in DOMAIN db.violations : db.violations[i] \in FlagRow

\* The rows a process has written of s since it started, and since an index.
Since(rows, s, start) ==
  LET order == Sorted({i \in RowsOf(rows, s) : i > start}, <)
  IN [k \in DOMAIN order |-> rows[order[k]]]

Outcomes(d, s, start) ==
  LET rows == Since(d.identity_checks, s, start) IN
  [i \in DOMAIN rows |-> rows[i].outcome]

Labels(d, s, start) ==
  LET rows == Since(d.audio_checks, s, start) IN
  [i \in DOMAIN rows |-> rows[i].label]

\* The violation a step adds to the store.
Raised(rule) ==
  /\ Len(db'.violations) = Len(db.violations) + 1
  /\ Last(db'.violations).rule_id = rule
  /\ ~Last(db'.violations).resolved

\* In the order of their times, as the reviewer is shown them.
InOrder(rows) ==
  \A i, j \in DOMAIN rows : i < j => rows[i].recorded_ms <= rows[j].recorded_ms

\* The same outcomes as the history of checks serves them, oldest first.
Served(d, s, start) ==
  LET rows == Reverse(LoadIdentityChecks(d, s, Len(Outcomes(d, s, start)))) IN
  [i \in DOMAIN rows |-> rows[i].outcome]

\* "Mismatches_required of the last window assessable probes must fall below
\* threshold before anything is reported" (verifier.py): a reviewer who opens
\* the checks of this process finds them for every flag, of a session none
\* of whose writes raised.  The probe that raises it may itself match: then
\* mismatches with a reference that has since been replaced are counted, or
\* the flag repeats one that an unobservable spell has taken off the status.
MismatchIsOnRecord ==
  [][Raised("identity_mismatch") =>
       LET s == Last(db'.violations).session_id
           all == Served(db', s, boot.checks)
           own == Served(db', s, enrolled[s])
       IN s \notin failed /\ InOrder(db'.identity_checks) =>
            /\ Mismatched(all) >= MismatchesRequired
            /\ Last(all) = "match" =>
                 \/ Mismatched(own) < Mismatched(all)
                 \/ verifier[s].status = "unobservable"]_vars

\* A flag is not raised silently nor forgotten: while no write has raised,
\* what the stored outcomes and labels of this process amount to is what the
\* monitors have concluded, once a probe or a chunk was judged, and what they
\* have concluded has been flagged in the store.  The outcomes are those the
\* deque can hold: captures that cannot be assessed take up room in it, and
\* 5 assessable ones with 7 others in each gap need 33 places of its 32.
SustainedIsFlagged ==
  \A s \in Sessions \ failed :
    LET flagged == {v.rule_id : v \in ToSet(Since(db.violations, s, boot.flags))}
        probed == Outcomes(db, s, enrolled[s]) # <<>>
    IN
    /\ probed /\ Mismatched(LastOf(Outcomes(db, s, boot.checks), RecentOutcomes)) >= MismatchesRequired
         => verifier[s].status \in {"mismatch_suspected", "unobservable"}
    /\ HelpIn(Judged(Labels(db, s, boot.audio))) >= HelpRequired
         => audio[s].status = "sustained_help_suspected"
    /\ verifier[s].status \in {"mismatch_suspected", "unobservable"}
         => IdentityRule(verifier[s].status) \in flagged
    /\ audio[s].status = "sustained_help_suspected" => "audio_seeking_help" \in flagged

\* "Templates embedded by a different model are dropped rather than reused"
\* (app.py): whatever requests race and whatever the process was restarted
\* with, it compares with the stored template, if its own model made it.
EnrolmentIsStored ==
  \A s \in Sessions \ failed :
    verifier[s].enrolment =
      IF /\ settings.identity /\ s \in DOMAIN db.identity_templates
         /\ db.identity_templates[s].embedder = embedder
      THEN db.identity_templates[s].reference ELSE None

\* A reviewer who opens the session's speech history when a flag is raised
\* sees at its top the labels that were judged, unless chunks overtook one
\* another between transcription and classification.
HelpIsLegible ==
  [][Raised("audio_seeking_help") =>
       LET s == Last(db'.violations).session_id
           own == Since(db'.audio_checks, s, boot.audio)
           shown == LoadAudioChecks(db', s, Min({HelpWindow, Len(own)}))
       IN InOrder(db'.audio_checks) =>
            HelpIn([i \in DOMAIN shown |-> shown[i].label]) >= HelpRequired]_vars

\* What a reviewer can open is what the flag was raised for.  Behind a flag
\* the board shows open is its firing, of the same session, never the
\* resolution that reuses its id; and the transcript a flag refers to is
\* there, of the same session, until the transcripts' own clock has run out
\* on it, when the flag stays without it.
EvidenceResolves ==
  /\ \A s \in DOMAIN board \ failed : \A id \in board[s].open :
       LET v == LoadViolation(db, id) IN v.session_id = s /\ ~v.resolved
  /\ \A i \in DOMAIN db.violations :
       LET v == db.violations[i] IN
       v.transcript_ref # None =>
         \/ /\ v.transcript_ref \in DOMAIN db.audio_transcripts
            /\ LoadTranscript(db, v.transcript_ref).session_id = v.session_id
         \/ v.opened_at_ms < boot.transcripts

\* Firings without a resolution.
Unresolved(rows) ==
  {v.id : v \in {r \in rows : ~r.resolved}} \ {v.id : v \in {r \in rows : r.resolved}}

\* The rows of a session.
RowsOn(rows, s) == {v \in ToSet(rows) : v.session_id = s}

\* The board shows open what the store holds unresolved, of the newest rows,
\* and nothing else, across restarts; unless the clock was set back, a write
\* raised, or the start found no session at all and restored nothing.
BoardShowsStoredFlags ==
  \A s \in Sessions \ failed :
    LET open == IF s \in DOMAIN board THEN board[s].open ELSE {}
    IN
    InOrder(db.violations) =>
      /\ open \subseteq Unresolved(RowsOn(db.violations, s))
      /\ ~boot.bare =>
           Unresolved(ToSet(LoadViolations(db, s, RestoredPerSession))) \subseteq open

\* "Retention that only applies to the database is not retention" (app.py):
\* what the process knows, shows and compares with had not expired when it
\* started.  A session that had may still be on the board, without its
\* metadata and its socket, for flags that are younger than its last
\* checkpoint.
NothingExpiredIsServed ==
  /\ \A s \in registry :
       s \in DOMAIN db.sessions /\ db.sessions[s].updated_ms >= boot.cutoff
  /\ \A s \in DOMAIN board \ registry :
       ~board[s].known /\ RowsOn(db.violations, s) # {}
  /\ \A s \in DOMAIN board \ failed : \A id \in board[s].open :
       \E v \in ToSet(db.violations) : v.id = id /\ v.recorded_ms >= boot.cutoff
  /\ \A s \in Sessions \ failed :
       verifier[s].enrolment # None =>
         db.identity_templates[s].created_ms >= boot.templates
  /\ \A id \in DOMAIN db.audio_transcripts :
       LoadTranscript(db, id).recorded_ms >= boot.transcripts

============================================================================
