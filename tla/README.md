# A formal model of the proctoring system

This directory holds TLA+ modules that model the parts of the repository whose
correctness depends on order, failure and time; TLC configurations that check
them on small instances; and proofs, checked by TLAPS, that hold for every value
of the constants. `PROJECT.json` lists the runs, the definitions with the source
lines they model, and, for every property, a mutated form of the code that the
property rejects.

    tlc -workers 2 -config gateway_streams.cfg MCGateway    # a run
    tlapm Gateway_proofs.tla                                # a proof

1. [The system](#1-the-system)
2. [Modules and the code](#2-modules-and-the-code)
3. [Runs](#3-runs)
4. [Proofs](#4-proofs)
5. [Where code and comments disagree](#5-where-code-and-comments-disagree)
6. [What is not modelled](#6-what-is-not-modelled)
7. [Plan](#7-plan)

## 1. The system

A client on the candidate's machine watches the exam and sends signed telemetry
frames over a WebSocket to the gateway. The gateway checks the stream, turns
samples into flags by the rules of a policy, stores them, and shows proctors a
board ordered by urgency. Beside the telemetry run identity probes, audio chunks
and a recording made by LiveKit.

| Component | State | Operations | Speaks to |
|---|---|---|---|
| Telemetry client (`apps/client/src/main/telemetry.ts`, `endSession` of `index.ts`) | `#seq`, `#tail` (a chain of promises), `#queue`, `#socket`, `#closed` | `emit`, `#dispatch`, `#connectLoop`, `#flush`, `close` | gateway, by WebSocket |
| Session integrity (`proctor_gateway/sessions.py`) | position and clocks of a stream, breach log, counts and rate limit per session | `check`, `record_breach`, `should_report_breach`, `to_record`, `create`, `restore`, `persist` | called by the gateway; store |
| Gateway (`proctor_gateway/app.py`) | the sockets; the registry, engine, board and store it drives | session creation, telemetry socket, frame handler, breach publication, tick loop, restore | everything below |
| Fusion engine (`proctor_fusion`) | per session `closed`, `connected`, `last_event_ms`, the silence cooldown; per rule `candidate_since_ms`, `releasing_since_ms`, `firing`, `last_fired_ms`, the open flag | `on_event`, `on_tick`, `set_connected`, `report_integrity_breach`, `close_session` | called by the gateway |
| Triage board (`proctor_gateway/triage.py`) | per session: connected, open flags, timeline, a decaying score | `ensure`, `record_violation`, `ordered`, `snapshot` | called by publish and restore |
| Hub and console (`hub.py`, the proctor endpoints, `apps/console`) | a bounded queue per console; the page's snapshot and socket | `publish`, `subscribe`, `connect`, `refresh`, `applySnapshot` | WebSocket and HTTP |
| Recordings (`proctor_media`, media half of `app.py`) | a row per recording with a status | start (room webhook or proctor), stop, webhooks | LiveKit, by calls and webhooks |
| Identity verifier (`proctor_identity`) | per session: the reference, the last 32 outcomes, a status | `enrol`, `probe`, `forget` | called by HTTP handlers that wait for the embedder |
| Audio monitor (`proctor_audio`) | per session: the last labels, a status | `record`, `forget` | called by an HTTP handler that waits for transcription, then for classification |
| Durable store (`store.py`, `postgres_store.py`) | tables of sessions, violations, templates, checks, transcripts, recordings | `save_*`, `append_*`, `load_*`, `purge_*` | called by all |
| Media tokens, configuration, protocol schemas | none | pure functions | |
| Client shell (`main/index.ts`, `renderer/index.ts`, `consent.ts`, `lockdown.ts`, `environment.ts`) | where main and the page stand, the page's strike counter | start, consent, lockdown, observation, end | the page calls main; main emits through the telemetry client |
| Client detectors (`gaze.ts`, `objects.ts`, `quality.ts`, `media.ts`) | none that lasts | inference on a frame | the page |
| Simulator, build, deployment | | test drivers and descriptions | |

What makes it hard:

* **Interleaving.** The gateway is one asyncio loop. A handler is one step
  between awaits that really suspend: waiting for a frame, for the timer, for a
  call to LiveKit, for a model in a worker thread. (`hub.publish` awaits a lock, but nobody holds that lock across
  an await, so it never suspends.) What interleaves are handlers: two sockets of
  one session, a webhook and the call it reports on, the page's requests, two
  probes of one session. The client is two event loops, main and page.
* **Crashes.** The process may die between handlers, and inside the handling of a
  frame or a webhook, and rebuilds its state from the store.
* **Order and loss.** Frames are signed concurrently and queued across
  reconnects; webhooks come late, twice and out of order; consoles lose messages.
* **Clocks.** Rules are timed on the client's counter, the stream is held to the
  server's clock with a tolerance, silence to the server's clock alone; what is
  stored is ordered and aged by the wall clock, which may step back.

What makes each component correct:

* *integrity*: no sequence number is evaluated twice across a restart; the stored
  position only moves forward; log, counts and rate limit tell one story; an honest
  client is accused only after something really happened;
* *fusion*: a flag means the condition lasted; a condition that lasted is flagged;
  flags of a rule are spaced, and resolved under the id they were opened with;
* *gateway*: the board is what replaying the store gives; a quiet stream is
  flagged; after the end of an exam nothing but breaches is;
* *client*: frames reach the wire once and in order; close does not overtake them;
* *recordings*: what the store says of a recording happened, and its end is stored;
* *board and console*: scores and order survive time and restarts; a page that is
  behind catches up;
* *identity and audio*: what the stored checks amount to has been flagged, a flag
  can be justified from what is stored, and a probe is compared with the stored
  reference;
* *store*: nothing past its retention is known, shown or compared with, and what
  is within it is on the board;
* *client shell*: nothing of the page is observed before its consent; attempts are
  flagged after the last warning and not before; a page is not left hanging.

## 2. Modules and the code

| Module | Models | State and actions |
|---|---|---|
| `StreamIntegrity` | `Session.check`, breach log and counts, `to_record` (sessions.py 35-221) | operators on a session record, no variables |
| `Gateway` | app.py 338-353, 436-529, 1004-1082, 1332-1406 with the engine's session table, the board's entries and the store | memory `sessions`, `engine`, `board`, `conns`; store `created`, `disk`, `rows`. `CreateSession`, `Connect`, `ReceiveFrame`, `Disconnect`, `Tick`, `Crash`, `CrashInFrame`, `Restart` |
| `FusionRule` | `_step_rule`, `_on_match`, `_on_no_match` (engine.py 257-340) | the fields of `_RuleState`; `Observe` with its five outcomes |
| `FlagLifecycle` | abstract: what a rule promises, one open flag at a time under a fresh id | refined by `FusionRule` |
| `StretchedClock` | the frame handler's check in front of a rule: EXTENDS `FusionRule` and `StreamIntegrity` | `Receive`, `Elapse` |
| `TelemetryClient` | telemetry.ts 31-215, `endSession` | `Emit`, `Signed`, `SigningRejects`, `Dispatch`, the connect loop and the socket's events, `EndSession` to `CloseEnds` |
| `TelemetryLink` | an honest client in front of the check, over a network that delays and cuts: EXTENDS `TelemetryClient` and `StreamIntegrity` | the client's actions and `Read` per socket |
| `Recording` | recording.py, the media handlers of app.py 847-947 and 1203-1329 | `rows`, the requests in flight, the egresses; start, stop, `Webhook`, `Crash`, `CrashInWebhook` |
| `ProctorConsole` | hub.py, the proctor endpoints (app.py 949-981), console.js 330-406 | queues, sockets, requests and view per console |
| `BoardView` | abstract: what the board promises its consoles | refined by `ProctorConsole` |
| `TriageQueue` | the score of triage.py 121-168 and the sorts of triage.py 219-233 and console.js 188-191 | `Flag`, `Connection`, `Pass`, `Restart` |
| `Store` | what each statement of `SqliteStore` on sessions, violations, templates, checks and transcripts writes, returns and purges (store.py 417-747, 831-849) | operators on a record of tables |
| `Deque` | `collections.deque` with a `maxlen` | operators on a sequence |
| `IdentityVerifier` | matching.py 161-283, verifier.py 54-183 | operators on a `SessionIdentity` |
| `AudioMonitor` | intent.py 147-190, monitor.py 25-130 | operators on a `SessionAudio` |
| `Monitors` | the identity and audio handlers of app.py 531-699 on top of these four, what telemetry stores beside them, and the start of the process: purge and restore (app.py 338-353, 1110-1164, 1332-1386) | memory `registry`, `board`, `verifier`, `audio`, `calls`; the store `db`. `BeginEnrol`/`FinishEnrol`, `BeginProbe`/`FinishProbe`, `PoorProbe`, `BeginChunk`/`Transcribed`/`Classified`, `Refused`, `CreateSession`, `Checkpoint`, `RuleFlag`, `RuleResolution`, `Restart`, `CrashInProbe`, `CrashInPoorProbe`, `Day`, `StepBack` |
| `ClientShell` | main/index.ts 132-254, renderer/index.ts, consent.ts, lockdown.ts, in front of an instance of `FusionRule` for the rule `lockdown_strikes_exhausted` | `session`, `inbox`, `page`, `load`, `strike`, `stream`, the rule; one action per stage of main, call of the page and event of the window |
| `MCGateway`, `MCFusionRule`, `MCStretchedClock`, `MCRecording`, `MCMonitors`, `MCClientShell` | the values the configurations need | |

How the modules abstract:

* **A frame** is its number, its counter, whether it is authenticated, and which
  of three kinds of payload it carries: the end of the exam, a sample a rule
  reads, anything else. `Gateway` lets the rule answer a sample with anything its
  lifecycle allows; `FusionRule` says which answer and when.
* **Ids** are random in the code; the model takes one that is not in use.
* **Handlers** are one action each. `ReceiveFrame` is check, publication and
  checkpoint; `Disconnect` is the whole `finally`, with the checkpoint before the
  abandonment breach as in the code; `Restart` is `_restore`, with its limit on the
  rows of a session. The purge that precedes it at a start is in `Monitors` only, so
  what `Gateway` and `TriageQueue` say holds between purges.
* **Crashes** come between handlers (`Crash`) and inside the frame handler
  (`CrashInFrame`: any prefix of what the frame publishes is stored, its checkpoint
  is not). A crash inside `finally` leaves what `Disconnect` followed by `Crash`
  leaves, but for the breach row, which may be missing. A crash in the middle of a
  tick is not modelled. The store is durable: SQLite in WAL mode with
  `synchronous=NORMAL` survives the death of the process, not of the machine.
* **Time** is a small integer. The gateway's clock starts at 1 and does not step
  back, so the case in which a server time of 0 counts as unset does not occur.
* **The client** is one event loop; a step runs from one await to the next. The
  `ws` library is external, seen through `open`, `close` and `error`. The exit of
  the application right after `close`, and two `before-quit` events at once, are
  left out.
* **A recording** has a status and whether it has a storage reference. LiveKit is
  external: an egress starts, ends complete or aborted, and any webhook that is
  true may be delivered, any number of times, in any order. An egress leaves a
  file or not (`Files`), however it ends, and the webhook of its end carries the
  reference: that all deliveries of one end carry the same is an assumption on LiveKit.
* **The board**, to the consoles, is the number of changes made to it, and a
  snapshot the number it was taken at. The handler of a socket that was cut goes
  on until its next send; what it is given until then reaches nobody, so the model
  forgets it at once. Authentication failures of the page are left out.
* **An embedding** is an angle in the plane, two of them are as similar as they
  are near, and a reference is the middle of its captures; thresholds are angles.
  The quality of a capture is the set of its issues.
* **A handler that waits for a model** is two actions, or three, with the request
  in `calls` between them. Any of its writes may raise: what was done before it
  stays done, in memory and in the store, and the rest is not. A crash comes
  between two steps, or between the two writes of a probe (`CrashInProbe`). A probe
  of a capture that is not worth comparing waits for nothing and is one step
  (`PoorProbe`), whose writes raise and are crashed between in the same way
  (`CrashInPoorProbe`).
* **Telemetry beside the monitors** is what it stores: checkpoints, flags of the
  rules and their resolutions. `Gateway` has the rest.
* **Retention** counts days. A deployment says what is enabled and how much of
  each thing happens in it; the runs take a small set of deployments.
* **The page's calls to main** are a queue; what main emits reaches the gateway in
  order (`TelemetryClient`) and carries its own time, so `ClientShell` steps the
  rule when a frame is emitted. Electron is external: it loads the page while the
  session starts, rejects a call nobody handles, and reloads the page from its
  default menu, which the code leaves in place.
* **The score** is counted in 2^12ths and time in half-lives, so that halving is
  exact; the decay inside a half-life is left out. A row of weight 0 is a resolution
  or an INFO firing: it adds nothing and takes a place among the rows restored.

## 3. Runs

Eleven runs pass. Between them they take every action of every module.

| Run | Shows | Bounds |
|---|---|---|
| `gateway_streams` | two overlapping sockets, crashes in and between handlers, a restart: the log matches the counts, the board is the replay of the store but for flags the restart had no room for, a stream is watched unless a socket closed beside it, the end of the exam is final | 1 session, 2 sockets, numbers 0-1, every kind of payload, 3 frames, 2 attachments, 1 crash, 2 rows restored, clock to 3; sockets symmetric |
| `gateway_clocks` | replays, gaps, drift and rewinds across a restart: the stored position decides as memory would, events are counted once, a checkpointed number is never evaluated again, nothing stored goes back; and a quiet stream is flagged | 1 session, 1 socket, numbers 0-2, counters 0 and 2 with a tolerance of 1, 2 frames, 2 attachments, 1 crash, 2 rows restored, clock to 4 (cooldown 2) |
| `fusion_rule` | every history of samples against what onset, release and cooldown mean; refinement of `FlagLifecycle` | 6 samples on a counter of 5 values that goes back at most once; onset 1, release 1, cooldown 3 |
| `stretch_bound` | how much of a condition a counter that runs fast or slow can hide: at most twice the tolerance | tolerance 1, onset 1, 3 frames, server clock to 5 |
| `client_order` | frames in order and exactly once through concurrent signing, failures, two sockets, a bounded queue, a late close and the end of the session; no frame wedges the ones behind it | 4 frames, 2 sockets, a queue of 2, one tick of the clock |
| `link_honest` | what an honest client can be accused of, and after what | 3 frames, 2 sockets, a queue of 2, clock to 3, tolerance 1 |
| `recording` | the stored status is true, moves forward, and is settled when the end is delivered | 2 egresses, one that leaves a file and one that does not, 2 requests in flight, 1 crash; requests symmetric |
| `console` | a page that is behind has on the way what brings it up, and refines `BoardView` with its fairness | 1 console, queue of 2, 5 changes, 1 unannounced, 2 requests under way, 2 breaks |
| `queue_scores` | scores are sums of decayed flags; a restart keeps them, but for flags behind the newest rows; the page sorts as the board does up to rounding | 2 sessions, 3 rows each of which 2 are restored, weights 0, 3, 10, ceiling 15, 10 half-lives with rows stored at 0 and 9, 2 restarts |
| `monitors` | requests finish in any order, writes raise, days pass, the process dies and starts again: sustained findings are flagged, flags can be justified from the stored checks and transcripts, the reference is the stored one, the board shows what the store holds open, and nothing expired is served | 1-2 sessions, 2 requests waiting, up to 6 requests, a window of 3 with 2 required in a deque of 4, 2 unassessable in a row, retention of 2 days, templates and transcripts 1, 2 rows restored, 1-2 restarts, 1 failing write, 1 step back of the clock; symmetric request slots |
| `client_shell` | page and main start, reload and end in any order: consent comes before capture, warnings before the flag and the flag after them, and the page gets to ask and then to the camera or a message | 2 warnings, 2 loads; either 6 blocked actions and a restart of the gateway, or 2 other frames; cooldown 1, clock to 1 |

Why the bounds are enough. The interactions need two of something: two sockets
of a session, two requests on one recording, two frames being signed, two snapshot
requests, and one crash with what follows it. Sessions do not share state, so one
is enough where the property is about one; consoles share only the board. Replays
and gaps need three consecutive numbers, a rewind two counters, drift a counter
away from the first by more than the tolerance. The limits of queue and log are set
to 1 or 2 so that they are met. A cooldown of 3 with an onset of 1 lets a rule
become due again during the cooldown and fire after it. Two warnings and two loads of the
page let a flag be raised, be resolved by the counts of a fresh page, and come due
again within its cooldown. In `monitors` a window of 3 in a deque of 4 has the same
shortage as 5 in 32, one capture that cannot be assessed pushes an outcome out; two
embedders and a restart make a template of another model. The 200 rows of a session
that a start restores are 2: in `monitors` that cuts a firing off its resolution, in
the gateway's runs an open flag is cut off by two newer rows, and in `queue_scores`
a flag that still counts is cut off by rows that weigh nothing. Nine half-lives
take a flag of weight 3 past the cutoff at 0.01, ten one of weight 10, and a row
stored at 9 is added to what is left. The score of a session and its rows do not
depend on another's; the second session is there for the order.

Fairness.

* `gateway_clocks`: weak fairness of `Tick` and of time. The tick loop is a task
  that catches exceptions and sleeps again (app.py 1397-1406). Clients, crashes
  and restarts are owed nothing.
* `client_order`: signing ends one way or the other, and a promise whose wait is
  over is continued. Nothing is assumed of the network.
* `console`: the two event loops run what is ready, the socket drains and the
  retry timer fires. A request may fail at any time, and the user is not obliged
  to enter a token: such a console is excused by `BoardView` until a new snapshot
  sets it right.
* `client_shell`: main and page run what is ready, and a call to the gateway ends,
  in an answer or by the timeouts of `fetch`. The candidate owes nothing.

`CHECK_DEADLOCK FALSE` is said in every configuration: each run ends when its
bounds are used up.

`claim_live_stream_is_watched` checks a statement of the repository's text that the
code does not keep: see section 5.

## 4. Proofs

Each component's proofs are in a module of their own, those of `TelemetryLink`
with the client's and those of `StretchedClock` with the rule's, which they
extend. The theorems marked * are about properties that a run checks; the run
shows them on a small instance, the theorem for every value of the constants.

| Theorem (module) | For every value of the constants |
|---|---|
| `TypeCorrect` (`Gateway_proofs`) | the gateway's state keeps its types |
| `BoardSurvivesRestart` * | the board shows no flag that the stored rows do not leave open, and lacks one only if an earlier process raised it and as many newer rows as a restart reads are behind it |
| `BreachLogCorrect` * | log and counts agree, in memory and in the store |
| `NoReplayLaundered` * | a checkpointed number is never evaluated again |
| `StoreNeverGoesBack` * | stored position, counts and end of exam never go back |
| `CheckpointIsComplete` * | between handlers the store has the position, clocks, events and breaches that memory has, abandonment excepted |
| `EventsCountedOnce` * | the events counted are the distinct numbers whose checkpoints were kept |
| `SilenceWatch` * | a session with an open socket is watched for silence, unless a socket closed beside it |
| `NothingFlaggedAfterTheEnd` * | after the stored end of an exam only integrity breaches are stored |
| `TypeCorrect` (`FusionRule_proofs`) | a rule's fields keep their types |
| `CooldownHonoured` * | firings are at least the cooldown apart, whatever the counter does |
| `ResolutionsCorrect` | firings and resolutions alternate, under one id |
| `RuleKeepsLifecycle` * | `FusionRule` implements `FlagLifecycle` |
| `EpisodeIsDated` * | the candidate timer is where the episode began, by a definition that reads the samples only |
| `FiringsAreSustained` * | a flag means the condition lasted the onset within one episode |
| `SustainedFires` * | a condition that lasted finds the rule firing or cooling down |
| `PassedFramesAreClose` | two frames that pass the check agree with the server to within twice the tolerance |
| `StretchBound` * | a condition that lasts the onset and twice the tolerance is flagged |
| `OrderIsKept` (`TelemetryClient_proofs`) * | a frame overtakes an older one only past one that could not be signed |
| `SentOnce` * | a dispatched frame is in one place, or counted as dropped |
| `CloseIsComplete` * | a closed client whose signatures did not fail has dispatched what was emitted before |
| `NoFalseReplay` * | an honest client is accused of a replay only after its sockets were read out of order or a signature failed |
| `NoFalseGap` * | ... of a gap only after frames were dropped, lost or not signed |
| `NoFalseSkew` * | ... of a bad clock only after a delay longer than the tolerance |
| `StoreTellsTheTruth` (`Recording_proofs`) * | the stored status of a recording has happened to its egress |
| `NothingElseWalksBack` * | only a stop that was under way sets a status back |
| `EveryEndSettles` * | handling the end of an egress leaves a settled row |
| `NothingIsMissed` (`ProctorConsole_proofs`) * | a page that is behind has on the way what brings it up |
| `ImplementsBoardView` | every step of hub, stream and page is a step of `BoardView` or a stutter |
| `TypeCorrect` (`TriageQueue_proofs`) | scores stay within the ceiling |
| `ScoresAreCounts` * | the score is the sum of the flags among the rows the process read at its start and stored since, each halved from its own time, less at most a hundredth for each row and one more, unless the ceiling was met |
| `RestartsKeepScores` * | a restart raises no score, and lowers one only if a row that weighs something is too old for the number of rows it reads |
| `PageFollows` * | the page sorts as the board does, but for scores that round to the same |
| `EnrolmentStored` (`Monitors_proofs`) * | faces are compared with the stored template of the process's own model, or with none |
| `SustainedFlagged` * | what the stored outcomes and labels amount to is concluded, and what is concluded is flagged |
| `BoardFollowsStore` * | the board shows open what the store holds unresolved among a session's newest rows, and nothing else |
| `EvidenceStays` * | an open flag's firing is stored, its transcript until its own retention runs out; the clock of a process that classifies is not set back |
| `NothingExpired` * | nothing known, shown or compared with had expired at the start; the clock is set back by no more than each retention |
| `HelpLegible` * | speech that is flagged is at the top of the history a reviewer is shown, if the checks are in the order of their times |
| `MismatchRecorded` * | the mismatches behind a flag are in the history a reviewer is shown; a probe that raises one and matches is explained by a replaced reference or an unobservable spell |
| `NothingBeforeConsent` (`ClientShell_proofs`) * | capture of a page follows the consent given to that load of it |
| `WarnedFirst` * | with the page's allowance and the policy's limit the same, attempts are warned of first, and flagged after the last warning |

*Gateway.* None of the safety properties is inductive alone. The invariant `IInv`
adds to them: sockets are open only while the process runs, on stored sessions
(`Anchored`); the store has nothing of a session that was not created
(`Untouched`); between handlers memory and store agree on the position and the
end of the exam, and the counts in memory are ahead by at most what a closing
socket added (`Synchronised`); the board shows what the rows this process read or
raised leave open (`Shown`); every checkpointed number is behind the stored
position (`KeptBehind`). `NoReplayLaundered` needs the last two: after a restart
the position is the stored one, so the number is a replay. The board needs two
lemmas. `ReplayExtends`: replaying the stored rows and then one handler's
publications opens the same flags as replaying them all. `ShowsRestored`: replaying
the newest rows opens those of the flags the whole table leaves open that are among
them, since what resolves a flag comes after it. A second invariant,
`WInv`, is inductive relative to the first. It holds the rest of what memory and
store share (`Durable`), that a session a client has attached to exists, and that
the engine is closed for every session whose end is stored (`EndedIsClosed`), from
which the last theorem follows step by step. Counting uses
that a number is added to the kept ones exactly when it is ahead of all of them.
The proof that a step preserves each invariant is one lemma per action.

*Rule.* The invariant ties the rule's fields to the last violation it returned,
and `last_fired_ms` to the latest firing. It does not assume that the counter
goes forward. That the candidate timer dates the episode is not inductive: a
release ends the episode, so the release timer must be known to date from the
first failing sample since the condition last held (`ReleaseIsRunStart`).

*Clock.* Each passed frame is within the tolerance of the session's first frame,
so two are within twice the tolerance of each other. For `StretchBound` the
invariant says how far back the candidate timer reaches during an unbroken run of
passed frames at which the condition holds.

*Client.* The properties are about places: a place is a line, one per socket and
one for the queue, and an index in it. The invariant has three parts. The chain:
whatever was dispatched past a frame that has not settled is past a failed one
too. The sockets: they are opened one after another, `#socket` is the newest, and
the queue is empty while it is open, so that the queue is always the end of the
line. The places: held frames are dispatched ones, no two places hold the same,
and together with the dropped ones they are all there are. Overtaking then needs
a place behind every other, which only the chain hands out.

*Link.* The link extends the client, whose invariant it keeps, with three facts
about the wires added to it: stamps are in the order
of the numbers, one socket at a time is being opened or open, and until one is
lost there is only one wire with anything on it. At the gateway, the position is
that of a frame that was read (`PositionIsRead`), of the last one while nothing
was lost (`PositionIsLatest`), and the base of the two clocks is late by no more
than the slowest frame (`BaseIsNearlyRight`).

*Recordings.* A call under way to LiveKit must already agree with the egress it
started, which is no other call's, and the row a stop will write back is one that
had no reference when it was read.

*Console.* Nothing on the way is ahead of the board, a page that is live is
subscribed, and a greeting that is out of date has a message behind it
(`HelloFollowed`): the subscription is made before the greeting is composed. The
refinement maps a console that waits for a token or shows a late snapshot to one
that waits; what it shows otherwise never goes back.

*Shell.* Consent is never taken off the stream, so the property needs the same of
the calls still in the queue, also of pages that were reloaded since, and of the
page that is shown, which may go on only when its consent is on the stream.

Warnings before flags is a matter of counting, which is proved as order: whatever
number a blocked action has, the actions of that load with the smaller numbers went
before it, on the stream or on the way to main (`CountsOnStream`, `CountsUnderWay`,
`PageCounts`), and main refuses none of them (`RefusesNone`). What the rule's timers
say is tied to flags that are listed (`FiringIsOpen`, `CooldownIsOfAFlag`), so that
the last blocked action past the allowance finds one open, or younger than the
cooldown (`LastIsAnswered`).

*Queue.* A fold is a recursive function, which is a value only where its equation
has exactly one solution. That it has one is proved along the execution: each flag
appends a row, and the solution for the rows so far extends to the new one in one
way (`ReplayIsDefined`, `SumIsDefined`). Halving is exact for the 12 half-lives the
unit allows, so what a score lacks of the sum is the hundredth each row may be
rounded by, unless the ceiling took more (`capped`). A restart that reads the newest
rows only makes a later start of them the one that counts, and which one is not
known before: so the invariant (`Tracks`) says of every suffix of a session's rows,
from those the process knows on, what its replay and its sum are (`Accounts`), and
that a longer suffix gives no smaller score, and the same score if the rows it is
longer by weigh nothing (`Falls`). The latter is an induction along the rows of one
relation between two replays: the one has nothing, or was last raised when the other
was, to no more (`Below`).

*Monitors.* Five arguments, on one reduction. The reduction says what a step may do
to a table: a request appends at most one check and one row, a start purges and
forgets (`StepWorksOrStarts` for rows, `MonitorsStepOrStart` for checks), and each
invariant is shown against those effects and not against every handler.
*Sorted rows*: the store's queries enumerate a set by a strict order, and the k-th
of the list is the member of rank k (`EveryRankIsTaken`), so an appended row comes
first in one session's list and changes no other. *Replay*: what a replay leaves
open is closed form, the ids whose last row is a firing; one firing to an id
(`OneFiring`), because an id is fresh when it is taken. *Clocks*: the cutoff of the
last start is behind the clock by the retention, and what was written since is not
older; hence the hypotheses on steps back. *Windows*: the deque of a session is the
last stored outcomes or labels of this process (`VerifierRemembers`,
`AudioRemembers`), and what a monitor has concluded is in the store as a flag of
this process (`ConclusionsAreFlagged`); a fresh process remembers nothing and has
stored nothing. What the verifier remembers and what is flagged say nothing of a
session one of whose writes raised, which `failed` records. *What a reviewer reads*
(`HelpLegible`, `MismatchRecorded`): in the order of the clock, the newest rows of a
session are the last of those since the start, from the last one on
(`NewestAreLast`), so a window of the deque and the list shown are the same labels
mirrored (`Mirrored`), and the list of outcomes turned around is the history itself
(`ServedIsHistory`). A flag that is raised is put down to the probe or chunk that
raised it (`RaisedBy`); every mismatch of the deque's end is one of the whole history
(`EndMismatchesLess`), and a match adds none (`MatchAddsNone`), so a probe that
matches raises a mismatch only where an enrolment or an unobservable spell had taken
the status back.

The two hypotheses on the clock are of the host, not of the code. Retention is
counted in days and a correction of the clock in seconds. Where a process that
classifies starts twice with the clock set back in between, the second start has
an older cutoff, and a transcript the first one purged counts as one that should
be there: no run has that deployment either.

Assumptions are the named `ASSUME`s of the modules: bounds, durations and counters
are natural numbers, queues have room for one, and the identifier for "none" is
none of the ids.

Model-checked only:

* liveness (`SilenceIsFlagged`, `NothingWedges`, `CatchesUp`, `StartsOrSaysSo`, and
  with it the fair half of `BoardView`), which needs `ENABLED`;
* what folds and recursive definitions compute for every input, which needs
  induction over data. Where a property needs a fold it is stated, or proved, along
  the steps that build it up (see *Queue* and *Monitors*).

The other way round, the type invariants and `PassedFramesAgree` are proved and no
run repeats them.

## 5. Where code and comments disagree

A run that shows it:

* `claim_live_stream_is_watched`: every telemetry handler's `finally` marks the
  session disconnected. When a client reconnects before its old socket is reaped,
  the old handler turns the silence rule off for the live socket (app.py:502).

Met while modelling, without a run of their own; the properties that pass are
stated with the exception:

* `stop_recording` writes after its await the record it made before it. A recording
  that became AVAILABLE meanwhile goes back to STOPPING and loses its storage
  reference (app.py:901 against recording.py:58-59). `OnlyStopsWalkBack` excepts it.
* Snapshot responses are shown as they arrive. A late one puts an older board back,
  and two consoles at rest differ (console.js:331 against triage.py:9).
* A session nobody has attached to counts as connected (engine.py:127) and is
  flagged as silent, and a client that attaches late is flagged for the time it
  was away (engine.py:165), against "a client that is still connected but has
  stopped reporting" (engine.py:155).
* A frame whose counter went back is evaluated without moving the position, so its
  number can be evaluated again (sessions.py:170), against "rejects reordering and
  replays on this field" (events.py:294). `NoLaunderedReplay` is about checkpointed
  numbers.
* The abandonment breach is counted after the last checkpoint (app.py:499) and a
  restart forgets it. `StreamStateDurable` leaves it out.
* `skew_tolerance_ms` is said to bound what a stretched clock can hide
  (sessions.py:152); the bound is twice that. `StretchIsBounded` has the true one.
* A frame that fails to sign settles its link of the chain at once, and the next
  frame overtakes the one before it (telemetry.ts:139 against 41-42).
  `OnlyFailuresLetOvertake` says when.
* The late close of a socket that reported an error clears `#socket` though it is
  a newer one, and frames queue up behind an open socket (telemetry.ts:200).
* Frames emitted while `close` waits for the tail are dispatched into a queue
  nobody sends (telemetry.ts:165); and when the client is offline at the end,
  `session_end` itself is left in that queue (telemetry.ts:168 against
  index.ts:245-246).
* Two deliveries of `room_started` may start two egresses, since the check and the
  write are on two sides of an await (app.py:1227 against 1212-1215); a recording
  started by hand gets a second row when its webhook comes first (app.py:868
  against 1279-1282).
* A refresh that fails is forgotten (console.js:367); a session that is registered
  is put on the board without a message (app.py:440 against 110-112).
* The board's key is (-score, connected, id), so a connected session with a faint
  score sorts above a disconnected one (triage.py:229 against 222-224); and the
  page sorts again by the rounded score (console.js:190 against 4-5).
  `PageFollowsBoard` says how far apart the two orders can be.
* The allowance for blocked actions is counted by the page and nowhere else: the
  rule compares the reported `strike` with 3 (default.yaml:252), against "this rule
  counts the signals" (default.yaml:246) and "the server re-derives the total from
  the stream it received" (lockdown.ts:113-118, events.py:203-207, ARCHITECTURE.md
  818-822). A page that is loaded again starts at 1: the attempts are not added up,
  and the first two of them resolve the flag that was open. `WarnedThenFlagged` is
  about the attempts of one load of the page.
* The window is created, and the page loaded, before `startSession` has enrolled
  and registered the handlers (index.ts:220 against 154-175). A page that is quicker
  than the gateway's answer has its first call rejected: its `main()` ends, there is
  no consent and no camera, and the heartbeats keep the silence rule satisfied.
  `StartsOrSaysSo` starts where main listens.
* "No signal is emitted until the button in `consent.ts` is pressed" (ARCHITECTURE.md
  5.7.1): the environment, with the names of running processes, is sampled and
  emitted from the start of the session (index.ts:193-197, 224-227).
  `ConsentBeforeCapture` is about what the page observes.
* On macOS closing the window does not end the application (index.ts:252-254), so
  "the candidate declines by closing the window" leaves a session that sends
  heartbeats and observes nothing.
* A re-enrolment keeps the outcomes counted against the reference it replaces, so a
  probe that matches can raise the hard flag (verifier.py:119 against the message of
  193-195); and after a spell of `unobservable` one matching probe raises a mismatch
  again while its mismatches are in the window. `MismatchIsOnRecord` has both.
* The status `unobservable` stays while fewer than a window of probes can be
  assessed, so a second blackout is not reported (verifier.py:160-183).
* The deque of 32 outcomes (verifier.py:95) is one short of what a window of 5 with
  runs of 7 unassessable probes in its gaps needs. `SustainedIsFlagged` is about the
  outcomes the deque can hold.
* The verifier's status moves before the check and the flag are stored
  (app.py:608-618): when the first write raises, the flag is lost and, the status
  being what it is, not raised again. The properties except such sessions.
* A session that was purged, of which a newer violation remains, comes back on the
  board without its metadata; when no session row is left at all, nothing is
  restored, whatever violations remain (app.py:1351-1353 against ARCHITECTURE.md
  282-286). The purge takes unfinished sessions too, against "finished sessions"
  (ARCHITECTURE.md:273), and runs only when the process starts.
* A start reads the newest 200 rows of each session (app.py:1085, 1375;
  store.py:526), and resolutions and INFO rows are among them. A flag that is still
  open, and the score of one that is not decayed, are gone from the board after a
  restart when 200 newer rows are behind it, against "a flag raised against someone
  and then lost to a restart is worse than never flagging" (app.py:132-133). They
  stay in the store. `BoardIsReplayOfStore`, `RestartKeepsScores` and
  `BoardShowsStoredFlags` say exactly which.
* An audio check is stored with the time its chunk was transcribed and judged when
  it was classified, so chunks that overtake one another are shown in another order
  than they were judged in; and a clock that is set back reorders the replay of the
  violations. `HelpIsLegible` and `BoardShowsStoredFlags` say so.
* Several gateway processes on one Postgres (postgres_store.py:10, ARCHITECTURE.md
  858) each keep the registry, the sequence positions and every status in their own
  memory and write whole rows over one another's; nothing hands a session over.

## 6. What is not modelled

* **Pure functions**: schemas, canonical JSON, HMAC, media tokens, reading the
  configuration, parsing a policy and evaluating a condition on a payload.
* **Detectors and models**: gaze, objects, camera quality, the embedding network,
  transcription, the language model. They are what a sample or an answer says.
* **User interface**: windows, rendering, toasts, which keys are restricted, the
  evidence and transcript views.
* **Postgres, several processes and SQL**: PostgresStore has the statements of
  SqliteStore in another dialect, except that it keeps the first of two transcripts
  of one id, and ids are fresh. Migrations, connections and locks are left out.
  Writes that raise are modelled in `Monitors` and not in `Gateway`.
* **`forget`** of verifier and monitor has no caller.
* **Simulator, build and deployment.**

## 7. Plan

Done, in this order: integrity, gateway, rule and lifecycle, stretched clock; the
telemetry client and the link; recordings; console, board and queue; store,
identity, audio and retention; the client shell. The safety invariants and the
action properties of all of them are proved, and so are two refinements,
`FlagLifecycle` and the safety part of `BoardView`.

Left: several gateway processes on one store, when the code hands a session over.
