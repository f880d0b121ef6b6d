---------------------------- MODULE Recording ----------------------------
(***************************************************************************)
(* The recordings of one session (src/python/proctor_media/recording.py    *)
(* and the media half of src/python/proctor_gateway/app.py): the gateway   *)
(* asks the SFU for an egress from a room_started webhook or a proctor's   *)
(* click, and follows it through webhooks that come late, twice, in any    *)
(* order, or before the call that started the egress has returned.         *)
(*                                                                         *)
(* Every call to the SFU runs in a thread: a handler suspends there, and   *)
(* between its check and its write other handlers run.  Everything else a  *)
(* handler does is one step.  Times and the failure reason are left out.   *)
(***************************************************************************)
EXTENDS Integers

CONSTANTS
  Egresses,      \* ids the SFU gives to recordings
  Files,         \* those of them that leave a file
  NoEgress,      \* what a call has before the SFU has answered
  Handlers,      \* bound: requests being handled at a time
  MaxCrashes     \* bound: process crashes

ASSUME RecordingAssumption ==
  /\ NoEgress \notin Egresses
  /\ Files \subseteq Egresses
  /\ MaxCrashes \in Nat

\* A row the room path writes has the egress id for its recording id; the row
\* of a proctor's start has an id of its own.
Kinds == {"room", "manual"}
RowIds == Kinds \X Egresses
EgressOf(r) == r[2]

VARIABLES
  rows,     \* table recordings
  handler,  \* the requests in flight
  egress,   \* the SFU: what each egress really does
  crashes

vars == <<rows, handler, egress, crashes>>

Requested == "requested"
Active    == "active"
Stopping  == "stopping"
Available == "available"
Failed    == "failed"
Statuses == {Requested, Active, Stopping, Available, Failed}
LiveStatuses == {Requested, Active, Stopping}

\* storage_ref is abstracted to whether there is one.
Record == [status : Statuses, ref : BOOLEAN]
NoRow == [status |-> "none", ref |-> FALSE]

\* Mutated forms of Transitions: a failed recording may become active; every
\* recording goes through ACTIVE.
TransitionsReopen ==
  [s \in Statuses |->
     CASE s = Requested -> {Active, Stopping, Available, Failed}
       [] s = Active    -> {Stopping, Available, Failed}
       [] s = Stopping  -> {Available, Failed}
       [] s = Failed    -> {Active}
       [] OTHER         -> {}]

TransitionsStrict ==
  [s \in Statuses |->
     CASE s = Requested -> {Active}
       [] s = Active    -> {Stopping, Available, Failed}
       [] s = Stopping  -> {Available, Failed}
       [] OTHER         -> {}]

\* _TRANSITIONS
Transitions ==
  [s \in Statuses |->
     CASE s = Requested -> {Active, Stopping, Available, Failed}
       [] s = Active    -> {Stopping, Available, Failed}
       [] s = Stopping  -> {Available, Failed}
       [] OTHER         -> {}]

Idle == [stage |-> "idle"]
Handler ==
  {Idle}
    \cup [stage : {"starting"}, kind : Kinds, egress : Egresses \cup {NoEgress}]
    \cup [stage : {"stopping"}, row : RowIds, record : Record, accepted : BOOLEAN]

TypeOK ==
  /\ rows \in [RowIds -> Record \cup {NoRow}]
  /\ handler \in [Handlers -> Handler]
  /\ egress \in [Egresses -> {"none", "active", "complete", "aborted"}]
  /\ crashes \in 0..MaxCrashes

Init ==
  /\ rows = [r \in RowIds |-> NoRow]
  /\ handler = [h \in Handlers |-> Idle]
  /\ egress = [e \in Egresses |-> "none"]
  /\ crashes = 0

Stored == {r \in RowIds : rows[r] # NoRow}
RowsOf(e) == {r \in Stored : EgressOf(r) = e}
HasLiveRow == \E r \in Stored : rows[r].status \in LiveStatuses

---------------------------------------------------------------------------
(* Starting                                                                *)

\* _start_recording_for_room: nothing to do while a recording is live.
MayStart == ~HasLiveRow

\* A room_started webhook, up to the call to the SFU.
RoomStarted(h) ==
  /\ handler[h] = Idle
  /\ MayStart
  /\ handler' = [handler EXCEPT ![h] =
       [stage |-> "starting", kind |-> "room", egress |-> NoEgress]]
  /\ UNCHANGED <<rows, egress, crashes>>

\* start_recording, up to the call to the SFU.
StartClicked(h) ==
  /\ handler[h] = Idle
  /\ handler' = [handler EXCEPT ![h] =
       [stage |-> "starting", kind |-> "manual", egress |-> NoEgress]]
  /\ UNCHANGED <<rows, egress, crashes>>

\* The SFU starts an egress for the call.
EgressStarts(h, e) ==
  /\ handler[h].stage = "starting"
  /\ handler[h].egress = NoEgress
  /\ egress[e] = "none"
  /\ egress' = [egress EXCEPT ![e] = "active"]
  /\ handler' = [handler EXCEPT ![h].egress = e]
  /\ UNCHANGED <<rows, crashes>>

\* The call fails, before or after the SFU acted on it.
StartFails(h) ==
  /\ handler[h].stage = "starting"
  /\ handler' = [handler EXCEPT ![h] = Idle]
  /\ UNCHANGED <<rows, egress, crashes>>

\* The room path leaves a row alone that a webhook has already written.
WritesRow(k, e) == k = "room" => RowsOf(e) = {}

\* The call returns and its handler writes the row.
StartReturns(h) ==
  LET k == handler[h].kind
      e == handler[h].egress
  IN
  /\ handler[h].stage = "starting"
  /\ e # NoEgress
  /\ handler' = [handler EXCEPT ![h] = Idle]
  /\ rows' = IF WritesRow(k, e)
             THEN [rows EXCEPT ![<<k, e>>] = [status |-> Requested, ref |-> FALSE]]
             ELSE rows
  /\ UNCHANGED <<egress, crashes>>

---------------------------------------------------------------------------
(* Stopping                                                                *)

\* stop_recording, up to the call: the record it will write is made here.
StopClicked(h, r) ==
  /\ handler[h] = Idle
  /\ r \in Stored
  /\ Stopping \in Transitions[rows[r].status]
  /\ handler' = [handler EXCEPT ![h] =
       [stage |-> "stopping", row |-> r,
        record |-> [rows[r] EXCEPT !.status = Stopping], accepted |-> FALSE]]
  /\ UNCHANGED <<rows, egress, crashes>>

\* The SFU takes the request for an egress that is running.
StopAccepted(h) ==
  /\ handler[h].stage = "stopping"
  /\ ~handler[h].accepted
  /\ egress[EgressOf(handler[h].row)] = "active"
  /\ handler' = [handler EXCEPT ![h].accepted = TRUE]
  /\ UNCHANGED <<rows, egress, crashes>>

\* The call fails: nothing is written.
StopFails(h) ==
  /\ handler[h].stage = "stopping"
  /\ handler' = [handler EXCEPT ![h] = Idle]
  /\ UNCHANGED <<rows, egress, crashes>>

\* The call returns: the record made before it is written.
StopReturns(h) ==
  /\ handler[h].stage = "stopping"
  /\ handler[h].accepted
  /\ rows' = [rows EXCEPT ![handler[h].row] = handler[h].record]
  /\ handler' = [handler EXCEPT ![h] = Idle]
  /\ UNCHANGED <<egress, crashes>>

---------------------------------------------------------------------------
(* The SFU and its webhooks                                                *)

\* An egress ends: asked to, or because its room closed or it failed.
EgressEnds(e) ==
  /\ egress[e] = "active"
  /\ \E how \in {"complete", "aborted"} : egress' = [egress EXCEPT ![e] = how]
  /\ UNCHANGED <<rows, handler, crashes>>

Started == "egress_started"
Ended   == "egress_ended"

\* What the SFU may be delivering, for the first time or again.
Deliverable(e, event) ==
  IF event = Started THEN egress[e] # "none"
  ELSE egress[e] \in {"complete", "aborted"}

\* Mutated form of Target: an egress that ended is available.
TargetAvailable(e, event) == IF event = Started THEN Active ELSE Available

\* The status an event asks for.
Target(e, event) ==
  IF event = Started THEN Active
  ELSE IF egress[e] = "complete" THEN Available ELSE Failed

\* _apply_webhook_event: the row of the egress, or a new one, moves if it may.
\* The end of an egress, complete or not, carries the reference of its file.
Applied(x, e, event) ==
  IF Target(e, event) \in Transitions[x.status]
  THEN [status |-> Target(e, event),
        ref |-> x.ref \/ (event = Ended /\ e \in Files)]
  ELSE x

NewRow(e) == [rows EXCEPT ![<<"room", e>>] = [status |-> Requested, ref |-> FALSE]]

\* Which of several rows a lookup by egress id returns is not determined.
Webhook(e, event) ==
  /\ Deliverable(e, event)
  /\ LET table == IF RowsOf(e) = {} THEN NewRow(e) ELSE rows
         found == IF RowsOf(e) = {} THEN {<<"room", e>>} ELSE RowsOf(e)
     IN \E r \in found :
          rows' = [table EXCEPT ![r] = Applied(@, e, event)]
  /\ UNCHANGED <<handler, egress, crashes>>

\* The process dies and restarts: what it was doing is lost, and nothing of a
\* recording is in memory only.
Crash ==
  /\ crashes < MaxCrashes
  /\ crashes' = crashes + 1
  /\ handler' = [h \in Handlers |-> Idle]
  /\ UNCHANGED <<rows, egress>>

\* ... between the two writes of a webhook that found no row.
CrashInWebhook(e, event) ==
  /\ Deliverable(e, event)
  /\ RowsOf(e) = {}
  /\ crashes < MaxCrashes
  /\ crashes' = crashes + 1
  /\ rows' = NewRow(e)
  /\ handler' = [h \in Handlers |-> Idle]
  /\ UNCHANGED egress

Next ==
  \/ \E h \in Handlers :
       \/ RoomStarted(h)
       \/ StartClicked(h)
       \/ \E e \in Egresses : EgressStarts(h, e)
       \/ StartFails(h)
       \/ StartReturns(h)
       \/ \E r \in RowIds : StopClicked(h, r)
       \/ StopAccepted(h)
       \/ StopFails(h)
       \/ StopReturns(h)
  \/ \E e \in Egresses :
       \/ EgressEnds(e)
       \/ \E event \in {Started, Ended} : Webhook(e, event) \/ CrashInWebhook(e, event)
  \/ Crash

Spec == Init /\ [][Next]_vars

---------------------------------------------------------------------------
(* Safety                                                                  *)

\* What the store says of an egress really happened: it started, and it ended
\* the way the row says; and what has ended has the reference of its file, if
\* there is one.
StatusIsTrue ==
  \A r \in Stored :
    LET real == egress[EgressOf(r)] IN
    /\ real # "none"
    /\ rows[r].status = Available => real = "complete"
    /\ rows[r].status = Failed => real = "aborted"
    /\ rows[r].status \in {Available, Failed} =>
         (rows[r].ref <=> EgressOf(r) \in Files)

\* How far a status is along the lifecycle.
Rank ==
  [s \in Statuses \cup {"none"} |->
     CASE s = "none" -> 0
       [] s = Requested -> 1
       [] s = Active -> 2
       [] s = Stopping -> 3
       [] OTHER -> 4]

\* No webhook, duplicate or late, and no call that returns late walks a recording
\* back, and what has ended stays as it ended; only the late answer to a stop
\* request does: it writes what it read before it waited for LiveKit.
OnlyStopsWalkBack ==
  [][\A r \in RowIds :
       \/ Rank[rows'[r].status] > Rank[rows[r].status]
       \/ rows'[r] = rows[r]
       \/ \E h \in Handlers : /\ handler[h].stage = "stopping"
                              /\ handler[h].row = r
                              /\ handler'[h] = Idle]_vars

\* The end of an egress, whenever it is delivered, settles a row: with or
\* without a row at the time, before or after the other webhooks, while a call
\* is on its way and after a crash between the two writes of a webhook.
EndSettles ==
  [][\A e \in Egresses :
       Webhook(e, Ended) =>
         \E r \in RowsOf(e)' : rows'[r].status \in {Available, Failed}]_vars

============================================================================
