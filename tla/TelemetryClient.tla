------------------------- MODULE TelemetryClient -------------------------
(***************************************************************************)
(* The client's telemetry transport (src/apps/client/src/main/telemetry.ts *)
(* and endSession of main/index.ts): sequence numbers handed out at once,  *)
(* frames signed concurrently, dispatched along a chain of promises onto   *)
(* the socket or a bounded queue, a reconnect loop, and the end of the     *)
(* session.  One event loop runs it; a step is what runs between two       *)
(* awaits.                                                                 *)
(*                                                                         *)
(* A frame is its sequence number.  Sockets come from the ws library, seen *)
(* through its events: open, close, and error, which an attempt to connect *)
(* reports together with its close, and an established socket some time    *)
(* before its close (the closing handshake has a timeout of its own).      *)
(***************************************************************************)
EXTENDS Integers, SequencesExt

CONSTANTS
  MaxQueue,     \* MAX_QUEUE
  SigningFails, \* TRUE: signing a frame may reject
  LateClose,    \* TRUE: an established socket may report an error
  MaxFrames,    \* bound: frames emitted
  MaxSockets,   \* bound: sockets opened
  MaxClock      \* bound: the clock stops here

ASSUME ClientAssumption ==
  /\ MaxQueue \in Nat \ {0}
  /\ SigningFails \in BOOLEAN
  /\ LateClose \in BOOLEAN
  /\ {MaxFrames, MaxSockets, MaxClock} \subseteq Nat

Numbers == 0..(MaxFrames - 1)
Sockets == 1..MaxSockets
NoSocket == 0
NoFrame == -1

VARIABLES
  seq,       \* #seq
  status,    \* of each frame: "none", "signing", "signed", "failed",
             \* "dispatched"
  queue,     \* #queue
  dropped,   \* #dropped
  socket,    \* #socket
  state,     \* of each socket: "none", "connecting", "open", "failing", "closed"
  loop,      \* #connectLoop: "backoff", "awaiting" the newest socket, "done"
  phase,     \* endSession: "running", "ending", "draining", "closed"
  awaited,   \* the frame endSession or close waits for
  wire,      \* what was sent on each socket, in order
  stamp,     \* ts_monotonic_ms of each frame
  now,       \* performance.now()
  lost,      \* history: some open socket was lost
  ending     \* history: the frame that carries session_end

client == <<seq, status, queue, dropped, socket, state, loop, phase, awaited,
            wire, stamp, lost, ending>>
vars == <<client, now>>

TypeOK ==
  /\ seq \in 0..MaxFrames
  /\ status \in [Numbers -> {"none", "signing", "signed", "failed", "dispatched"}]
  /\ queue \in Seq(Numbers) /\ Len(queue) =< MaxQueue
  /\ dropped \in 0..MaxFrames
  /\ socket \in Sockets \cup {NoSocket}
  /\ state \in [Sockets -> {"none", "connecting", "open", "failing", "closed"}]
  /\ loop \in {"backoff", "awaiting", "done"}
  /\ phase \in {"running", "ending", "draining", "closed"}
  /\ awaited \in Numbers \cup {NoFrame}
  /\ wire \in [Sockets -> Seq(Numbers)]
  /\ stamp \in [Numbers -> 0..MaxClock]
  /\ now \in 0..MaxClock
  /\ lost \in BOOLEAN
  /\ ending \in Numbers \cup {NoFrame}

\* After start(): the loop is about to open its first socket.
Init ==
  /\ seq = 0
  /\ status = [n \in Numbers |-> "none"]
  /\ queue = <<>>
  /\ dropped = 0
  /\ socket = NoSocket
  /\ state = [k \in Sockets |-> "none"]
  /\ loop = "backoff"
  /\ phase = "running"
  /\ awaited = NoFrame
  /\ wire = [k \in Sockets |-> <<>>]
  /\ stamp = [n \in Numbers |-> 0]
  /\ now = 0
  /\ lost = FALSE
  /\ ending = NoFrame

connected == socket # NoSocket /\ state[socket] = "open"
Settled(n) == status[n] \in {"failed", "dispatched"}

\* Mutated form of MayDispatch: nothing waits.
MayDispatchAtOnce(n) == status[n] = "signed"

\* Mutated form of MayDispatch: a frame that failed to sign is not let past.
MayDispatchUncaught(n) ==
  status[n] = "signed" /\ (n > 0 => status[n - 1] = "dispatched")

\* `await previous`: the chain lets a signed frame through when the frame
\* emitted before it has settled, and a frame that fails to sign settles
\* without waiting for anything.
MayDispatch(n) == status[n] = "signed" /\ (n > 0 => Settled(n - 1))

---------------------------------------------------------------------------
\* emit, up to its first await.
Accept ==
  /\ phase # "closed"
  /\ seq < MaxFrames
  /\ seq' = seq + 1
  /\ status' = [status EXCEPT ![seq] = "signing"]
  /\ stamp' = [stamp EXCEPT ![seq] = now]

\* Every emitter but endSession: observations, environment, heartbeats.
Emit ==
  /\ Accept
  /\ UNCHANGED <<queue, dropped, socket, state, loop, phase, awaited, wire, lost, now, ending>>

Signed(n) ==
  /\ status[n] = "signing"
  /\ status' = [status EXCEPT ![n] = "signed"]
  /\ UNCHANGED <<seq, queue, dropped, socket, state, loop, phase, awaited,
                 wire, stamp, lost, now, ending>>

SigningRejects(n) ==
  /\ SigningFails
  /\ status[n] = "signing"
  /\ status' = [status EXCEPT ![n] = "failed"]
  /\ UNCHANGED <<seq, queue, dropped, socket, state, loop, phase, awaited,
                 wire, stamp, lost, now, ending>>

\* The queue after a push: its oldest frame gives way.
Overflow(q) == IF Len(q) > MaxQueue THEN Tail(q) ELSE q

\* #dispatch
Dispatch(n) ==
  /\ MayDispatch(n)
  /\ status' = [status EXCEPT ![n] = "dispatched"]
  /\ \/ /\ connected
        /\ wire' = [wire EXCEPT ![socket] = Append(@, n)]
        /\ UNCHANGED <<queue, dropped>>
     \/ /\ ~connected
        /\ queue' = Overflow(Append(queue, n))
        /\ dropped' = IF Len(queue) = MaxQueue THEN dropped + 1 ELSE dropped
        /\ UNCHANGED wire
  /\ UNCHANGED <<seq, socket, state, loop, phase, awaited, stamp, lost, now, ending>>

---------------------------------------------------------------------------
\* Sockets are numbered in the order they are opened.
unopened == {k \in Sockets : state[k] = "none"}
NextSocket == CHOOSE k \in unopened : \A j \in unopened : k =< j

\* #connectLoop opens the next socket: #connectOnce.
Connect ==
  /\ loop = "backoff"
  /\ phase # "closed"
  /\ unopened # {}
  /\ state' = [state EXCEPT ![NextSocket] = "connecting"]
  /\ socket' = NextSocket
  /\ loop' = "awaiting"
  /\ UNCHANGED <<seq, status, queue, dropped, phase, awaited, wire, stamp, lost, now, ending>>

\* Mutated forms of Flush: the queue is sent and kept; one frame is sent.
FlushOne(k) ==
  IF socket = k /\ queue # <<>>
  THEN wire' = [wire EXCEPT ![k] = Append(@, Head(queue))] /\ queue' = Tail(queue)
  ELSE UNCHANGED <<wire, queue>>

FlushKeeps(k) ==
  IF socket = k
  THEN wire' = [wire EXCEPT ![k] = @ \o queue] /\ UNCHANGED queue
  ELSE UNCHANGED <<wire, queue>>

\* #flush, when socket k has opened: it sends on #socket, whatever that is.
Flush(k) ==
  IF socket = k
  THEN wire' = [wire EXCEPT ![k] = @ \o queue] /\ queue' = <<>>
  ELSE UNCHANGED <<wire, queue>>

Open(k) ==
  /\ state[k] = "connecting"
  /\ state' = [state EXCEPT ![k] = "open"]
  /\ Flush(k)
  /\ UNCHANGED <<seq, status, dropped, socket, loop, phase, awaited, stamp, lost, now, ending>>

\* The newest socket is the one the loop waits for.
Newest(k) == \A j \in Sockets : j > k => state[j] = "none"
Resume(k) == loop' = IF Newest(k) /\ loop = "awaiting" THEN "backoff" ELSE loop

\* An attempt to connect fails: error, then close.
ConnectFails(k) ==
  /\ state[k] = "connecting"
  /\ state' = [state EXCEPT ![k] = "closed"]
  /\ socket' = NoSocket
  /\ Resume(k)
  /\ UNCHANGED <<seq, status, queue, dropped, phase, awaited, wire, stamp, lost, now, ending>>

\* An open socket closes.
Closes(k) ==
  /\ state[k] = "open"
  /\ state' = [state EXCEPT ![k] = "closed"]
  /\ socket' = NoSocket
  /\ lost' = TRUE
  /\ Resume(k)
  /\ UNCHANGED <<seq, status, queue, dropped, phase, awaited, wire, stamp, now, ending>>

\* An open socket reports an error; its close comes later.
Errors(k) ==
  /\ LateClose
  /\ state[k] = "open"
  /\ state' = [state EXCEPT ![k] = "failing"]
  /\ socket' = NoSocket
  /\ lost' = TRUE
  /\ Resume(k)
  /\ UNCHANGED <<seq, status, queue, dropped, phase, awaited, wire, stamp, now, ending>>

\* The close of a socket that reported an error clears #socket, though by now
\* #socket may be another.
ClosesLate(k) ==
  /\ state[k] = "failing"
  /\ state' = [state EXCEPT ![k] = "closed"]
  /\ socket' = NoSocket
  /\ UNCHANGED <<seq, status, queue, dropped, loop, phase, awaited, wire, stamp, lost, now, ending>>

---------------------------------------------------------------------------
\* endSession emits session_end and waits for it ...
EndSession ==
  /\ phase = "running"
  /\ Accept
  /\ phase' = "ending"
  /\ awaited' = seq
  /\ ending' = seq
  /\ UNCHANGED <<queue, dropped, socket, state, loop, wire, lost, now>>

\* ... gives up when it could not be signed ...
EndFails ==
  /\ phase = "ending"
  /\ status[awaited] = "failed"
  /\ phase' = "running"
  /\ awaited' = NoFrame
  /\ UNCHANGED <<seq, status, queue, dropped, socket, state, loop, wire, stamp, lost, now, ending>>

\* ... and calls close, which waits for the tail of the chain ...
CloseBegins ==
  /\ phase = "ending"
  /\ status[awaited] = "dispatched"
  /\ phase' = "draining"
  /\ awaited' = seq - 1
  /\ UNCHANGED <<seq, status, queue, dropped, socket, state, loop, wire, stamp, lost, now, ending>>

\* Mutated form of CloseEnds: the tail is not awaited.
CloseEndsAtOnce ==
  /\ phase = "draining"
  /\ phase' = "closed"
  /\ state' = [k \in Sockets |->
       IF state[k] \in {"connecting", "open"} THEN "closed" ELSE state[k]]
  /\ socket' = NoSocket
  /\ loop' = "done"
  /\ UNCHANGED <<seq, status, queue, dropped, awaited, wire, stamp, lost, now, ending>>

\* ... and then closes the socket, whatever is left in the queue, and the
\* process exits.  (#flush has nothing to do: when the socket is open the queue
\* is empty.)
CloseEnds ==
  /\ phase = "draining"
  /\ Settled(awaited)
  /\ phase' = "closed"
  /\ state' = [k \in Sockets |->
       IF state[k] \in {"connecting", "open"} THEN "closed" ELSE state[k]]
  /\ socket' = NoSocket
  /\ loop' = "done"
  /\ UNCHANGED <<seq, status, queue, dropped, awaited, wire, stamp, lost, now, ending>>

Elapse ==
  /\ now < MaxClock
  /\ now' = now + 1
  /\ UNCHANGED client

Next ==
  \/ Emit
  \/ \E n \in Numbers : Signed(n) \/ SigningRejects(n) \/ Dispatch(n)
  \/ Connect
  \/ \E k \in Sockets : Open(k) \/ ConnectFails(k) \/ Closes(k) \/ Errors(k)
                          \/ ClosesLate(k)
  \/ EndSession \/ EndFails \/ CloseBegins \/ CloseEnds
  \/ Elapse

Spec == Init /\ [][Next]_vars

---------------------------------------------------------------------------
(* Safety                                                                  *)

\* The frames in the order they were or will be sent: socket by socket, then
\* the queue.  (A place is a line and a position in it, so that no property
\* needs the lines laid end to end.)
Line(k) == IF k \in Sockets THEN wire[k] ELSE queue
Places == UNION {{k} \X DOMAIN Line(k) : k \in 1..(MaxSockets + 1)}
At(p) == Line(p[1])[p[2]]
Before(p, q) == p[1] < q[1] \/ (p[1] = q[1] /\ p[2] < q[2])

FailedBetween(m, n) ==
  \E f \in Numbers : m < f /\ f < n /\ status[f] = "failed"

\* The chain of promises keeps the sequence numbers in order: a frame is
\* overtaken only when a frame emitted between the two could not be signed,
\* however long each takes to sign and whichever sockets come and go.
OnlyFailuresLetOvertake ==
  \A p, q \in Places :
    Before(p, q) /\ At(p) > At(q) => FailedBetween(At(q), At(p))

dispatched == {n \in Numbers : status[n] = "dispatched"}
Held == {At(p) : p \in Places}

\* A dispatched frame is on one socket, or in the queue, or was dropped by a
\* full queue: none is sent twice and none disappears, across reconnects.
EachFrameOnce ==
  /\ \A p, q \in Places : At(p) = At(q) => p = q
  /\ Cardinality(Held) + dropped = Cardinality(dispatched)

\* "close waits for frames still being signed": unless signing failed, every
\* frame emitted before close began was dispatched when the client is closed.
CloseWaits ==
  phase = "closed" /\ (\A n \in Numbers : status[n] # "failed")
    => \A n \in 0..awaited : status[n] = "dispatched"

---------------------------------------------------------------------------
(* Liveness: signing ends one way or the other, and promises that can run  *)
(* do.  Nothing is assumed of the network.                                 *)

FairSpec ==
  /\ Spec
  /\ \A n \in Numbers : /\ WF_vars(Signed(n) \/ SigningRejects(n))
                        /\ WF_vars(Dispatch(n))

\* "catch keeps one failed frame from wedging every frame queued behind it":
\* every frame accepted is dispatched or reported as failed.
NothingWedges ==
  \A n \in Numbers : status[n] = "signing" ~> Settled(n)

===========================================================================
