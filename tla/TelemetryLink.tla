-------------------------- MODULE TelemetryLink --------------------------
(***************************************************************************)
(* An honest client (TelemetryClient) against the gateway's integrity      *)
(* check (StreamIntegrity): what a network that delays, cuts and loses can *)
(* make the gateway flag.  Each accepted socket has a handler of its own,  *)
(* which reads the frames of that socket in order; a socket that is cut    *)
(* may lose its unread tail, and its handler may still be reading when the *)
(* client is already on the next one.                                      *)
(***************************************************************************)
EXTENDS StreamIntegrity, TelemetryClient

VARIABLES
  session,  \* the gateway's Session
  read,     \* frames read so far, per socket
  flagged,  \* breaches raised so far
  crossed,  \* history: a frame was read after one of a newer socket
  slowest   \* history: the longest a frame took from emit to the check

gateway == <<session, read, flagged, crossed, slowest>>
linkvars == <<vars, gateway>>

LinkInit ==
  /\ Init
  /\ session = NewSession
  /\ read = [k \in Sockets |-> 0]
  /\ flagged = {}
  /\ crossed = FALSE
  /\ slowest = 0

\* The gateway's clock, at the same pace, never zero.
ServerTime == now + 1

Frame(n) == [seq |-> n, ts_monotonic_ms |-> stamp[n]]

\* The handler of socket k reads its next frame.
Read(k) ==
  LET f == Frame(wire[k][read[k] + 1])
      v == BreachesOf(session, f, ServerTime)
      x == Checked(session, f, ServerTime)
      delay == now - stamp[f.seq]
  IN
  /\ read[k] < Len(wire[k])
  /\ read' = [read EXCEPT ![k] = @ + 1]
  /\ session' =
       IF v = {} THEN x ELSE Breached(x, CHOOSE b \in v : TRUE, ServerTime)
  /\ flagged' = flagged \cup v
  /\ crossed' = (crossed \/ \E j \in Sockets : j > k /\ read[j] > 0)
  /\ slowest' = IF delay > slowest THEN delay ELSE slowest
  /\ UNCHANGED vars

LinkNext ==
  \/ Next /\ UNCHANGED gateway
  \/ \E k \in Sockets : Read(k)

LinkSpec == LinkInit /\ [][LinkNext]_linkvars

---------------------------------------------------------------------------
LinkTypeOK ==
  /\ TypeOK
  /\ session \in Session
  /\ read \in [Sockets -> 0..MaxFrames]
  /\ flagged \in SUBSET Breach
  /\ crossed \in BOOLEAN
  /\ slowest \in 0..MaxClock

SomeFailed == \E n \in Numbers : status[n] = "failed"

\* An honest client is accused of a replay only when two of its own sockets
\* were read out of order or a frame could not be signed: neither concurrent
\* signing nor any number of reconnects makes it overtake itself.
ReplayOnlyIfCrossed == Replay \in flagged => crossed \/ SomeFailed

\* An honest client is accused of a gap only when frames were really lost on
\* the way: a full queue, a frame that could not be signed, the unread end of
\* a socket that was cut.
GapOnlyIfLost ==
  SequenceGap \in flagged => dropped > 0 \/ SomeFailed \/ lost

\* "Delay reads as skew": an honest client is accused of a bad clock only when
\* one of its frames took longer than the tolerance to be checked.
SkewOnlyIfLate == ClockSkew \in flagged => slowest > SkewTolerance

==========================================================================
