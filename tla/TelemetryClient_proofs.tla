--------------------- MODULE TelemetryClient_proofs ---------------------
(***************************************************************************)
(* Proofs about TelemetryClient, for every queue length, any number of     *)
(* frames and of sockets: the frames keep their order unless signing       *)
(* fails, each is in one place, and close waits for those emitted before;  *)
(* and about TelemetryLink, for every tolerance as well: what the gateway  *)
(* accuses this client of has a cause on the way.                          *)
(***************************************************************************)
EXTENDS TelemetryLink, FiniteSetTheorems, SequenceTheorems, WellFoundedInduction, TLAPS

---------------------------------------------------------------------------
(* The inductive invariant                                                 *)

QueueLine == MaxSockets + 1

\* TypeOK without the upper bound of dropped, which is a matter of counting.
Typed ==
  /\ seq \in 0..MaxFrames
  /\ status \in [Numbers -> {"none", "signing", "signed", "failed", "dispatched"}]
  /\ queue \in Seq(Numbers)
  /\ Len(queue) =< MaxQueue
  /\ dropped \in Nat
  /\ socket \in Sockets \cup {NoSocket}
  /\ state \in [Sockets -> {"none", "connecting", "open", "failing", "closed"}]
  /\ loop \in {"backoff", "awaiting", "done"}
  /\ phase \in {"running", "ending", "draining", "closed"}
  /\ awaited \in Numbers \cup {NoFrame}
  /\ wire \in [Sockets -> Seq(Numbers)]
  /\ stamp \in [Numbers -> 0..MaxClock]
  /\ now \in 0..MaxClock
  /\ lost \in BOOLEAN
  /\ ending \in Numbers \cup {NoFrame}

\* Numbers are handed out in order.
NumberedInOrder == \A n \in Numbers : n >= seq => status[n] = "none"

\* Why the order holds: a frame gets past one that is still being signed only
\* where a frame between the two failed.
ChainHolds ==
  \A m, n \in Numbers :
    status[m] = "dispatched" /\ n < m /\ ~Settled(n) => FailedBetween(n, m)

\* endSession and close wait for a frame that was emitted.
AwaitsAFrame ==
  /\ phase \in {"ending", "draining", "closed"} => awaited \in Numbers
  /\ phase = "ending" => awaited < seq
  /\ phase = "closed" => Settled(awaited)

\* Sockets are opened one after another.
OpenedInOrder ==
  \A j, k \in Sockets : j < k /\ state[j] = "none" => state[k] = "none"

NothingSentYet == \A k \in Sockets : state[k] = "none" => wire[k] = <<>>

\* #socket is the newest one and has not closed, and nothing is queued when it
\* is open.
SocketInUse ==
  socket # NoSocket =>
    /\ Newest(socket)
    /\ state[socket] \in {"connecting", "open"}
    /\ state[socket] = "open" => queue = <<>>

HeldAreDispatched == Held \subseteq dispatched
OnePlaceEach == \A p, q \in Places : At(p) = At(q) => p = q
AllAccountedFor == Cardinality(Held) + dropped = Cardinality(dispatched)

ChainInv == Typed /\ NumberedInOrder /\ ChainHolds /\ AwaitsAFrame
SocketInv == OpenedInOrder /\ NothingSentYet /\ SocketInUse
PlaceInv ==
  HeldAreDispatched /\ OnePlaceEach /\ OnlyFailuresLetOvertake /\ AllAccountedFor

IInv == ChainInv /\ SocketInv /\ PlaceInv

---------------------------------------------------------------------------
(* What the steps are built from                                           *)

\* The next socket is the first that was not opened.
LEMMA NextSocketIsFirst ==
  ASSUME unopened # {}
  PROVE  NextSocket \in unopened /\ \A j \in unopened : NextSocket =< j
<1> DEFINE R == OpToRel(<, Nat)
<1>1. unopened \subseteq Nat
  BY ClientAssumption DEF unopened, Sockets
<1>2. \A i, j \in Nat : i < j => <<i, j>> \in R
  BY Zenon DEF OpToRel
<1>3. IsWellFoundedOn(R, Nat)
  BY NatLessThanWellFounded
<1> HIDE DEF R
<1>4. PICK k \in unopened : \A j \in unopened : ~(<<j, k>> \in R)
  BY <1>1, <1>3, WFMin
<1>5. ASSUME NEW j \in unopened PROVE k =< j
  <2>1. j \in Nat /\ k \in Nat
    BY <1>1
  <2>2. ~(j < k)
    BY <2>1, <1>2, <1>4, Zenon
  <2> QED BY <2>1, <2>2
<1> QED BY <1>5 DEF NextSocket

\* What a push leaves in the queue: the frames it held, without the oldest
\* when it was full, and the new one last.
LEMMA OverflowFacts ==
  ASSUME NEW q \in Seq(Numbers), NEW n \in Numbers, Len(q) =< MaxQueue
  PROVE  LET r == Overflow(Append(q, n)) IN
         /\ r \in Seq(Numbers)
         /\ Len(r) =< MaxQueue
         /\ Len(q) < MaxQueue => r = Append(q, n)
         /\ Len(q) = MaxQueue =>
              /\ Len(r) = MaxQueue
              /\ r[MaxQueue] = n
              /\ \A i \in 1..(MaxQueue - 1) : r[i] = q[i + 1]
<1> DEFINE a == Append(q, n)
<1>1. a \in Seq(Numbers) /\ Len(a) = Len(q) + 1 /\ a[Len(q) + 1] = n
      /\ \A i \in 1..Len(q) : a[i] = q[i]
  OBVIOUS
<1> HIDE DEF a
<1>2. MaxQueue \in Nat \ {0} /\ Len(q) \in Nat
  BY ClientAssumption
<1>3. CASE Len(q) < MaxQueue
  BY <1>1, <1>2, <1>3 DEF Overflow, a
<1>4. CASE Len(q) = MaxQueue
  <2>1. a # <<>>
    BY <1>1, <1>2
  <2>2. Tail(a) \in Seq(Numbers) /\ Len(Tail(a)) = Len(a) - 1
        /\ \A i \in 1..(Len(a) - 1) : Tail(a)[i] = a[i + 1]
    BY <1>1, <2>1
  <2>3. Overflow(a) = Tail(a)
    BY <1>1, <1>2, <1>4 DEF Overflow
  <2> HIDE DEF Overflow
  <2> QED BY <1>1, <1>2, <1>4, <2>2, <2>3 DEF a
<1> QED BY <1>2, <1>3, <1>4

\* What sending a sequence of frames on a socket does to the wires.
LEMMA SentFacts ==
  ASSUME NEW w \in [Sockets -> Seq(Numbers)], NEW k \in Sockets,
         NEW s \in Seq(Numbers)
  PROVE  LET v == [w EXCEPT ![k] = @ \o s] IN
         /\ v \in [Sockets -> Seq(Numbers)]
         /\ Len(v[k]) = Len(w[k]) + Len(s)
         /\ \A i \in 1..Len(w[k]) : v[k][i] = w[k][i]
         /\ \A i \in 1..Len(s) : v[k][Len(w[k]) + i] = s[i]
         /\ \A j \in Sockets \ {k} : v[j] = w[j]
<1>1. w[k] \o s \in Seq(Numbers) /\ Len(w[k] \o s) = Len(w[k]) + Len(s)
      /\ (\A i \in 1..Len(w[k]) : (w[k] \o s)[i] = w[k][i])
      /\ (\A i \in 1..Len(s) : (w[k] \o s)[Len(w[k]) + i] = s[i])
  OBVIOUS
<1> QED BY <1>1

---------------------------------------------------------------------------
(* The chain of promises                                                   *)

\* Types are kept by every step.
LEMMA TypedStep == Typed /\ NumberedInOrder /\ AwaitsAFrame /\ [Next]_vars => Typed'
<1> SUFFICES ASSUME Typed, NumberedInOrder, AwaitsAFrame, [Next]_vars PROVE Typed'
  OBVIOUS
<1> USE ClientAssumption DEF Typed
<1>1. CASE Emit
  BY <1>1 DEF Emit, Accept, Numbers
<1>2. ASSUME NEW n \in Numbers, Signed(n) PROVE Typed'
  BY <1>2 DEF Signed
<1>3. ASSUME NEW n \in Numbers, SigningRejects(n) PROVE Typed'
  BY <1>3 DEF SigningRejects
<1>4. ASSUME NEW n \in Numbers, Dispatch(n) PROVE Typed'
  <2> status' \in [Numbers -> {"none", "signing", "signed", "failed", "dispatched"}]
    BY <1>4 DEF Dispatch
  <2>1. CASE connected
    <3>1. /\ wire' = [wire EXCEPT ![socket] = Append(@, n)]
          /\ UNCHANGED <<queue, dropped>>
      BY <2>1, <1>4 DEF Dispatch
    <3>2. wire' \in [Sockets -> Seq(Numbers)]
      BY <3>1, <2>1 DEF connected
    <3> QED BY <3>1, <3>2, <1>4 DEF Dispatch
  <2>2. CASE ~connected
    <3>1. /\ queue' = Overflow(Append(queue, n))
          /\ dropped' = IF Len(queue) = MaxQueue THEN dropped + 1 ELSE dropped
          /\ UNCHANGED wire
      BY <2>2, <1>4 DEF Dispatch
    <3>2. queue' \in Seq(Numbers) /\ Len(queue') =< MaxQueue
      BY <3>1, OverflowFacts
    <3> QED BY <3>1, <3>2, <1>4 DEF Dispatch
  <2> QED BY <2>1, <2>2
<1>5. CASE Connect
  BY <1>5, NextSocketIsFirst DEF Connect, unopened
<1>6. ASSUME NEW k \in Sockets, Open(k) PROVE Typed'
  <2>1. wire' \in [Sockets -> Seq(Numbers)] /\ queue' \in Seq(Numbers)
        /\ Len(queue') =< MaxQueue
    <3>1. CASE socket = k
      <4>1. wire' = [wire EXCEPT ![k] = @ \o queue] /\ queue' = <<>>
        BY <1>6, <3>1 DEF Open, Flush
      <4>2. <<>> \in Seq(Numbers) /\ Len(<<>>) = 0
        OBVIOUS
      <4> QED BY <4>1, <4>2, SentFacts
    <3> QED BY <3>1, <1>6 DEF Open, Flush
  <2> QED BY <2>1, <1>6 DEF Open
<1>7. ASSUME NEW k \in Sockets, ConnectFails(k) PROVE Typed'
  BY <1>7 DEF ConnectFails, Resume
<1>8. ASSUME NEW k \in Sockets, Closes(k) PROVE Typed'
  BY <1>8 DEF Closes, Resume
<1>9. ASSUME NEW k \in Sockets, Errors(k) PROVE Typed'
  BY <1>9 DEF Errors, Resume
<1>10. ASSUME NEW k \in Sockets, ClosesLate(k) PROVE Typed'
  BY <1>10 DEF ClosesLate
<1>11. CASE EndSession
  BY <1>11 DEF EndSession, Accept, Numbers
<1>12. CASE EndFails
  BY <1>12 DEF EndFails
<1>13. CASE CloseBegins
  BY <1>13 DEF CloseBegins, AwaitsAFrame, Numbers
<1>14. CASE CloseEnds
  BY <1>14 DEF CloseEnds
<1>15. CASE Elapse
  BY <1>15 DEF Elapse, client
<1>16. CASE UNCHANGED vars
  BY <1>16 DEF vars, client
<1> QED BY <1>1, <1>2, <1>3, <1>4, <1>5, <1>6, <1>7, <1>8, <1>9, <1>10, <1>11,
  <1>12, <1>13, <1>14, <1>15, <1>16 DEF Next

\* A frame that failed stays failed, so what it let past stays explained.
LEMMA FailedForGood ==
  ASSUME NEW m \in Numbers, NEW n \in Numbers, FailedBetween(m, n),
         \A f \in Numbers : status[f] = "failed" => status'[f] = "failed"
  PROVE  FailedBetween(m, n)'
BY DEF FailedBetween

\* Only the frames' own steps and emitting change what frames there are.
LEMMA OnlyFramesMoveStatus ==
  ASSUME [Next]_vars
  PROVE  \/ Emit \/ EndSession \/ UNCHANGED <<seq, status>>
         \/ \E n \in Numbers : Signed(n) \/ SigningRejects(n) \/ Dispatch(n)
BY DEF Next, Connect, Open, ConnectFails, Closes, Errors, ClosesLate, EndFails,
  CloseBegins, CloseEnds, Elapse, vars, client

\* Only the end of the session changes what is awaited.
LEMMA OnlyTheEndAwaits ==
  ASSUME [Next]_vars, UNCHANGED <<seq, status>>, Typed
  PROVE  EndFails \/ CloseBegins \/ CloseEnds \/ UNCHANGED <<phase, awaited>>
<1>1. ~EndSession
  BY DEF EndSession, Accept, Typed
<1> QED BY <1>1 DEF Next, Emit, Signed, SigningRejects, Dispatch, Connect, Open, ConnectFails,
  Closes, Errors, ClosesLate, Elapse, vars, client

\* The chain keeps every step: what is dispatched has only settled frames
\* behind it, back to the last one that failed.
LEMMA ChainStep ==
  ChainInv /\ [Next]_vars => (NumberedInOrder /\ ChainHolds /\ AwaitsAFrame)'
<1> SUFFICES ASSUME ChainInv, [Next]_vars
             PROVE  (NumberedInOrder /\ ChainHolds /\ AwaitsAFrame)'
  OBVIOUS
<1> USE ClientAssumption
<1>t. Typed /\ NumberedInOrder /\ ChainHolds /\ AwaitsAFrame
  BY DEF ChainInv
<1>n. Numbers \subseteq Nat /\ seq \in Nat /\ MaxFrames \in Nat
  BY <1>t DEF Typed, Numbers
<1>0. CASE UNCHANGED <<seq, status>>
  <2>1. NumberedInOrder'
    BY <1>0, <1>t DEF NumberedInOrder
  <2>2. ChainHolds'
    BY <1>0, <1>t DEF ChainHolds, Settled, FailedBetween
  <2>3. CASE UNCHANGED <<phase, awaited>>
    BY <2>1, <2>2, <2>3, <1>0, <1>t DEF AwaitsAFrame, Settled
  <2>4. CASE EndFails
    BY <2>1, <2>2, <2>4 DEF EndFails, AwaitsAFrame
  <2>5. CASE CloseBegins
    <3>1. awaited \in Numbers /\ awaited < seq /\ seq =< MaxFrames
      BY <2>5, <1>t DEF CloseBegins, AwaitsAFrame, Typed
    <3>2. awaited' \in Numbers /\ phase' = "draining"
      BY <3>1, <2>5, <1>n DEF CloseBegins, Numbers
    <3> QED BY <3>2, <2>1, <2>2 DEF AwaitsAFrame
  <2>6. CASE CloseEnds
    BY <2>1, <2>2, <2>6, <1>t DEF CloseEnds, AwaitsAFrame, Settled
  <2> QED BY <2>3, <2>4, <2>5, <2>6, <1>0, <1>t, OnlyTheEndAwaits
<1>1. ASSUME Accept, AwaitsAFrame' PROVE (NumberedInOrder /\ ChainHolds /\ AwaitsAFrame)'
  <2>1. /\ seq \in Numbers /\ seq' = seq + 1 /\ status[seq] = "none"
        /\ status' = [status EXCEPT ![seq] = "signing"]
    BY <1>1, <1>t, <1>n DEF Accept, NumberedInOrder, Typed, Numbers
  <2>2. NumberedInOrder'
    BY <2>1, <1>t, <1>n DEF NumberedInOrder, Typed
  <2>3. ASSUME NEW m \in Numbers, NEW n \in Numbers, status'[m] = "dispatched", n < m,
               ~Settled(n)'
        PROVE  FailedBetween(n, m)'
    <3>1. status[m] = "dispatched" /\ ~Settled(n)
      BY <2>1, <2>3, <1>t DEF Settled, Typed
    <3>2. FailedBetween(n, m)
      BY <3>1, <2>3, <1>t DEF ChainHolds
    <3> QED BY <3>2, <2>1, <1>t, FailedForGood DEF Typed
  <2> QED BY <2>2, <2>3, <1>1 DEF ChainHolds
<1>2. ASSUME NEW n \in Numbers, Signed(n) \/ SigningRejects(n) \/ Dispatch(n)
      PROVE  (NumberedInOrder /\ ChainHolds /\ AwaitsAFrame)'
  <2>1. /\ status[n] \in {"signing", "signed"}
        /\ status' = [status EXCEPT ![n] = status'[n]]
        /\ status'[n] \in {"signed", "failed", "dispatched"}
        /\ status'[n] = "dispatched" => MayDispatch(n)
        /\ UNCHANGED <<seq, phase, awaited>>
    BY <1>2, <1>t DEF Signed, SigningRejects, Dispatch, MayDispatch, Typed
  <2>2. \A f \in Numbers : status[f] \in {"failed", "dispatched"} => status'[f] = status[f]
    BY <2>1, <1>t DEF Typed
  <2>3. NumberedInOrder'
    BY <2>1, <1>t DEF NumberedInOrder, Typed
  <2>4. AwaitsAFrame'
    BY <2>1, <2>2, <1>t DEF AwaitsAFrame, Settled
  <2>5. ASSUME NEW m \in Numbers, NEW u \in Numbers, status'[m] = "dispatched", u < m,
               ~Settled(u)'
        PROVE  FailedBetween(u, m)'
    <3>1. ~Settled(u)
      BY <2>5, <2>2 DEF Settled
    <3>2. CASE status[m] = "dispatched"
      <4>1. FailedBetween(u, m)
        BY <3>1, <3>2, <2>5, <1>t DEF ChainHolds
      <4> QED BY <4>1, <2>2, FailedForGood
    <3>3. CASE status[m] # "dispatched"
      <4>1. m = n /\ MayDispatch(m)
        BY <3>3, <2>1, <2>5, <1>t DEF Typed
      <4>2. m > 0 /\ m - 1 \in Numbers /\ Settled(m - 1)
        BY <4>1, <2>5, <1>n DEF MayDispatch, Numbers
      <4>3. u < m - 1
        BY <4>2, <3>1, <2>5, <1>n
      <4>4. CASE status[m - 1] = "failed"
        <5>1. FailedBetween(u, m)
          BY <4>2, <4>3, <4>4, <1>n DEF FailedBetween
        <5> QED BY <5>1, <2>2, FailedForGood
      <4>5. CASE status[m - 1] = "dispatched"
        <5>1. FailedBetween(u, m - 1)
          BY <4>2, <4>3, <4>5, <3>1, <1>t DEF ChainHolds
        <5>2. FailedBetween(u, m)
          BY <5>1, <1>n DEF FailedBetween
        <5> QED BY <5>2, <2>2, FailedForGood
      <4> QED BY <4>2, <4>4, <4>5 DEF Settled
    <3> QED BY <3>2, <3>3
  <2> QED BY <2>3, <2>4, <2>5 DEF ChainHolds
<1>3. CASE Emit
  <2>1. AwaitsAFrame'
    <3>1. Accept /\ UNCHANGED <<phase, awaited>>
      BY <1>3 DEF Emit
    <3>2. seq' = seq + 1 /\ phase # "closed"
      BY <3>1 DEF Accept
    <3> QED BY <3>1, <3>2, <1>t, <1>n DEF AwaitsAFrame, Numbers
  <2> QED BY <2>1, <1>1, <1>3 DEF Emit
<1>4. CASE EndSession
  <2>1. AwaitsAFrame'
    BY <1>4, <1>t, <1>n DEF EndSession, Accept, AwaitsAFrame, Numbers
  <2> QED BY <2>1, <1>1, <1>4 DEF EndSession
<1>5. \/ Emit \/ EndSession \/ UNCHANGED <<seq, status>>
      \/ \E n \in Numbers : Signed(n) \/ SigningRejects(n) \/ Dispatch(n)
  BY OnlyFramesMoveStatus
<1> QED BY <1>0, <1>2, <1>3, <1>4, <1>5

---------------------------------------------------------------------------
(* The sockets                                                             *)

\* #socket stays the newest of the sockets, and the queue stays empty while
\* it is open.
LEMMA SocketStep == Typed /\ SocketInv /\ [Next]_vars => SocketInv'
<1> SUFFICES ASSUME Typed, SocketInv, [Next]_vars PROVE SocketInv'
  OBVIOUS
<1> USE ClientAssumption
<1>t. Typed /\ OpenedInOrder /\ NothingSentYet /\ SocketInUse
  BY DEF SocketInv
<1>n. Sockets \subseteq Nat /\ NoSocket \notin Sockets
  BY DEF Sockets, NoSocket
<1>0. CASE UNCHANGED <<socket, state, wire, queue>>
  BY <1>0, <1>t DEF SocketInv, OpenedInOrder, NothingSentYet, SocketInUse, Newest
<1>1. ASSUME NEW n \in Numbers, Dispatch(n) PROVE SocketInv'
  <2>0. UNCHANGED <<socket, state>>
    BY <1>1 DEF Dispatch
  <2>1. OpenedInOrder'
    BY <2>0, <1>t DEF OpenedInOrder
  <2>2. CASE connected
    <3>1. /\ wire' = [wire EXCEPT ![socket] = Append(@, n)]
          /\ queue' = queue
      BY <1>1, <2>2 DEF Dispatch
    <3>2. \A k \in Sockets : k # socket => wire'[k] = wire[k]
      BY <3>1, <1>t DEF Typed
    <3>3. NothingSentYet'
      BY <3>2, <2>0, <2>2, <1>t DEF connected, NothingSentYet
    <3> QED BY <3>1, <3>3, <2>0, <2>1, <1>t DEF SocketInv, SocketInUse, Newest
  <2>3. CASE ~connected
    <3>1. wire' = wire
      BY <1>1, <2>3 DEF Dispatch
    <3>2. NothingSentYet'
      BY <3>1, <2>0, <1>t DEF NothingSentYet
    <3> QED BY <3>2, <2>0, <2>1, <2>3, <1>t DEF connected, SocketInv, SocketInUse, Newest
  <2> QED BY <2>2, <2>3
<1>2. CASE Connect
  <2>1. PICK k \in Sockets : /\ k = NextSocket /\ state[k] = "none"
                             /\ \A j \in Sockets : state[j] = "none" => k =< j
    BY <1>2, NextSocketIsFirst DEF Connect, unopened
  <2>2. /\ state' = [state EXCEPT ![k] = "connecting"]
        /\ socket' = k
        /\ UNCHANGED <<wire, queue>>
    BY <1>2, <2>1 DEF Connect
  <2>3. state'[k] = "connecting" /\ \A j \in Sockets : j # k => state'[j] = state[j]
    BY <2>1, <2>2, <1>t DEF Typed
  <2>4. \A j \in Sockets : j > k => state'[j] = "none"
    BY <2>1, <2>3, <1>t, <1>n DEF OpenedInOrder
  <2>5. OpenedInOrder'
    BY <2>1, <2>3, <1>t, <1>n DEF OpenedInOrder
  <2>6. NothingSentYet'
    BY <2>2, <2>3, <1>t DEF NothingSentYet
  <2>7. SocketInUse'
    BY <2>2, <2>3, <2>4 DEF SocketInUse, Newest
  <2> QED BY <2>5, <2>6, <2>7 DEF SocketInv
<1>3. ASSUME NEW k \in Sockets, Open(k) PROVE SocketInv'
  <2>1. /\ state[k] = "connecting"
        /\ state' = [state EXCEPT ![k] = "open"]
        /\ socket' = socket
        /\ Flush(k)
    BY <1>3 DEF Open
  <2>2. state'[k] = "open" /\ \A j \in Sockets : j # k => state'[j] = state[j]
    BY <2>1, <1>t DEF Typed
  <2>3. OpenedInOrder'
    BY <2>1, <2>2, <1>t, <1>n DEF OpenedInOrder
  <2>4. \A j \in Sockets : j # k => wire'[j] = wire[j]
    BY <2>1, <1>t DEF Flush, Typed
  <2>5. NothingSentYet'
    BY <2>2, <2>4, <1>t DEF NothingSentYet
  <2>6. socket = k => queue' = <<>>
    BY <2>1 DEF Flush
  <2>7. socket # k => queue' = queue
    BY <2>1 DEF Flush
  <2>8. ASSUME socket # NoSocket PROVE Newest(socket)' /\ state'[socket] \in {"connecting", "open"}
    <3>1. socket \in Sockets /\ Newest(socket)
      BY <2>8, <1>t DEF Typed, SocketInUse
    <3>2. ~(k > socket)
      BY <3>1, <2>1 DEF Newest
    <3> QED BY <3>1, <3>2, <2>1, <2>2, <2>8, <1>t, <1>n DEF Newest, SocketInUse
  <2>9. SocketInUse'
    <3>1. ASSUME socket' # NoSocket, state'[socket'] = "open" PROVE queue' = <<>>
      BY <3>1, <2>1, <2>2, <2>6, <2>7, <1>t, <1>n DEF SocketInUse, Typed
    <3> QED BY <3>1, <2>1, <2>8 DEF SocketInUse, Newest
  <2> QED BY <2>3, <2>5, <2>9 DEF SocketInv
<1>4. ASSUME NEW k \in Sockets,
             ConnectFails(k) \/ Closes(k) \/ Errors(k) \/ ClosesLate(k)
      PROVE  SocketInv'
  <2>1. /\ state[k] # "none" /\ state'[k] # "none"
        /\ state' = [state EXCEPT ![k] = state'[k]]
        /\ socket' = NoSocket
        /\ UNCHANGED <<wire, queue>>
    BY <1>4, <1>t DEF ConnectFails, Closes, Errors, ClosesLate, Typed
  <2>2. \A j \in Sockets : state'[j] = "none" <=> state[j] = "none"
    BY <2>1, <1>t DEF Typed
  <2> QED BY <2>1, <2>2, <1>t DEF SocketInv, OpenedInOrder, NothingSentYet, SocketInUse
<1>5. CASE CloseEnds
  <2>1. \A j \in Sockets : state'[j] = "none" <=> state[j] = "none"
    BY <1>5, <1>t DEF CloseEnds, Typed
  <2> QED BY <2>1, <1>5, <1>t DEF CloseEnds, SocketInv, OpenedInOrder, NothingSentYet, SocketInUse
<1>6. \/ Connect \/ CloseEnds \/ UNCHANGED <<socket, state, wire, queue>>
      \/ \E n \in Numbers : Dispatch(n)
      \/ \E k \in Sockets : Open(k) \/ ConnectFails(k) \/ Closes(k) \/ Errors(k)
                             \/ ClosesLate(k)
  BY DEF Next, Emit, Signed, SigningRejects, EndSession, EndFails, CloseBegins, Elapse,
    vars, client
<1> QED BY <1>0, <1>1, <1>2, <1>3, <1>4, <1>5, <1>6

---------------------------------------------------------------------------
(* The places of the frames                                                *)

WhereFramesAre ==
  /\ \A k \in 1..QueueLine, i \in Nat :
       <<k, i>> \in Places <=> i \in 1..Len(Line(k))
  /\ \A p \in Places : \E k \in 1..QueueLine : \E i \in 1..Len(Line(k)) : p = <<k, i>>
  /\ \A k \in 1..QueueLine, i \in Nat : At(<<k, i>>) = Line(k)[i]
  /\ \A k \in 1..QueueLine : Line(k) \in Seq(Numbers)
  /\ \A k \in Sockets : Line(k) = wire[k]
  /\ Line(QueueLine) = queue
  /\ Held \subseteq Numbers

\* A place is a position on a line; the lines are the sockets and the queue.
LEMMA PlaceFacts == Typed => WhereFramesAre
<1> SUFFICES ASSUME Typed PROVE WhereFramesAre
  OBVIOUS
<1> USE ClientAssumption
<1>1. QueueLine \notin Sockets /\ 1..QueueLine = Sockets \cup {QueueLine}
  BY DEF QueueLine, Sockets
<1>2. (\A k \in Sockets : Line(k) = wire[k]) /\ Line(QueueLine) = queue
  BY <1>1 DEF Line
<1>3. ASSUME NEW k \in 1..QueueLine PROVE Line(k) \in Seq(Numbers)
  <2>1. CASE k \in Sockets
    BY <2>1, <1>2 DEF Typed
  <2>2. CASE k = QueueLine
    BY <2>2, <1>2 DEF Typed
  <2> QED BY <1>1, <2>1, <2>2
<1>4. Places = UNION {{k} \X (1..Len(Line(k))) : k \in 1..QueueLine}
  BY <1>3 DEF Places, QueueLine
<1>5. \A p : p \in Places <=> \E k \in 1..QueueLine : p \in {k} \X (1..Len(Line(k)))
  BY <1>4, Zenon
<1>6. \A k \in 1..QueueLine, i \in Nat : <<k, i>> \in Places <=> i \in 1..Len(Line(k))
  BY <1>5
<1>7. \A p \in Places : \E k \in 1..QueueLine : \E i \in 1..Len(Line(k)) : p = <<k, i>>
  BY <1>5
<1>8. \A k \in 1..QueueLine, i \in Nat : At(<<k, i>>) = Line(k)[i]
  BY DEF At
<1>9. ASSUME NEW p \in Places PROVE At(p) \in Numbers
  <2>1. PICK k \in 1..QueueLine : \E i \in 1..Len(Line(k)) : p = <<k, i>>
    BY <1>7
  <2>2. PICK i \in 1..Len(Line(k)) : p = <<k, i>>
    BY <2>1
  <2>3. At(p) = Line(k)[i]
    BY <2>2 DEF At
  <2> QED BY <2>2, <2>3, <1>3
<1>10. Held \subseteq Numbers
  BY <1>9 DEF Held
<1> QED BY <1>2, <1>3, <1>6, <1>7, <1>8, <1>10 DEF WhereFramesAre

\* What a step does to the frames in places P of the next state: each was in
\* the place F gives it, in the same order, and only those in gone have gone.
Tracks(P, F, gone) ==
  /\ F \in [P -> Places \ gone]
  /\ \A p \in P : At(p)' = At(F[p])
  /\ \A p, q \in P : Before(p, q) => Before(F[p], F[q])
  /\ \A p, q \in P : F[p] = F[q] => p = q
  /\ \A x \in Places \ gone : \E p \in P : F[p] = x

\* Frames that move to other places, all of them and in the same order, keep
\* what is promised of them.
LEMMA Rearranged ==
  ASSUME PlaceInv, dispatched' = dispatched, dropped' = dropped,
         \A f \in Numbers : status[f] = "failed" => status'[f] = "failed",
         Held \subseteq Numbers,
         NEW F, Tracks(Places', F, {})
  PROVE  PlaceInv'
<1> USE DEF Tracks
<1>1. Held' = Held
  <2>1. \A v : v \in Held' <=> \E p \in Places' : v = At(F[p])
    BY DEF Held
  <2>2. \A v : v \in Held <=> \E x \in Places : v = At(x)
    BY DEF Held
  <2>3. ASSUME NEW v PROVE v \in Held' <=> v \in Held
    BY <2>1, <2>2
  <2> QED BY <2>3
<1>2. OnePlaceEach'
  BY DEF PlaceInv, OnePlaceEach
<1>3. OnlyFailuresLetOvertake'
  <2> SUFFICES ASSUME NEW p \in Places', NEW q \in Places', Before(p, q), At(p)' > At(q)'
               PROVE  FailedBetween(At(q), At(p))'
    BY DEF OnlyFailuresLetOvertake
  <2>1. At(F[p]) \in Numbers /\ At(F[q]) \in Numbers
    BY DEF Held
  <2>2. FailedBetween(At(F[q]), At(F[p]))
    BY DEF PlaceInv, OnlyFailuresLetOvertake
  <2>3. PICK f \in Numbers : At(F[q]) < f /\ f < At(F[p]) /\ status[f] = "failed"
    BY <2>2 DEF FailedBetween
  <2>4. At(q)' < f /\ f < At(p)' /\ status'[f] = "failed"
    BY <2>3
  <2> QED BY <2>4 DEF FailedBetween
<1> QED BY <1>1, <1>2, <1>3 DEF PlaceInv, HeldAreDispatched, AllAccountedFor

\* So does a frame whose turn it is, put behind all the others, whether or not
\* another makes room for it.
LEMMA Pushed ==
  ASSUME PlaceInv, ChainInv, Held \subseteq Numbers,
         NEW n \in Numbers, status[n] = "signed",
         status' = [status EXCEPT ![n] = "dispatched"],
         NEW last \in Places', At(last)' = n,
         \A q \in Places' : ~Before(last, q),
         NEW F, NEW gone, Tracks(Places' \ {last}, F, gone),
         \/ gone = {} /\ dropped' = dropped
         \/ (\E x \in Places : gone = {x}) /\ dropped' = dropped + 1
  PROVE  PlaceInv'
<1> USE DEF Tracks
<1> USE ClientAssumption
<1>t. /\ Typed /\ ChainHolds
      /\ HeldAreDispatched /\ OnePlaceEach /\ OnlyFailuresLetOvertake /\ AllAccountedFor
  BY DEF ChainInv, PlaceInv
<1>n. Numbers \subseteq Nat /\ IsFiniteSet(Numbers)
  BY FS_Interval DEF Numbers
<1>d. dispatched' = dispatched \cup {n} /\ n \notin dispatched /\ n \notin Held
      /\ dispatched \subseteq Numbers
  BY <1>t DEF dispatched, HeldAreDispatched, Typed
<1>1. \A p \in Places' \ {last} : At(p)' \in Held /\ At(p)' # n
  BY <1>d DEF Held
<1>2. OnePlaceEach'
  <2> SUFFICES ASSUME NEW p \in Places', NEW q \in Places', At(p)' = At(q)' PROVE p = q
    BY DEF OnePlaceEach
  <2>1. CASE p = last \/ q = last
    BY <2>1, <1>1
  <2>2. CASE p # last /\ q # last
    <3>1. At(F[p]) = At(F[q]) /\ F[p] \in Places /\ F[q] \in Places
      BY <2>2
    <3>2. F[p] = F[q]
      BY <3>1, <1>t DEF OnePlaceEach
    <3> QED BY <3>2, <2>2
  <2> QED BY <2>1, <2>2
<1>3. OnlyFailuresLetOvertake'
  <2> SUFFICES ASSUME NEW p \in Places', NEW q \in Places', Before(p, q), At(p)' > At(q)'
               PROVE  FailedBetween(At(q), At(p))'
    BY DEF OnlyFailuresLetOvertake
  <2>1. p # last
    OBVIOUS
  <2>2. At(p)' \in Held /\ status[At(p)'] = "dispatched" /\ At(p)' \in Numbers
    BY <2>1, <1>1, <1>t DEF HeldAreDispatched, dispatched
  <2>3. PICK f \in Numbers : At(q)' < f /\ f < At(p)' /\ status[f] = "failed"
    <3>1. CASE q = last
      <4>1. ~Settled(n) /\ n < At(p)'
        BY <3>1, <1>n, <2>2 DEF Settled
      <4>2. FailedBetween(n, At(p)')
        BY <4>1, <2>2, <1>t DEF ChainHolds
      <4> QED BY <4>2, <3>1 DEF FailedBetween
    <3>2. CASE q # last
      <4>1. F[p] \in Places /\ F[q] \in Places /\ Before(F[p], F[q])
            /\ At(F[p]) = At(p)' /\ At(F[q]) = At(q)'
        BY <3>2, <2>1
      <4>2. FailedBetween(At(F[q]), At(F[p]))
        BY <4>1, <1>t DEF OnlyFailuresLetOvertake
      <4> QED BY <4>1, <4>2 DEF FailedBetween
    <3> QED BY <3>1, <3>2
  <2>4. status'[f] = "failed"
    BY <2>3, <1>t DEF Typed
  <2> QED BY <2>3, <2>4 DEF FailedBetween
<1>4. Held' = (Held \ {At(x) : x \in gone}) \cup {n}
  <2>1. \A v : v \in Held' <=> \E p \in Places' : v = At(p)'
    BY DEF Held
  <2>2. \A v : v \in Held <=> \E x \in Places : v = At(x)
    BY DEF Held
  <2>3. ASSUME NEW v, v \in Held', v # n PROVE v \in Held /\ v \notin {At(x) : x \in gone}
    <3>1. PICK p \in Places' \ {last} : v = At(p)'
      BY <2>1, <2>3
    <3>2. v = At(F[p]) /\ F[p] \in Places /\ F[p] \notin gone
      BY <3>1
    <3> QED BY <3>2, <2>2, <1>t DEF OnePlaceEach
  <2>4. ASSUME NEW v, v \in Held, v \notin {At(x) : x \in gone} PROVE v \in Held'
    <3>1. PICK x \in Places \ gone : v = At(x)
      BY <2>2, <2>4
    <3>2. PICK p \in Places' \ {last} : F[p] = x
      OBVIOUS
    <3> QED BY <3>1, <3>2, <2>1
  <2>5. n \in Held' /\ n \notin Held
    BY <2>1, <1>d
  <2> QED BY <2>3, <2>4, <2>5
<1>5. IsFiniteSet(Held) /\ IsFiniteSet(dispatched)
  BY <1>n, <1>d, FS_Subset
<1>6. Cardinality(dispatched') = Cardinality(dispatched) + 1
  BY <1>5, <1>d, FS_AddElement
<1>c. Cardinality(Held) \in Nat /\ Cardinality(dispatched) \in Nat
  BY <1>5, FS_CardinalityType
<1>7. CASE gone = {} /\ dropped' = dropped
  <2>1. Held' = Held \cup {n}
    BY <1>4, <1>7
  <2>2. Cardinality(Held') = Cardinality(Held) + 1
    BY <2>1, <1>5, <1>d, FS_AddElement
  <2>3. AllAccountedFor'
    BY <2>2, <1>6, <1>7, <1>t, <1>c DEF AllAccountedFor, Typed
  <2>4. HeldAreDispatched'
    BY <2>1, <1>d, <1>t DEF HeldAreDispatched
  <2> QED BY <2>3, <2>4, <1>2, <1>3 DEF PlaceInv
<1>8. ASSUME NEW x \in Places, gone = {x}, dropped' = dropped + 1
      PROVE  PlaceInv'
  <2>1. Held' = (Held \ {At(x)}) \cup {n} /\ At(x) \in Held
    BY <1>4, <1>8 DEF Held
  <2>2. Cardinality(Held \ {At(x)}) = Cardinality(Held) - 1 /\ IsFiniteSet(Held \ {At(x)})
    BY <2>1, <1>5, FS_RemoveElement
  <2>3. Cardinality(Held') = Cardinality(Held)
    <3>1. n \notin Held \ {At(x)}
      BY <1>d
    <3>2. Cardinality((Held \ {At(x)}) \cup {n}) = Cardinality(Held \ {At(x)}) + 1
      BY <3>1, <2>2, FS_AddElement
    <3> QED BY <3>2, <2>1, <2>2, <1>c
  <2>4. AllAccountedFor'
    BY <2>3, <1>6, <1>8, <1>t, <1>c DEF AllAccountedFor, Typed
  <2>5. HeldAreDispatched'
    BY <2>1, <1>d, <1>t DEF HeldAreDispatched
  <2> QED BY <2>4, <2>5, <1>2, <1>3 DEF PlaceInv
<1> QED BY <1>7, <1>8

\* The same of the next state.
LEMMA PlaceFactsNext == Typed' => WhereFramesAre'
BY PlaceFacts, PTL

\* A frame goes behind everything on the last line that holds anything.
LEMMA GrowStep ==
  ASSUME Typed', ChainInv, PlaceInv,
         NEW n \in Numbers, status[n] = "signed",
         status' = [status EXCEPT ![n] = "dispatched"], dropped' = dropped,
         NEW k \in 1..QueueLine, Line(k)' = Append(Line(k), n),
         \A j \in 1..QueueLine : j # k => Line(j)' = Line(j),
         \A j \in 1..QueueLine : j > k => Line(j) = <<>>
  PROVE  PlaceInv'
<1> USE ClientAssumption
<1>w. WhereFramesAre
  BY PlaceFacts DEF ChainInv
<1>v. WhereFramesAre'
  BY PlaceFactsNext
<1>3. PICK len \in Nat : len = Len(Line(k)) /\ Line(k) \in Seq(Numbers)
  BY <1>w DEF WhereFramesAre
<1>z. PICK last : last = <<k, len + 1>>
  OBVIOUS
<1>4. /\ Len(Line(k)') = len + 1 /\ Line(k)'[len + 1] = n
      /\ \A i \in 1..len : Line(k)'[i] = Line(k)[i]
      /\ Len(Line(k)) = len
  BY <1>3
<1>7. \A p : p \in Places' <=> p = last \/ p \in Places
  <2>1. ASSUME NEW p, p \in Places', p # last PROVE p \in Places
    <3>1. PICK j \in 1..QueueLine : \E i \in 1..Len(Line(j)') : p = <<j, i>>
      BY <2>1, <1>v DEF WhereFramesAre
    <3>2. PICK i \in 1..Len(Line(j)') : p = <<j, i>>
      BY <3>1
    <3>3. i \in 1..Len(Line(j))
      BY <3>2, <2>1, <1>z, <1>3, <1>4
    <3> QED BY <3>2, <3>3, <1>w DEF WhereFramesAre
  <2>2. ASSUME NEW p, p \in Places PROVE p \in Places'
    <3>1. PICK j \in 1..QueueLine : \E i \in 1..Len(Line(j)) : p = <<j, i>>
      BY <2>2, <1>w DEF WhereFramesAre
    <3>2. PICK i \in 1..Len(Line(j)) : p = <<j, i>>
      BY <3>1
    <3>3. i \in 1..Len(Line(j)') /\ i \in Nat
      BY <3>2, <1>3, <1>4
    <3> QED BY <3>2, <3>3, <1>v DEF WhereFramesAre
  <2>3. last \in Places'
    <3>1. len + 1 \in 1..Len(Line(k)') /\ len + 1 \in Nat
      BY <1>3, <1>4
    <3> QED BY <3>1, <1>z, <1>v DEF WhereFramesAre
  <2> QED BY <2>1, <2>2, <2>3
<1>8. \A p \in Places : At(p)' = At(p) /\ p # last
  <2> SUFFICES ASSUME NEW p \in Places PROVE At(p)' = At(p) /\ p # last
    OBVIOUS
  <2>1. PICK j \in 1..QueueLine : \E i \in 1..Len(Line(j)) : p = <<j, i>>
    BY <1>w DEF WhereFramesAre
  <2>2. PICK i \in 1..Len(Line(j)) : p = <<j, i>>
    BY <2>1
  <2>3. Line(j)'[i] = Line(j)[i]
    BY <1>3, <1>4
  <2>4. At(p)' = Line(j)'[i] /\ At(p) = Line(j)[i]
    BY <2>2 DEF At
  <2>5. p # last
    BY <2>2, <1>z, <1>3, <1>4
  <2> QED BY <2>3, <2>4, <2>5
<1>9. At(last)' = n
  BY <1>4, <1>z DEF At
<1>10. ASSUME NEW q \in Places' PROVE ~Before(last, q)
  <2>1. PICK j \in 1..QueueLine : \E i \in 1..Len(Line(j)') : q = <<j, i>>
    BY <1>v DEF WhereFramesAre
  <2>2. PICK i \in 1..Len(Line(j)') : q = <<j, i>>
    BY <2>1
  <2>3. ~(j > k)
    BY <2>2
  <2>4. j = k => i =< len + 1
    BY <2>2, <1>3, <1>4
  <2> QED BY <2>2, <2>3, <2>4, <1>z, <1>3 DEF Before
<1>11. PICK F \in [Places' \ {last} -> Places] : \A p \in Places' \ {last} : F[p] = p
  <2> DEFINE G == [p \in Places' \ {last} |-> p]
  <2>1. G \in [Places' \ {last} -> Places] /\ \A p \in Places' \ {last} : G[p] = p
    BY <1>7
  <2> QED BY <2>1
<1>12. Held \subseteq Numbers /\ last \in Places'
  BY <1>w, <1>7 DEF WhereFramesAre
<1>13. Tracks(Places' \ {last}, F, {})
  BY <1>7, <1>8, <1>11 DEF Tracks
<1> QED BY <1>9, <1>10, <1>12, <1>13, Pushed

\* A frame sent at once goes behind everything on the newest socket.
LEMMA SendStep ==
  ASSUME IInv, Typed', NEW n \in Numbers, Dispatch(n), connected
  PROVE  PlaceInv'
<1>t. Typed /\ ChainInv /\ PlaceInv /\ NothingSentYet /\ SocketInUse
  BY DEF IInv, ChainInv, SocketInv
<1>w. WhereFramesAre /\ WhereFramesAre'
  BY <1>t, PlaceFacts, PlaceFactsNext
<1>1. /\ status[n] = "signed" /\ status' = [status EXCEPT ![n] = "dispatched"]
      /\ wire' = [wire EXCEPT ![socket] = Append(@, n)]
      /\ queue' = queue /\ dropped' = dropped
  BY DEF Dispatch, MayDispatch
<1>2. PICK k \in Sockets : /\ socket = k /\ queue = <<>>
                           /\ \A j \in Sockets : j > k => wire[j] = <<>>
  BY <1>t DEF connected, SocketInUse, Newest, NothingSentYet, Typed
<1>3. 1..QueueLine = Sockets \cup {QueueLine} /\ k # QueueLine
  BY ClientAssumption DEF Sockets, QueueLine
<1>4. Line(k)' = Append(Line(k), n)
  <2>1. wire'[k] = Append(wire[k], n)
    BY <1>1, <1>2, <1>t DEF Typed
  <2> QED BY <2>1, <1>w DEF WhereFramesAre
<1>5. \A j \in 1..QueueLine : j # k => Line(j)' = Line(j)
  <2>1. \A j \in Sockets : j # k => wire'[j] = wire[j]
    BY <1>1, <1>2, <1>t DEF Typed
  <2> QED BY <2>1, <1>1, <1>3, <1>w DEF WhereFramesAre
<1>6. \A j \in 1..QueueLine : j > k => Line(j) = <<>>
  BY <1>2, <1>3, <1>w DEF WhereFramesAre
<1> QED BY <1>t, <1>1, <1>3, <1>4, <1>5, <1>6, GrowStep

\* A frame that waits goes to the end of the queue; of a full queue the oldest
\* frame goes.
LEMMA QueueStep ==
  ASSUME IInv, Typed', NEW n \in Numbers, Dispatch(n), ~connected
  PROVE  PlaceInv'
<1> USE ClientAssumption
<1>t. Typed /\ ChainInv /\ PlaceInv
  BY DEF IInv, ChainInv
<1>w. WhereFramesAre /\ WhereFramesAre'
  BY <1>t, PlaceFacts, PlaceFactsNext
<1>1. /\ status[n] = "signed" /\ status' = [status EXCEPT ![n] = "dispatched"]
      /\ wire' = wire
      /\ queue' = Overflow(Append(queue, n))
      /\ dropped' = IF Len(queue) = MaxQueue THEN dropped + 1 ELSE dropped
  BY DEF Dispatch, MayDispatch
<1>2. PICK Q \in 1..QueueLine : /\ Q = QueueLine /\ Q \in Nat
                                /\ \A j \in 1..QueueLine : j # Q => j \in Sockets /\ j < Q
  BY DEF Sockets, QueueLine
<1>3. Line(Q) = queue /\ Line(Q)' = queue'
  <2>1. QueueLine' = QueueLine
    BY DEF QueueLine
  <2> QED BY <2>1, <1>2, <1>w DEF WhereFramesAre
<1>4. \A j \in 1..QueueLine : j # Q => Line(j)' = Line(j)
  BY <1>1, <1>2, <1>w DEF WhereFramesAre
<1>5. queue \in Seq(Numbers) /\ Len(queue) \in Nat /\ Len(queue) =< MaxQueue
      /\ MaxQueue \in Nat \ {0}
  BY <1>t DEF Typed
<1>6. CASE Len(queue) < MaxQueue
  <2>1. Overflow(Append(queue, n)) = Append(queue, n)
    BY <1>5, <1>6, OverflowFacts
  <2>2. Line(Q)' = Append(Line(Q), n)
    BY <2>1, <1>1, <1>3
  <2>3. dropped' = dropped
    BY <1>1, <1>5, <1>6
  <2>4. \A j \in 1..QueueLine : j > Q => Line(j) = <<>>
    BY <1>2
  <2> QED BY <2>2, <2>3, <2>4, <1>t, <1>1, <1>4, GrowStep
<1>7. CASE Len(queue) = MaxQueue
  <2>1. /\ Len(queue') = MaxQueue /\ queue'[MaxQueue] = n
        /\ \A i \in 1..(MaxQueue - 1) : queue'[i] = queue[i + 1]
        /\ dropped' = dropped + 1
    BY <1>1, <1>5, <1>7, OverflowFacts
  <2>z. PICK last, first : last = <<Q, MaxQueue>> /\ first = <<Q, 1>>
    OBVIOUS
  <2>2. last \in Places' /\ At(last)' = n
    <3>1. MaxQueue \in 1..Len(Line(Q)') /\ MaxQueue \in Nat
      BY <2>1, <1>3, <1>5
    <3> QED BY <3>1, <2>1, <2>z, <1>2, <1>3, <1>w DEF WhereFramesAre, At
  <2>3. first \in Places
    <3>1. 1 \in 1..Len(Line(Q)) /\ 1 \in Nat
      BY <1>3, <1>5, <1>7
    <3> QED BY <3>1, <2>z, <1>2, <1>w DEF WhereFramesAre
  <2>4. ASSUME NEW q \in Places' PROVE ~Before(last, q)
    <3>1. PICK j \in 1..QueueLine : \E i \in 1..Len(Line(j)') : q = <<j, i>>
      BY <1>w DEF WhereFramesAre
    <3>2. PICK i \in 1..Len(Line(j)') : q = <<j, i>>
      BY <3>1
    <3>3. j = Q => i =< MaxQueue
      BY <3>2, <2>1, <1>3, <1>5
    <3> QED BY <3>2, <3>3, <2>z, <1>2, <1>5 DEF Before
  <2> DEFINE Was(p) == IF p[1] = Q THEN <<Q, p[2] + 1>> ELSE p
             Rest == Places' \ {last}
  <2>5. ASSUME NEW p \in Rest
        PROVE  /\ Was(p) \in Places \ {first}
               /\ At(p)' = At(Was(p))
               /\ p = <<p[1], p[2]>> /\ p[1] \in Nat /\ p[2] \in Nat
    <3>1. PICK j \in 1..QueueLine : \E i \in 1..Len(Line(j)') : p = <<j, i>>
      BY <1>w DEF WhereFramesAre
    <3>2. PICK i \in 1..Len(Line(j)') : p = <<j, i>>
      BY <3>1
    <3>3. i \in Nat /\ j \in Nat /\ i >= 1
      BY <3>2, <1>w DEF WhereFramesAre
    <3>4. CASE j # Q
      <4>1. Was(p) = p /\ p \in Places /\ p # first
        BY <3>2, <3>3, <3>4, <2>z, <1>4, <1>w DEF WhereFramesAre
      <4>2. At(p)' = At(p)
        BY <3>2, <3>4, <1>4 DEF At
      <4> QED BY <4>1, <4>2, <3>2, <3>3
    <3>5. CASE j = Q
      <4>1. i \in 1..(MaxQueue - 1) /\ i + 1 \in 1..Len(Line(Q)) /\ i + 1 \in Nat
        BY <3>2, <3>3, <3>5, <2>1, <2>z, <1>3, <1>5, <1>7
      <4>2. Was(p) = <<Q, i + 1>> /\ Was(p) \in Places /\ Was(p) # first
        BY <4>1, <3>2, <3>3, <3>5, <2>z, <1>w DEF WhereFramesAre
      <4>3. At(p)' = queue'[i] /\ At(Was(p)) = queue[i + 1]
        BY <4>2, <3>2, <3>5, <1>3 DEF At
      <4> QED BY <4>1, <4>2, <4>3, <2>1, <3>2, <3>3
    <3> QED BY <3>4, <3>5
  <2>6. ASSUME NEW x \in Places \ {first} PROVE \E p \in Rest : Was(p) = x
    <3>1. PICK j \in 1..QueueLine : \E i \in 1..Len(Line(j)) : x = <<j, i>>
      BY <1>w DEF WhereFramesAre
    <3>2. PICK i \in 1..Len(Line(j)) : x = <<j, i>>
      BY <3>1
    <3>3. i \in Nat /\ j \in Nat /\ i >= 1
      BY <3>2, <1>w DEF WhereFramesAre
    <3>4. CASE j # Q
      BY <3>2, <3>3, <3>4, <2>z, <1>4, <1>w DEF WhereFramesAre
    <3>5. CASE j = Q
      <4>1. i - 1 \in 1..Len(Line(Q)') /\ i - 1 \in Nat /\ i - 1 # MaxQueue
        BY <3>2, <3>3, <3>5, <2>1, <2>z, <1>3, <1>5, <1>7
      <4>2. <<Q, i - 1>> \in Rest
        BY <4>1, <2>z, <1>2, <1>w DEF WhereFramesAre
      <4>3. Was(<<Q, i - 1>>) = x
        BY <3>2, <3>3, <3>5
      <4> QED BY <4>2, <4>3
    <3> QED BY <3>4, <3>5
  <2>7. ASSUME NEW p \in Rest, NEW q \in Rest
        PROVE  /\ Before(p, q) => Before(Was(p), Was(q))
               /\ Was(p) = Was(q) => p = q
    BY <2>5 DEF Before
  <2>8. PICK F \in [Rest -> Places \ {first}] : \A p \in Rest : F[p] = Was(p)
    <3> DEFINE G == [p \in Rest |-> Was(p)]
    <3> HIDE DEF Was, Rest
    <3>1. G \in [Rest -> Places \ {first}] /\ \A p \in Rest : G[p] = Was(p)
      BY <2>5
    <3> QED BY <3>1
  <2>9. Tracks(Places' \ {last}, F, {first})
    <3> HIDE DEF Was
    <3> QED BY <2>5, <2>6, <2>7, <2>8 DEF Tracks
  <2>10. Held \subseteq Numbers
    BY <1>w DEF WhereFramesAre
  <2> QED BY <1>t, <1>1, <2>1, <2>2, <2>3, <2>4, <2>9, <2>10, Pushed
<1> QED BY <1>5, <1>6, <1>7

\* #flush puts the queue behind what the newest socket has sent.
LEMMA FlushStep ==
  ASSUME IInv, Typed', NEW k \in Sockets, Open(k), socket = k
  PROVE  PlaceInv'
<1> USE ClientAssumption
<1>t. Typed /\ PlaceInv /\ NothingSentYet /\ SocketInUse
  BY DEF IInv, ChainInv, SocketInv
<1>w. WhereFramesAre /\ WhereFramesAre'
  BY <1>t, PlaceFacts, PlaceFactsNext
<1>1. /\ wire' = [wire EXCEPT ![k] = @ \o queue] /\ queue' = <<>>
      /\ UNCHANGED <<status, dropped>>
  BY DEF Open, Flush
<1>2. \A j \in Sockets : j > k => wire[j] = <<>>
  BY <1>t DEF SocketInUse, Newest, NothingSentYet, NoSocket, Sockets
<1>3. PICK Q \in 1..QueueLine : /\ Q = QueueLine /\ Q \in Nat /\ k < Q
                                /\ \A j \in 1..QueueLine : j # Q => j \in Sockets /\ j < Q
                                /\ k \in 1..QueueLine /\ k \in Nat
  BY DEF Sockets, QueueLine
<1>4. Line(Q) = queue /\ Line(Q)' = <<>> /\ Line(k) = wire[k] /\ Line(k)' = wire'[k]
  <2>1. QueueLine' = QueueLine
    BY DEF QueueLine
  <2> QED BY <2>1, <1>1, <1>3, <1>w DEF WhereFramesAre
<1>5. PICK len, more \in Nat :
        /\ len = Len(wire[k]) /\ more = Len(queue)
        /\ Len(wire'[k]) = len + more
        /\ \A i \in 1..len : wire'[k][i] = wire[k][i]
        /\ \A i \in 1..more : wire'[k][len + i] = queue[i]
        /\ \A j \in Sockets : j # k => wire'[j] = wire[j]
  <2>1. wire \in [Sockets -> Seq(Numbers)] /\ queue \in Seq(Numbers)
    BY <1>t DEF Typed
  <2>2. Len(wire[k]) \in Nat /\ Len(queue) \in Nat
    BY <2>1
  <2>3. /\ Len(wire'[k]) = Len(wire[k]) + Len(queue)
        /\ \A i \in 1..Len(wire[k]) : wire'[k][i] = wire[k][i]
        /\ \A i \in 1..Len(queue) : wire'[k][Len(wire[k]) + i] = queue[i]
        /\ \A j \in Sockets \ {k} : wire'[j] = wire[j]
    BY <2>1, <1>1, SentFacts
  <2> QED BY <2>2, <2>3
<1>6. \A j \in 1..QueueLine : j # k /\ j # Q => Line(j)' = Line(j)
  <2>1. \A j \in Sockets : Line(j) = wire[j] /\ Line(j)' = wire'[j]
    BY <1>w DEF WhereFramesAre
  <2> QED BY <2>1, <1>3, <1>5
<1>7. \A j \in 1..QueueLine : j > k /\ j # Q => Line(j) = <<>>
  BY <1>2, <1>3, <1>w DEF WhereFramesAre
<1> DEFINE Was(p) == IF p[1] = k /\ p[2] > len THEN <<Q, p[2] - len>> ELSE p
<1>8. ASSUME NEW p \in Places'
      PROVE  /\ Was(p) \in Places
             /\ At(p)' = At(Was(p))
             /\ p = <<p[1], p[2]>> /\ p[1] \in Nat /\ p[2] \in Nat
             /\ p[1] =< k
  <2>1. PICK j \in 1..QueueLine : \E i \in 1..Len(Line(j)') : p = <<j, i>>
    BY <1>w DEF WhereFramesAre
  <2>2. PICK i \in 1..Len(Line(j)') : p = <<j, i>>
    BY <2>1
  <2>3. i \in Nat /\ j \in Nat /\ i >= 1 /\ j # Q /\ j =< k
    <3>1. i \in Nat /\ j \in Nat /\ i >= 1
      BY <2>2, <1>w DEF WhereFramesAre
    <3>2. j # Q
      BY <3>1, <2>2, <1>4
    <3>3. j =< k
      BY <3>1, <3>2, <2>2, <1>3, <1>6, <1>7
    <3> QED BY <3>1, <3>2, <3>3
  <2>4. CASE j # k
    <3>1. Was(p) = p /\ p \in Places
      BY <2>2, <2>3, <2>4, <1>6, <1>w DEF WhereFramesAre
    <3>2. At(p)' = At(p)
      BY <2>2, <2>3, <2>4, <1>6 DEF At
    <3> QED BY <3>1, <3>2, <2>2, <2>3
  <2>5. CASE j = k /\ i =< len
    <3>1. i \in 1..Len(Line(k)) /\ i \in 1..len
      BY <2>3, <2>5, <1>4, <1>5
    <3>2. Was(p) = p /\ p \in Places
      <4>1. p[1] = k /\ p[2] = i /\ ~(p[2] > len)
        BY <2>2, <2>3, <2>5
      <4>2. <<k, i>> \in Places
        BY <3>1, <2>3, <1>3, <1>w DEF WhereFramesAre
      <4> QED BY <4>1, <4>2, <2>2, <2>5
    <3>3. At(p)' = At(p)
      BY <3>1, <2>2, <2>5, <1>4, <1>5 DEF At
    <3> QED BY <3>2, <3>3, <2>2, <2>3
  <2>6. CASE j = k /\ i > len
    <3>1. i - len \in 1..more /\ i - len \in 1..Len(Line(Q)) /\ i - len \in Nat
      BY <2>2, <2>3, <2>6, <1>4, <1>5
    <3>2. Was(p) = <<Q, i - len>> /\ Was(p) \in Places
      BY <3>1, <2>2, <2>6, <1>3, <1>w DEF WhereFramesAre
    <3>3. wire'[k][i] = queue[i - len]
      <4>1. PICK m \in 1..more : m = i - len
        BY <3>1
      <4>2. wire'[k][len + m] = queue[m]
        BY <4>1, <1>5
      <4>3. len + m = i
        BY <4>1, <2>3, <1>5
      <4> QED BY <4>1, <4>2, <4>3
    <3>4. At(p)' = wire'[k][i] /\ At(Was(p)) = queue[i - len]
      BY <3>2, <2>2, <2>6, <1>4 DEF At
    <3> QED BY <3>2, <3>3, <3>4, <2>2, <2>3
  <2> QED BY <2>3, <2>4, <2>5, <2>6
<1>9. ASSUME NEW x \in Places PROVE \E p \in Places' : Was(p) = x
  <2>1. PICK j \in 1..QueueLine : \E i \in 1..Len(Line(j)) : x = <<j, i>>
    BY <1>w DEF WhereFramesAre
  <2>2. PICK i \in 1..Len(Line(j)) : x = <<j, i>>
    BY <2>1
  <2>3. i \in Nat /\ j \in Nat /\ i >= 1
    BY <2>2, <1>w DEF WhereFramesAre
  <2>4. CASE j # k /\ j # Q
    BY <2>2, <2>3, <2>4, <1>6, <1>w DEF WhereFramesAre
  <2>5. CASE j = k
    <3>1. i =< len /\ i \in 1..Len(Line(k)')
      BY <2>2, <2>3, <2>5, <1>4, <1>5
    <3>2. <<k, i>> \in Places'
      BY <3>1, <2>3, <1>3, <1>w DEF WhereFramesAre
    <3>3. Was(<<k, i>>) = <<k, i>>
      BY <3>1, <2>3
    <3> QED BY <3>2, <3>3, <2>2, <2>5
  <2>6. CASE j = Q
    <3>1. PICK m \in Nat : m \in 1..Len(Line(k)') /\ m > len /\ m - len = i
      <4>1. /\ len + i \in 1..Len(Line(k)') /\ len + i \in Nat /\ len + i > len
            /\ (len + i) - len = i
        BY <2>2, <2>3, <2>6, <1>4, <1>5
      <4> QED BY <4>1
    <3>2. <<k, m>> \in Places'
      <4>1. \A i_1 \in Nat : <<k, i_1>> \in Places' <=> i_1 \in 1..Len(Line(k)')
        BY <1>3, <1>w DEF WhereFramesAre
      <4> QED BY <4>1, <3>1
    <3>3. Was(<<k, m>>) = x
      BY <3>1, <2>2, <2>6
    <3> QED BY <3>2, <3>3
  <2> QED BY <2>4, <2>5, <2>6
<1>10. ASSUME NEW p \in Places', NEW q \in Places'
       PROVE  /\ Before(p, q) => Before(Was(p), Was(q))
              /\ Was(p) = Was(q) => p = q
  <2>1. /\ p = <<p[1], p[2]>> /\ p[1] \in Nat /\ p[2] \in Nat /\ p[1] =< k
        /\ q = <<q[1], q[2]>> /\ q[1] \in Nat /\ q[2] \in Nat /\ q[1] =< k
    BY <1>8
  <2>2. \A v \in {p, q} : /\ Was(v)[1] = IF v[1] = k /\ v[2] > len THEN Q ELSE v[1]
                          /\ Was(v)[2] = IF v[1] = k /\ v[2] > len THEN v[2] - len ELSE v[2]
    OBVIOUS
  <2> HIDE DEF Was
  <2>3. Before(p, q) => Before(Was(p), Was(q))
    BY <2>1, <2>2, <1>3, <1>5 DEF Before
  <2>4. Was(p) = Was(q) => p[1] = q[1] /\ p[2] = q[2]
    <3>1. Was(p) = Was(q) => Was(p)[1] = Was(q)[1] /\ Was(p)[2] = Was(q)[2]
      OBVIOUS
    <3>2. ASSUME Was(p) = Was(q), p[1] = k, p[2] > len, ~(q[1] = k /\ q[2] > len) PROVE FALSE
      BY <3>1, <3>2, <2>1, <2>2, <1>3
    <3>3. ASSUME Was(p) = Was(q), q[1] = k, q[2] > len, ~(p[1] = k /\ p[2] > len) PROVE FALSE
      BY <3>1, <3>3, <2>1, <2>2, <1>3
    <3>4. ASSUME Was(p) = Was(q), p[1] = k, p[2] > len, q[1] = k, q[2] > len PROVE p[2] = q[2]
      BY <3>1, <3>4, <2>1, <2>2, <1>5
    <3>5. ASSUME Was(p) = Was(q), ~(p[1] = k /\ p[2] > len), ~(q[1] = k /\ q[2] > len)
          PROVE  p[1] = q[1] /\ p[2] = q[2]
      BY <3>1, <3>5, <2>2
    <3> QED BY <3>2, <3>3, <3>4, <3>5
  <2> QED BY <2>1, <2>3, <2>4
<1>11. PICK F \in [Places' -> Places] : \A p \in Places' : F[p] = Was(p)
  <2> DEFINE G == [p \in Places' |-> Was(p)]
  <2> HIDE DEF Was
  <2>1. G \in [Places' -> Places] /\ \A p \in Places' : G[p] = Was(p)
    BY <1>8
  <2> QED BY <2>1
<1>12. Tracks(Places', F, {})
  <2> HIDE DEF Was
  <2> QED BY <1>8, <1>9, <1>10, <1>11 DEF Tracks
<1>13. Held \subseteq Numbers /\ dispatched' = dispatched
  BY <1>1, <1>w DEF WhereFramesAre, dispatched
<1> QED BY <1>t, <1>1, <1>12, <1>13, Rearranged

\* Nothing moves where nothing is sent, queued or dispatched.
LEMMA StillStep ==
  ASSUME PlaceInv, UNCHANGED <<wire, queue, dropped>>, dispatched' = dispatched,
         \A f \in Numbers : status[f] = "failed" => status'[f] = "failed"
  PROVE  PlaceInv'
<1>1. Places' = Places
  BY DEF Places, Line
<1>2. \A p \in Places : At(p)' = At(p)
  BY DEF At, Line
<1>3. Held' = Held
  BY <1>1, <1>2 DEF Held
<1>4. OnlyFailuresLetOvertake'
  BY <1>1, <1>2 DEF PlaceInv, OnlyFailuresLetOvertake, FailedBetween
<1>5. OnePlaceEach'
  BY <1>1, <1>2 DEF PlaceInv, OnePlaceEach
<1> QED BY <1>3, <1>4, <1>5 DEF PlaceInv, HeldAreDispatched, AllAccountedFor

\* Every step keeps the frames in their places.
LEMMA PlaceStep == IInv /\ Typed' /\ [Next]_vars => PlaceInv'
<1> SUFFICES ASSUME IInv, Typed', [Next]_vars PROVE PlaceInv'
  OBVIOUS
<1>t. Typed /\ NumberedInOrder /\ PlaceInv
  BY DEF IInv, ChainInv
<1>1. CASE UNCHANGED <<wire, queue, dropped, status>>
  BY <1>1, <1>t, StillStep DEF dispatched
<1>2. CASE Accept /\ UNCHANGED <<wire, queue, dropped>>
  <2>1. seq \in Numbers /\ status[seq] = "none" /\ status' = [status EXCEPT ![seq] = "signing"]
    BY <1>2, <1>t, ClientAssumption DEF Accept, NumberedInOrder, Typed, Numbers
  <2>2. dispatched' = dispatched
        /\ \A f \in Numbers : status[f] = "failed" => status'[f] = "failed"
    BY <2>1, <1>t DEF dispatched, Typed
  <2> QED BY <2>2, <1>2, <1>t, StillStep
<1>3. ASSUME NEW n \in Numbers, Signed(n) \/ SigningRejects(n) PROVE PlaceInv'
  <2>1. /\ status[n] = "signing" /\ status'[n] \in {"signed", "failed"}
        /\ status' = [status EXCEPT ![n] = status'[n]]
        /\ UNCHANGED <<wire, queue, dropped>>
    BY <1>3, <1>t DEF Signed, SigningRejects, Typed
  <2>2. dispatched' = dispatched
        /\ \A f \in Numbers : status[f] = "failed" => status'[f] = "failed"
    BY <2>1, <1>t DEF dispatched, Typed
  <2> QED BY <2>1, <2>2, <1>t, StillStep
<1>4. ASSUME NEW n \in Numbers, Dispatch(n) PROVE PlaceInv'
  BY <1>4, SendStep, QueueStep
<1>5. ASSUME NEW k \in Sockets, Open(k) PROVE PlaceInv'
  <2>1. CASE socket = k
    BY <2>1, <1>5, FlushStep
  <2>2. CASE socket # k
    BY <2>2, <1>1, <1>5 DEF Open, Flush
  <2> QED BY <2>1, <2>2
<1>6. \/ UNCHANGED <<wire, queue, dropped, status>>
      \/ Accept /\ UNCHANGED <<wire, queue, dropped>>
      \/ \E n \in Numbers : Signed(n) \/ SigningRejects(n) \/ Dispatch(n)
      \/ \E k \in Sockets : Open(k)
  BY DEF Next, Emit, Connect, ConnectFails, Closes, Errors, ClosesLate, EndSession, EndFails,
    CloseBegins, CloseEnds, Elapse, vars, client
<1> QED BY <1>1, <1>2, <1>3, <1>4, <1>5, <1>6

---------------------------------------------------------------------------
(* The theorems                                                            *)

\* The invariant holds before the first socket is opened.
LEMMA InitInv == Init => IInv
<1> SUFFICES ASSUME Init PROVE IInv
  OBVIOUS
<1> USE ClientAssumption
<1>1. Typed
  <2>1. <<>> \in Seq(Numbers) /\ Len(<<>>) = 0
    OBVIOUS
  <2>2. 0 \in 0..MaxFrames /\ 0 \in 0..MaxClock
    OBVIOUS
  <2>3. seq \in 0..MaxFrames /\ dropped \in Nat /\ now \in 0..MaxClock
    BY <2>2 DEF Init
  <2>4. status \in [Numbers -> {"none", "signing", "signed", "failed", "dispatched"}]
        /\ stamp \in [Numbers -> 0..MaxClock]
    BY <2>2 DEF Init
  <2>5. queue \in Seq(Numbers) /\ Len(queue) =< MaxQueue /\ wire \in [Sockets -> Seq(Numbers)]
    BY <2>1 DEF Init
  <2>6. /\ socket \in Sockets \cup {NoSocket}
        /\ state \in [Sockets -> {"none", "connecting", "open", "failing", "closed"}]
        /\ loop \in {"backoff", "awaiting", "done"}
        /\ phase \in {"running", "ending", "draining", "closed"}
        /\ awaited \in Numbers \cup {NoFrame} /\ ending \in Numbers \cup {NoFrame}
        /\ lost \in BOOLEAN
    BY DEF Init
  <2> QED BY <2>3, <2>4, <2>5, <2>6 DEF Typed
<1>2. ChainInv
  BY <1>1 DEF Init, ChainInv, NumberedInOrder, ChainHolds, AwaitsAFrame
<1>3. SocketInv
  BY DEF Init, SocketInv, OpenedInOrder, NothingSentYet, SocketInUse
<1>4. \A k \in 1..QueueLine : Line(k) = <<>>
  BY DEF Init, Line
<1>5. Places = {}
  <2>1. WhereFramesAre
    BY <1>1, PlaceFacts
  <2>2. ASSUME NEW p \in Places PROVE FALSE
    <3>1. PICK k \in 1..QueueLine : \E i \in 1..Len(Line(k)) : p = <<k, i>>
      BY <2>1 DEF WhereFramesAre
    <3> QED BY <3>1, <1>4
  <2> QED BY <2>2
<1>6. Held = {} /\ dispatched = {} /\ dropped = 0
  BY <1>5 DEF Init, Held, dispatched
<1>7. Cardinality({}) = 0
  BY FS_EmptySet
<1>8. PlaceInv
  BY <1>5, <1>6, <1>7 DEF PlaceInv, HeldAreDispatched, OnePlaceEach, OnlyFailuresLetOvertake,
    AllAccountedFor
<1> QED BY <1>2, <1>3, <1>8 DEF IInv

\* It is inductive.
LEMMA StepInv == IInv /\ [Next]_vars => IInv'
<1> SUFFICES ASSUME IInv, [Next]_vars PROVE IInv'
  OBVIOUS
<1>1. Typed'
  BY TypedStep DEF IInv, ChainInv
<1>2. ChainInv'
  BY <1>1, ChainStep DEF IInv, ChainInv
<1>3. SocketInv'
  BY SocketStep DEF IInv, ChainInv
<1>4. PlaceInv'
  BY <1>1, PlaceStep
<1> QED BY <1>2, <1>3, <1>4 DEF IInv

\* It holds throughout.
LEMMA ClientInvariants == Spec => []IInv
  BY InitInv, StepInv, PTL DEF Spec

\* Type correctness; that no more is dropped than was emitted is a consequence
\* of the count.
THEOREM TypeCorrect == Spec => []TypeOK
<1>1. IInv => TypeOK
  <2> SUFFICES ASSUME IInv PROVE TypeOK
    OBVIOUS
  <2>t. Typed /\ AllAccountedFor /\ HeldAreDispatched
    BY DEF IInv, ChainInv, PlaceInv
  <2>1. IsFiniteSet(Numbers) /\ Cardinality(Numbers) = MaxFrames /\ MaxFrames \in Nat
    <3>1. MaxFrames \in Nat /\ 0 \in Int /\ MaxFrames - 1 \in Int
      BY ClientAssumption
    <3>2. IsFiniteSet(0..(MaxFrames - 1))
          /\ Cardinality(0..(MaxFrames - 1)) =
               IF 0 > MaxFrames - 1 THEN 0 ELSE (MaxFrames - 1) - 0 + 1
      BY <3>1, FS_Interval
    <3> QED BY <3>1, <3>2 DEF Numbers
  <2>2. dispatched \subseteq Numbers /\ Held \subseteq Numbers
    BY <2>t DEF dispatched, HeldAreDispatched
  <2>3. Cardinality(dispatched) =< MaxFrames /\ IsFiniteSet(dispatched) /\ IsFiniteSet(Held)
    BY <2>1, <2>2, FS_Subset
  <2>4. dropped \in 0..MaxFrames
    BY <2>1, <2>3, <2>t, FS_CardinalityType DEF AllAccountedFor, Typed
  <2> QED BY <2>4, <2>t DEF Typed, TypeOK
<1> QED BY <1>1, ClientInvariants, PTL

\* The chain of promises: however long each frame takes to sign, and however
\* often the socket is lost, a frame is overtaken only where one failed.
THEOREM OrderIsKept == Spec => []OnlyFailuresLetOvertake
<1>1. IInv => OnlyFailuresLetOvertake
  BY DEF IInv, PlaceInv
<1> QED BY <1>1, ClientInvariants, PTL

\* Across #dispatch, #flush and the drops of a full queue: no frame is sent
\* twice, and none but a dropped one is missing.
THEOREM SentOnce == Spec => []EachFrameOnce
<1>1. IInv => EachFrameOnce
  BY DEF IInv, PlaceInv, OnePlaceEach, AllAccountedFor, EachFrameOnce
<1> QED BY <1>1, ClientInvariants, PTL

\* close: unless signing failed, all that was emitted before it began is
\* dispatched when the client is closed.
THEOREM CloseIsComplete == Spec => []CloseWaits
<1>1. IInv => CloseWaits
  <2> SUFFICES ASSUME IInv, phase = "closed", \A n \in Numbers : status[n] # "failed",
                      NEW n \in 0..awaited
               PROVE  status[n] = "dispatched"
    BY DEF CloseWaits
  <2>1. Typed /\ ChainHolds /\ awaited \in Numbers /\ Settled(awaited)
    BY DEF IInv, ChainInv, AwaitsAFrame
  <2>2. status[awaited] = "dispatched"
    BY <2>1 DEF Settled
  <2>3. n \in Numbers /\ (n = awaited \/ n < awaited)
    BY <2>1, ClientAssumption DEF Numbers
  <2>4. ~FailedBetween(n, awaited)
    BY DEF FailedBetween
  <2>5. n < awaited => Settled(n)
    BY <2>1, <2>2, <2>3, <2>4 DEF ChainHolds
  <2> QED BY <2>2, <2>3, <2>5 DEF Settled
<1> QED BY <1>1, ClientInvariants, PTL

---------------------------------------------------------------------------
(* What the other end of the sockets can rely on                           *)

\* Frames are stamped in the order they are numbered.
StampsInOrder ==
  \A m, n \in Numbers : m =< n /\ n < seq => stamp[m] =< stamp[n] /\ stamp[n] =< now

\* Only the newest socket is connecting or open, and the loop waits for it.
OneAttempt ==
  \A k \in Sockets : state[k] \in {"connecting", "open"} =>
    Newest(k) /\ loop = "awaiting" /\ phase # "closed"

\* Until a socket is lost there has been only one.
OneWireUnlessLost ==
  ~lost =>
    /\ \A k \in Sockets : wire[k] # <<>> => state[k] = "open" \/ phase = "closed"
    /\ \A j, k \in Sockets : wire[j] # <<>> /\ wire[k] # <<>> => j = k

LinkInv == IInv /\ StampsInOrder /\ OneAttempt /\ OneWireUnlessLost

\* What no step takes back.
NothingTakenBack ==
  /\ seq =< seq' /\ now =< now' /\ dropped =< dropped' /\ (lost => lost')
  /\ \A n \in Numbers : status[n] = "failed" => status'[n] = "failed"
  /\ \A n \in Numbers : IF n < seq THEN stamp'[n] = stamp[n]
                        ELSE n < seq' => stamp'[n] = now
  /\ \A k \in Sockets :
       /\ Len(wire[k]) =< Len(wire'[k])
       /\ \A i \in 1..Len(wire[k]) : wire'[k][i] = wire[k][i]

\* Clocks and counters only go forward, what failed stays failed, and what was
\* sent stays sent.
LEMMA StepsForward ==
  ASSUME IInv, [Next]_vars PROVE NothingTakenBack
<1> USE ClientAssumption
<1>t. Typed /\ NumberedInOrder
  BY DEF IInv, ChainInv
<1>n. seq \in Nat /\ now \in Nat /\ dropped \in Nat /\ Numbers \subseteq Nat
      /\ \A k \in Sockets : wire[k] \in Seq(Numbers)
  BY <1>t DEF Typed, Numbers
<1>w. ASSUME wire' = wire
      PROVE  \A k \in Sockets : /\ Len(wire[k]) =< Len(wire'[k])
                                /\ \A i \in 1..Len(wire[k]) : wire'[k][i] = wire[k][i]
  BY <1>w, <1>n
<1>s. ASSUME NEW k \in Sockets, NEW s \in Seq(Numbers), wire' = [wire EXCEPT ![k] = @ \o s]
      PROVE  \A j \in Sockets : /\ Len(wire[j]) =< Len(wire'[j])
                                /\ \A i \in 1..Len(wire[j]) : wire'[j][i] = wire[j][i]
  <2>1. /\ Len(wire'[k]) = Len(wire[k]) + Len(s)
        /\ \A i \in 1..Len(wire[k]) : wire'[k][i] = wire[k][i]
        /\ \A j \in Sockets \ {k} : wire'[j] = wire[j]
    BY <1>s, <1>t, SentFacts DEF Typed
  <2>2. Len(wire[k]) \in Nat /\ Len(s) \in Nat
    BY <1>n, <1>s
  <2>3. ASSUME NEW j \in Sockets
        PROVE  /\ Len(wire[j]) =< Len(wire'[j])
               /\ \A i \in 1..Len(wire[j]) : wire'[j][i] = wire[j][i]
    <3>1. CASE j = k
      BY <2>1, <2>2, <3>1
    <3>2. CASE j # k
      <4>1. wire'[j] = wire[j] /\ Len(wire[j]) \in Nat
        BY <2>1, <2>3, <3>2, <1>n
      <4> QED BY <4>1
    <3> QED BY <3>1, <3>2
  <2> QED BY <2>3
<1>1. CASE UNCHANGED <<seq, status, stamp>>
  <2>1. /\ seq =< seq'
        /\ \A n \in Numbers : status[n] = "failed" => status'[n] = "failed"
        /\ \A n \in Numbers : IF n < seq THEN stamp'[n] = stamp[n]
                              ELSE n < seq' => stamp'[n] = now
    BY <1>1, <1>n
  <2>2. now =< now' /\ dropped =< dropped' /\ (lost => lost')
    BY <1>n DEF Next, vars, client, Emit, Signed, SigningRejects, Dispatch, Connect, Open,
      ConnectFails, Closes, Errors, ClosesLate, EndSession, EndFails, CloseBegins,
      CloseEnds, Elapse
  <2>3. wire' = wire \/ \E k \in Sockets : wire' = [wire EXCEPT ![k] = @ \o queue]
    <3>1. ASSUME NEW n \in Numbers, Dispatch(n) PROVE FALSE
      BY <3>1, <1>1, <1>t DEF Dispatch, MayDispatch, Typed
    <3> QED BY <3>1 DEF Next, vars, client, Emit, Signed, SigningRejects, Connect, Open, Flush,
      ConnectFails, Closes, Errors, ClosesLate, EndSession, EndFails, CloseBegins,
      CloseEnds, Elapse
  <2>4. queue \in Seq(Numbers)
    BY <1>t DEF Typed
  <2> QED BY <2>1, <2>2, <2>3, <2>4, <1>w, <1>s DEF NothingTakenBack
<1>2. CASE Emit \/ EndSession
  <2>1. /\ seq' = seq + 1 /\ seq \in Numbers /\ status[seq] = "none"
        /\ status' = [status EXCEPT ![seq] = "signing"]
        /\ stamp' = [stamp EXCEPT ![seq] = now]
        /\ UNCHANGED <<now, dropped, lost, wire>>
    BY <1>2, <1>t, <1>n DEF Emit, EndSession, Accept, Numbers, NumberedInOrder, Typed
  <2>2. \A n \in Numbers : status[n] = "failed" => status'[n] = "failed"
    BY <2>1, <1>t DEF Typed
  <2>3. \A n \in Numbers : IF n < seq THEN stamp'[n] = stamp[n]
                           ELSE n < seq' => stamp'[n] = now
    BY <2>1, <1>t, <1>n DEF Typed
  <2> QED BY <2>1, <2>2, <2>3, <1>n, <1>w DEF NothingTakenBack
<1>3. ASSUME NEW n \in Numbers, Signed(n) \/ SigningRejects(n) PROVE NothingTakenBack
  <2>1. /\ status[n] = "signing" /\ status' = [status EXCEPT ![n] = status'[n]]
        /\ UNCHANGED <<seq, stamp, now, dropped, lost, wire>>
    BY <1>3, <1>t DEF Signed, SigningRejects, Typed
  <2>2. \A m \in Numbers : status[m] = "failed" => status'[m] = "failed"
    BY <2>1, <1>t DEF Typed
  <2> QED BY <2>1, <2>2, <1>n, <1>w DEF NothingTakenBack
<1>4. ASSUME NEW n \in Numbers, Dispatch(n) PROVE NothingTakenBack
  <2>1. /\ status[n] = "signed" /\ status' = [status EXCEPT ![n] = "dispatched"]
        /\ UNCHANGED <<seq, stamp, now, lost>>
    BY <1>4 DEF Dispatch, MayDispatch
  <2>2. \A m \in Numbers : status[m] = "failed" => status'[m] = "failed"
    BY <2>1, <1>t DEF Typed
  <2>3. dropped =< dropped'
    BY <1>4, <1>n DEF Dispatch
  <2>4. CASE wire' = wire
    BY <2>1, <2>2, <2>3, <2>4, <1>n, <1>w DEF NothingTakenBack
  <2>5. CASE connected /\ wire' = [wire EXCEPT ![socket] = Append(@, n)]
    <3>1. socket \in Sockets
      BY <2>5, <1>t DEF connected, Typed
    <3>2. Append(wire[socket], n) = wire[socket] \o <<n>> /\ <<n>> \in Seq(Numbers)
      BY <3>1, <1>n
    <3>3. wire' = [wire EXCEPT ![socket] = @ \o <<n>>]
      BY <2>5, <3>2
    <3>4. \A j \in Sockets : /\ Len(wire[j]) =< Len(wire'[j])
                             /\ \A i \in 1..Len(wire[j]) : wire'[j][i] = wire[j][i]
      BY <3>1, <3>2, <3>3, <1>s
    <3> QED BY <2>1, <2>2, <2>3, <3>4, <1>n DEF NothingTakenBack
  <2> QED BY <2>4, <2>5, <1>4 DEF Dispatch
<1> QED BY <1>1, <1>2, <1>3, <1>4 DEF Next, vars, client, Connect, Open, ConnectFails,
  Closes, Errors, ClosesLate, EndFails, CloseBegins, CloseEnds, Elapse

\* The stamps keep their order: the clock does not go back.
LEMMA StampStep ==
  ASSUME IInv, StampsInOrder, [Next]_vars PROVE StampsInOrder'
<1>1. NothingTakenBack /\ Typed /\ Typed'
  BY StepsForward, StepInv DEF IInv, ChainInv
<1>2. seq \in Nat /\ seq' \in Nat /\ now \in Nat /\ now' \in Nat /\ Numbers \subseteq Nat
      /\ \A n \in Numbers : stamp[n] \in Nat /\ stamp'[n] \in Nat
  <2>1. Numbers \subseteq Nat /\ 0..MaxClock \subseteq Nat /\ 0..MaxFrames \subseteq Nat
    BY DEF Numbers
  <2>2. seq \in 0..MaxFrames /\ now \in 0..MaxClock /\ stamp \in [Numbers -> 0..MaxClock]
    BY <1>1 DEF Typed
  <2>3. seq' \in 0..MaxFrames /\ now' \in 0..MaxClock /\ stamp' \in [Numbers -> 0..MaxClock]
    BY <1>1 DEF Typed
  <2> QED BY <2>1, <2>2, <2>3
<1> SUFFICES ASSUME NEW m \in Numbers, NEW n \in Numbers, m =< n, n < seq'
             PROVE  stamp'[m] =< stamp'[n] /\ stamp'[n] =< now'
  BY DEF StampsInOrder
<1>3. CASE n < seq
  <2>1. stamp'[m] = stamp[m] /\ stamp'[n] = stamp[n] /\ now =< now'
    BY <1>1, <1>2, <1>3 DEF NothingTakenBack
  <2>2. stamp[m] =< stamp[n] /\ stamp[n] =< now
    BY <1>3 DEF StampsInOrder
  <2> QED BY <1>2, <2>1, <2>2
<1>4. CASE ~(n < seq)
  <2>1. stamp'[n] = now /\ now =< now'
    BY <1>1, <1>4 DEF NothingTakenBack
  <2>2. stamp'[m] =< now
    <3>1. CASE m < seq
      <4>1. stamp'[m] = stamp[m] /\ stamp[m] =< now
        BY <1>1, <1>2, <3>1 DEF NothingTakenBack, StampsInOrder
      <4> QED BY <4>1
    <3>2. CASE ~(m < seq)
      <4>1. m < seq'
        BY <1>2
      <4>2. stamp'[m] = now
        BY <1>1, <3>2, <4>1 DEF NothingTakenBack
      <4> QED BY <1>2, <4>2
    <3> QED BY <3>1, <3>2
  <2> QED BY <1>2, <2>1, <2>2
<1> QED BY <1>3, <1>4

\* The loop opens a socket only when the newest has gone, so that there are
\* not two in use; and unless one is lost there is no second.
LEMMA OneSocketStep ==
  ASSUME IInv, OneAttempt, OneWireUnlessLost, [Next]_vars
  PROVE  OneAttempt' /\ OneWireUnlessLost'
<1> USE ClientAssumption
<1>t. Typed /\ OpenedInOrder /\ NothingSentYet /\ SocketInUse
  BY DEF IInv, ChainInv, SocketInv
<1>n. Sockets \subseteq Nat /\ NoSocket \notin Sockets
  BY DEF Sockets, NoSocket
<1>1. \A j, k \in Sockets :
        state[j] \in {"connecting", "open"} /\ state[k] \in {"connecting", "open"} => j = k
  <2>1. ASSUME NEW j \in Sockets, NEW k \in Sockets, j < k,
               state[j] \in {"connecting", "open"}, state[k] \in {"connecting", "open"}
        PROVE  FALSE
    BY <2>1 DEF OneAttempt, Newest
  <2> QED BY <2>1, <1>n
\* Steps that leave the sockets as they are.
<1>2. ASSUME UNCHANGED <<state, loop, lost>>, phase' = "closed" <=> phase = "closed"
      PROVE  OneAttempt'
  BY <1>2 DEF OneAttempt, Newest
<1>3. ASSUME UNCHANGED <<wire, state, lost>>, phase' = "closed" <=> phase = "closed"
      PROVE  OneWireUnlessLost'
  BY <1>3 DEF OneWireUnlessLost
<1>4. ASSUME Emit \/ EndSession \/ EndFails \/ CloseBegins \/ Elapse \/ UNCHANGED vars
             \/ \E n \in Numbers : Signed(n) \/ SigningRejects(n)
      PROVE  OneAttempt' /\ OneWireUnlessLost'
  <2>1. UNCHANGED <<wire, state, lost, loop>> /\ (phase' = "closed" <=> phase = "closed")
    BY <1>4 DEF Emit, EndSession, EndFails, CloseBegins, Elapse, vars, client, Signed,
      SigningRejects
  <2> QED BY <2>1, <1>2, <1>3
<1>5. ASSUME NEW n \in Numbers, Dispatch(n) PROVE OneAttempt' /\ OneWireUnlessLost'
  <2>1. UNCHANGED <<state, lost, loop, phase>>
    BY <1>5 DEF Dispatch
  <2>2. CASE wire' = wire
    BY <2>1, <2>2, <1>2, <1>3
  <2>3. CASE connected /\ wire' = [wire EXCEPT ![socket] = Append(@, n)]
    <3>1. PICK k \in Sockets : k = socket
      BY <2>3, <1>t DEF connected, Typed
    <3>2. state[k] = "open" /\ \A j \in Sockets : j # k => wire'[j] = wire[j]
      BY <2>3, <3>1, <1>t DEF connected, Typed
    <3>3. ASSUME ~lost, NEW j \in Sockets, wire'[j] # <<>> PROVE j = k
      <4>1. CASE wire[j] # <<>>
        <5>1. state[j] = "open"
          BY <3>2, <3>3, <4>1 DEF OneWireUnlessLost, OneAttempt
        <5> QED BY <5>1, <3>2, <1>1
      <4> QED BY <4>1, <3>2, <3>3
    <3>4. OneWireUnlessLost'
      BY <2>1, <3>2, <3>3 DEF OneWireUnlessLost
    <3> QED BY <3>4, <2>1, <1>2
  <2> QED BY <2>2, <2>3, <1>5 DEF Dispatch
<1>6. CASE Connect
  <2>1. PICK k \in Sockets : /\ k = NextSocket /\ state[k] = "none"
                             /\ \A j \in Sockets : state[j] = "none" => k =< j
    BY <1>6, NextSocketIsFirst DEF Connect, unopened
  <2>2. /\ state' = [state EXCEPT ![k] = "connecting"]
        /\ loop = "backoff" /\ loop' = "awaiting" /\ phase # "closed"
        /\ UNCHANGED <<wire, lost, phase>>
    BY <1>6, <2>1 DEF Connect
  <2>3. state'[k] = "connecting" /\ \A j \in Sockets : j # k => state'[j] = state[j]
    BY <2>1, <2>2, <1>t DEF Typed
  <2>4. \A j \in Sockets : state[j] \notin {"connecting", "open"}
    BY <2>2 DEF OneAttempt
  <2>5. Newest(k)'
    BY <2>1, <2>3, <1>t, <1>n DEF OpenedInOrder, Newest
  <2>6. OneAttempt'
    BY <2>2, <2>3, <2>4, <2>5 DEF OneAttempt
  <2>7. ~lost => \A j \in Sockets : wire[j] = <<>>
    BY <2>2, <2>4 DEF OneWireUnlessLost
  <2>8. OneWireUnlessLost'
    BY <2>2, <2>7 DEF OneWireUnlessLost
  <2> QED BY <2>6, <2>8
<1>7. ASSUME NEW k \in Sockets, Open(k) PROVE OneAttempt' /\ OneWireUnlessLost'
  <2>1. /\ state[k] = "connecting" /\ state' = [state EXCEPT ![k] = "open"]
        /\ UNCHANGED <<lost, loop, phase>>
        /\ wire' = wire \/ wire' = [wire EXCEPT ![k] = @ \o queue]
    BY <1>7 DEF Open, Flush
  <2>2. /\ state'[k] = "open" /\ \A j \in Sockets : j # k => state'[j] = state[j]
        /\ \A j \in Sockets : j # k => wire'[j] = wire[j]
    BY <2>1, <1>t DEF Typed
  <2>3. phase # "closed" /\ Newest(k) /\ loop = "awaiting"
    BY <2>1 DEF OneAttempt
  <2>4. \A j \in Sockets : state[j] \in {"connecting", "open"} => j = k
    BY <2>1, <1>1
  <2>5. Newest(k)'
    BY <2>2, <2>3, <1>n DEF Newest
  <2>6. OneAttempt'
    BY <2>1, <2>2, <2>3, <2>4, <2>5 DEF OneAttempt
  <2>7. ASSUME ~lost, NEW j \in Sockets, wire'[j] # <<>> PROVE j = k
    <3>1. CASE j # k
      <4>1. state[j] = "open"
        BY <2>2, <2>3, <2>7, <3>1 DEF OneWireUnlessLost
      <4> QED BY <4>1, <2>4
    <3> QED BY <3>1
  <2>8. OneWireUnlessLost'
    BY <2>1, <2>2, <2>7 DEF OneWireUnlessLost
  <2> QED BY <2>6, <2>8
<1>8. ASSUME NEW k \in Sockets, ConnectFails(k) \/ Closes(k) \/ Errors(k)
      PROVE  OneAttempt' /\ OneWireUnlessLost'
  <2>1. /\ state[k] \in {"connecting", "open"}
        /\ state' = [state EXCEPT ![k] = state'[k]] /\ state'[k] \in {"failing", "closed"}
        /\ (state[k] = "connecting" /\ lost' = lost) \/ lost'
        /\ UNCHANGED <<wire, phase>>
    BY <1>8, <1>t DEF ConnectFails, Closes, Errors, Typed
  <2>2. \A j \in Sockets : j # k => state'[j] = state[j]
    BY <2>1, <1>t DEF Typed
  <2>3. \A j \in Sockets : state'[j] \notin {"connecting", "open"}
    BY <2>1, <2>2, <1>1
  <2>4. OneAttempt'
    BY <2>3 DEF OneAttempt
  <2>5. OneWireUnlessLost'
    BY <2>1, <2>2 DEF OneWireUnlessLost
  <2> QED BY <2>4, <2>5
<1>9. ASSUME NEW k \in Sockets, ClosesLate(k) PROVE OneAttempt' /\ OneWireUnlessLost'
  <2>1. /\ state[k] = "failing" /\ state' = [state EXCEPT ![k] = "closed"]
        /\ UNCHANGED <<wire, phase, loop, lost>>
    BY <1>9 DEF ClosesLate
  <2>2. state'[k] = "closed" /\ \A j \in Sockets : j # k => state'[j] = state[j]
    BY <2>1, <1>t DEF Typed
  <2>3. ASSUME NEW j \in Sockets, state'[j] \in {"connecting", "open"}
        PROVE  Newest(j)' /\ loop' = "awaiting" /\ phase' # "closed"
    <3>1. Newest(j) /\ loop = "awaiting" /\ phase # "closed"
      BY <2>2, <2>3 DEF OneAttempt
    <3> QED BY <2>1, <2>2, <3>1 DEF Newest
  <2>4. OneWireUnlessLost'
    BY <2>1, <2>2 DEF OneWireUnlessLost
  <2> QED BY <2>3, <2>4 DEF OneAttempt
<1>10. CASE CloseEnds
  <2>1. \A j \in Sockets : state'[j] \notin {"connecting", "open"}
    BY <1>10, <1>t DEF CloseEnds, Typed
  <2>2. phase' = "closed" /\ UNCHANGED <<wire, lost>>
    BY <1>10 DEF CloseEnds
  <2> QED BY <2>1, <2>2 DEF OneAttempt, OneWireUnlessLost
<1> QED BY <1>4, <1>5, <1>6, <1>7, <1>8, <1>9, <1>10 DEF Next

\* The invariant the other end relies on holds at the start.
LEMMA InitLinkInv == Init => LinkInv
<1>1. Init => StampsInOrder /\ OneAttempt /\ OneWireUnlessLost
  BY ClientAssumption DEF Init, StampsInOrder, OneAttempt, OneWireUnlessLost, Numbers
<1> QED BY <1>1, InitInv DEF LinkInv

\* It is kept by every step, and no step takes back what was done.
LEMMA StepLinkInv == LinkInv /\ [Next]_vars => LinkInv' /\ NothingTakenBack
  BY StepInv, StampStep, OneSocketStep, StepsForward DEF LinkInv

\* Of two frames sent, the one sent first has the lower number, unless signing
\* failed.
LEMMA SentInOrder ==
  ASSUME IInv, NEW j \in Sockets, NEW k \in Sockets,
         NEW i \in 1..Len(wire[j]), NEW h \in 1..Len(wire[k]),
         j < k \/ (j = k /\ i < h), \A f \in Numbers : status[f] # "failed"
  PROVE  wire[j][i] < wire[k][h]
<1>1. Typed /\ OnePlaceEach /\ OnlyFailuresLetOvertake
  BY DEF IInv, ChainInv, PlaceInv
<1>2. WhereFramesAre
  BY <1>1, PlaceFacts
<1>3. j \in 1..QueueLine /\ k \in 1..QueueLine /\ i \in Nat /\ h \in Nat /\ j \in Nat /\ k \in Nat
  BY <1>1, ClientAssumption DEF Sockets, QueueLine
<1>4. PICK p, q : p = <<j, i>> /\ q = <<k, h>>
  OBVIOUS
<1>5. p \in Places /\ q \in Places /\ At(p) = wire[j][i] /\ At(q) = wire[k][h]
  BY <1>2, <1>3, <1>4 DEF WhereFramesAre
<1>6. Before(p, q) /\ p # q
  BY <1>3, <1>4 DEF Before
<1>7. ~(At(p) > At(q))
  BY <1>1, <1>5, <1>6 DEF OnlyFailuresLetOvertake, FailedBetween
<1>8. At(p) # At(q)
  BY <1>1, <1>5, <1>6 DEF OnePlaceEach
<1>9. wire[j][i] \in Nat /\ wire[k][h] \in Nat
  <2>1. wire[j] \in Seq(Numbers) /\ wire[k] \in Seq(Numbers)
    BY <1>1 DEF Typed
  <2>2. wire[j][i] \in Numbers
    BY <2>1
  <2>3. wire[k][h] \in Numbers
    BY <2>1
  <2> QED BY <2>2, <2>3 DEF Numbers
<1> QED BY <1>5, <1>7, <1>8, <1>9

\* What is sent was emitted.
LEMMA SentWasEmitted ==
  ASSUME IInv, NEW k \in Sockets, NEW h \in 1..Len(wire[k])
  PROVE  wire[k][h] \in Numbers /\ wire[k][h] < seq /\ status[wire[k][h]] = "dispatched"
<1>1. Typed /\ HeldAreDispatched /\ NumberedInOrder
  BY DEF IInv, ChainInv, PlaceInv
<1>2. WhereFramesAre
  BY <1>1, PlaceFacts
<1>3. k \in 1..QueueLine /\ h \in Nat
  BY <1>1, ClientAssumption DEF Sockets, QueueLine, Typed
<1>4. <<k, h>> \in Places /\ At(<<k, h>>) = wire[k][h]
  BY <1>2, <1>3 DEF WhereFramesAre
<1>5. wire[k][h] \in dispatched
  BY <1>1, <1>4 DEF HeldAreDispatched, Held
<1>6. PICK n \in Numbers : n = wire[k][h] /\ status[n] = "dispatched"
  BY <1>5 DEF dispatched
<1>7. n < seq
  <2>1. ~(n >= seq)
    BY <1>1, <1>6 DEF NumberedInOrder
  <2>2. seq \in Nat /\ n \in Nat
    BY <1>1, ClientAssumption DEF Typed, Numbers
  <2> QED BY <2>1, <2>2
<1> QED BY <1>6, <1>7

\* While nothing was lost, dropped or left unsigned, the frames of a socket are
\* numbered from zero with none missing.
LEMMA NoneMissing ==
  ASSUME LinkInv, ~lost, dropped = 0, \A f \in Numbers : status[f] # "failed",
         NEW k \in Sockets, NEW h \in 1..Len(wire[k])
  PROVE  wire[k][h] = IF h = 1 THEN 0 ELSE wire[k][h - 1] + 1
<1> DEFINE m == IF h = 1 THEN 0 ELSE wire[k][h - 1] + 1
           n == wire[k][h]
<1>1. /\ IInv /\ Typed /\ OnePlaceEach /\ OnlyFailuresLetOvertake /\ HeldAreDispatched
      /\ AllAccountedFor /\ ChainHolds /\ OneWireUnlessLost
  BY DEF LinkInv, IInv, ChainInv, PlaceInv
<1>2. WhereFramesAre
  BY <1>1, PlaceFacts
<1>3. /\ k \in 1..QueueLine /\ k \in Nat /\ h \in Nat /\ h >= 1
      /\ n \in Numbers /\ n \in Nat /\ status[n] = "dispatched"
      /\ MaxFrames \in Nat
  BY <1>1, SentWasEmitted, ClientAssumption DEF Sockets, QueueLine, Numbers
<1>4. m \in Nat /\ m =< n
  <2>1. CASE h = 1
    BY <1>3, <2>1
  <2>2. CASE h # 1
    <3>1. h - 1 \in 1..Len(wire[k]) /\ h - 1 < h
      BY <1>3, <2>2
    <3>2. wire[k][h - 1] < n
      BY <1>1, <3>1, SentInOrder
    <3>3. wire[k][h - 1] \in Nat
      BY <1>1, <3>1, SentWasEmitted DEF Numbers
    <3> QED BY <1>3, <2>2, <3>2, <3>3
  <2> QED BY <2>1, <2>2
<1> SUFFICES ASSUME m < n PROVE FALSE
  BY <1>3, <1>4
<1>5. m \in Numbers
  BY <1>3, <1>4 DEF Numbers
<1>6. status[m] = "dispatched"
  <2>1. ~FailedBetween(m, n)
    BY DEF FailedBetween
  <2>2. Settled(m)
    BY <1>1, <1>3, <1>5, <2>1 DEF ChainHolds
  <2> QED BY <1>5, <2>2 DEF Settled
<1>7. Held = dispatched
  <2>1. IsFiniteSet(Numbers)
    <3>1. MaxFrames - 1 \in Int /\ 0 \in Int
      BY <1>3
    <3> QED BY <3>1, FS_Interval DEF Numbers
  <2>2. IsFiniteSet(dispatched)
    BY <2>1, FS_Subset DEF dispatched
  <2>3. IsFiniteSet(Held) /\ Held \subseteq dispatched
    BY <1>1, <2>2, FS_Subset DEF HeldAreDispatched
  <2>4. Cardinality(Held) \in Nat /\ Cardinality(Held) = Cardinality(dispatched)
    BY <1>1, <2>3, FS_CardinalityType DEF AllAccountedFor
  <2> QED BY <2>2, <2>3, <2>4, FS_Subset
<1>8. PICK r \in Places : At(r) = m
  BY <1>5, <1>6, <1>7 DEF dispatched, Held
<1>9. PICK a \in 1..QueueLine : \E b \in 1..Len(Line(a)) : r = <<a, b>>
  BY <1>2, <1>8 DEF WhereFramesAre
<1>10. PICK b \in 1..Len(Line(a)) : r = <<a, b>>
  BY <1>9
<1>11. a \in Nat /\ b \in Nat /\ b >= 1
  <2>1. QueueLine \in Nat /\ Line(a) \in Seq(Numbers)
    BY <1>2, ClientAssumption DEF QueueLine, WhereFramesAre
  <2> QED BY <2>1
<1> DEFINE q == <<k, h>>
<1>12. q \in Places /\ At(q) = n
  BY <1>2, <1>3 DEF WhereFramesAre
<1>13. ~Before(q, r)
  BY <1>1, <1>3, <1>4, <1>8, <1>12 DEF OnlyFailuresLetOvertake, FailedBetween
<1>14. a < k \/ (a = k /\ b < h)
  <2>1. r # q
    BY <1>4, <1>3, <1>8, <1>12
  <2>2. ~(k < a) /\ ~(k = a /\ h < b)
    BY <1>10, <1>13 DEF Before
  <2> QED BY <2>1, <2>2, <1>3, <1>10, <1>11
<1>15. a = k
  <2>1. SUFFICES ASSUME a < k PROVE FALSE
    BY <1>14
  <2>2. a \in Sockets /\ Line(a) = wire[a]
    BY <2>1, <1>2, <1>3, <1>11, ClientAssumption DEF Sockets, QueueLine, WhereFramesAre
  <2>3. wire[a] # <<>> /\ wire[k] # <<>>
    BY <2>2, <1>10
  <2> QED BY <1>1, <1>3, <1>11, <2>1, <2>2, <2>3 DEF OneWireUnlessLost
<1>16. h # 1 /\ b =< h - 1
  BY <1>3, <1>11, <1>14, <1>15
<1>17. h - 1 \in 1..Len(wire[k]) /\ m = wire[k][h - 1] + 1
  BY <1>3, <1>16
<1>18. b # h - 1
  <2> SUFFICES ASSUME b = h - 1 PROVE FALSE
    OBVIOUS
  <2>1. At(r) = wire[k][h - 1]
    BY <1>2, <1>3, <1>10, <1>11, <1>15 DEF WhereFramesAre
  <2>2. wire[k][h - 1] \in Nat
    BY <1>1, <1>17, SentWasEmitted DEF Numbers
  <2>3. At(r) = wire[k][h - 1] + 1
    BY <1>8, <1>17
  <2> HIDE DEF m
  <2> QED BY <2>1, <2>2, <2>3
<1>19. wire[k][b] < wire[k][h - 1]
  <2>1. b \in 1..Len(wire[k]) /\ b < h - 1
    BY <1>2, <1>3, <1>11, <1>16, <1>17, <1>18
  <2> QED BY <1>1, <1>17, <2>1, SentInOrder
<1>20. At(r) = wire[k][b]
  BY <1>2, <1>3, <1>10, <1>11, <1>15 DEF WhereFramesAre
<1>21. wire[k][b] \in Nat /\ wire[k][h - 1] \in Nat
  <2>1. b \in 1..Len(wire[k])
    BY <1>3, <1>11, <1>16, <1>17
  <2> QED BY <1>1, <1>17, <2>1, SentWasEmitted DEF Numbers
<1> QED BY <1>8, <1>17, <1>19, <1>20, <1>21

---------------------------------------------------------------------------
(* The check                                                               *)

\* The tolerance is a natural number.
LEMMA Tolerance == SkewTolerance \in Nat
BY IntegrityAssumption DEF IntegrityAssumption

\* A session as create makes it is a session.
LEMMA NewSessionType == NewSession \in Session
BY DEF NewSession, Session, None

\* The check returns a session; its clocks are those of the first frame, and
\* a frame that advances the stream becomes its position.
LEMMA CheckedClocks ==
  ASSUME NEW x \in Session, NEW f, f.seq \in Nat, f.ts_monotonic_ms \in Nat,
         NEW t \in Nat
  PROVE  /\ Checked(x, f, t) \in Session
         /\ Checked(x, f, t).first_client_ms =
              IF IsFirst(x, f) THEN f.ts_monotonic_ms ELSE x.first_client_ms
         /\ Checked(x, f, t).first_server_ms =
              IF IsFirst(x, f) THEN t ELSE x.first_server_ms
         /\ Advances(x, f) => /\ Checked(x, f, t).last_seq = f.seq
                             /\ Checked(x, f, t).last_monotonic_ms = f.ts_monotonic_ms
<1>1. CASE ~Advances(x, f)
  BY <1>1 DEF Checked, IsFirst, InOrder
<1>2. CASE Advances(x, f)
  <2> DEFINE c == IF IsFirst(x, f) THEN f.ts_monotonic_ms ELSE x.first_client_ms
             v == IF IsFirst(x, f) THEN t ELSE x.first_server_ms
  <2>1. c \in Int /\ v \in Int /\ x.events_received + 1 \in Nat
    BY DEF Session
  <2>2. Checked(x, f, t) =
          [last_seq |-> f.seq, last_monotonic_ms |-> f.ts_monotonic_ms,
           first_client_ms |-> c, first_server_ms |-> v,
           events_received |-> x.events_received + 1,
           connected |-> x.connected, ended_cleanly |-> x.ended_cleanly,
           integrity_breaches |-> x.integrity_breaches,
           breach_counts |-> x.breach_counts, breach_last_ms |-> x.breach_last_ms]
    BY <1>2 DEF Checked, Session
  <2> HIDE DEF c, v
  <2>3. /\ Checked(x, f, t) \in Session
        /\ Checked(x, f, t).first_client_ms = c /\ Checked(x, f, t).first_server_ms = v
        /\ Checked(x, f, t).last_seq = f.seq
        /\ Checked(x, f, t).last_monotonic_ms = f.ts_monotonic_ms
    BY <2>1, <2>2 DEF Session
  <2> QED BY <2>3 DEF c, v
<1> QED BY <1>1, <1>2

\* A breach leaves the position and the clocks of the stream alone.
LEMMA BreachedStream ==
  ASSUME NEW x \in Session, NEW b \in Breach, NEW t \in Nat
  PROVE  /\ Breached(x, b, t) \in Session
         /\ Breached(x, b, t).last_seq = x.last_seq
         /\ Breached(x, b, t).last_monotonic_ms = x.last_monotonic_ms
         /\ Breached(x, b, t).first_client_ms = x.first_client_ms
         /\ Breached(x, b, t).first_server_ms = x.first_server_ms
<1>1. Logged(x.integrity_breaches, b) \in Seq(Breach \cup {Suppressed})
  BY AppendProperties DEF Logged, Session
<1>2. /\ [x.breach_counts EXCEPT ![b] = @ + 1] \in [Breach -> Nat]
      /\ [x.breach_last_ms EXCEPT ![b] = IF Reportable(x, b, t) THEN t ELSE @]
           \in [Breach -> Int]
  BY DEF Session
<1> QED BY <1>1, <1>2 DEF Breached, Session

---------------------------------------------------------------------------
(* What the client promises                                                *)

\* What was proved of the client holds here at the start.
LEMMA ClientInit == LinkInit => LinkInv
BY InitLinkInv DEF LinkInit

\* It is kept by every step, and none takes back what the client did.
LEMMA ClientStep == LinkInv /\ [LinkNext]_linkvars => LinkInv' /\ NothingTakenBack
<1> SUFFICES ASSUME LinkInv, [LinkNext]_linkvars PROVE LinkInv' /\ NothingTakenBack
  OBVIOUS
<1>1. [Next]_vars
  BY DEF LinkNext, Read, linkvars
<1> QED BY <1>1, StepLinkInv

---------------------------------------------------------------------------
(* The inductive invariant                                                 *)

Reading ==
  /\ session \in Session
  /\ read \in [Sockets -> Nat]
  /\ \A k \in Sockets : read[k] =< Len(wire[k])
  /\ slowest \in Nat
  /\ crossed \in BOOLEAN
  /\ flagged \subseteq Breach

\* The position of the stream is that of a frame that was read, and so is its
\* clock.
PositionIsRead ==
  IF session.last_seq = -1
  THEN /\ session.last_monotonic_ms = -1
       /\ session.first_client_ms = None
       /\ \A k \in Sockets : read[k] = 0
  ELSE /\ session.last_monotonic_ms = stamp[session.last_seq]
       /\ \E j \in Sockets : \E i \in 1..read[j] : wire[j][i] = session.last_seq

\* The base of the two clocks is off by no more than a frame has taken.
BaseIsNearlyRight ==
  session.first_client_ms # None =>
    /\ session.first_client_ms \in Nat
    /\ \E d \in 0..slowest : session.first_server_ms = session.first_client_ms + d + 1

Intact == ~lost /\ dropped = 0 /\ ~SomeFailed

\* While nothing was lost, the position is that of the frame read last.
PositionIsLatest ==
  Intact => \A k \in Sockets : read[k] > 0 => session.last_seq = wire[k][read[k]]

GatewayInv ==
  Reading /\ PositionIsRead /\ BaseIsNearlyRight /\ PositionIsLatest

Accusations == ReplayOnlyIfCrossed /\ GapOnlyIfLost /\ SkewOnlyIfLate

LinkIInv == LinkInv /\ GatewayInv /\ Accusations

---------------------------------------------------------------------------
(* What the client does                                                    *)

\* The types of what the gateway reads.
LEMMA ClientTypes ==
  ASSUME LinkInv
  PROVE  /\ seq \in Nat /\ dropped \in Nat /\ now \in Nat
         /\ Numbers = Numbers /\ Sockets = Sockets
         /\ Numbers \subseteq Nat /\ Sockets \subseteq Nat
         /\ \A n \in Numbers : stamp[n] \in Nat
         /\ \A k \in Sockets : Len(wire[k]) \in Nat
<1>1. Numbers = Numbers /\ Sockets = Sockets
      /\ Numbers \subseteq Nat /\ Sockets \subseteq Nat
  BY DEF Numbers, Numbers, Sockets, Sockets
<1>2. /\ seq \in 0..MaxFrames /\ dropped \in Nat /\ now \in 0..MaxClock
      /\ stamp \in [Numbers -> 0..MaxClock] /\ wire \in [Sockets -> Seq(Numbers)]
  BY DEF LinkInv, IInv, ChainInv, Typed
<1> QED BY <1>1, <1>2

\* A frame that was sent was emitted, and stamped by the clock.
LEMMA SentFrame ==
  ASSUME LinkInv, NEW k \in Sockets, NEW i \in 1..Len(wire[k])
  PROVE  /\ wire[k][i] \in Numbers
         /\ wire[k][i] < seq
         /\ stamp[wire[k][i]] =< now
<1>1. Numbers = Numbers /\ Sockets = Sockets
      /\ Numbers \subseteq Nat
  BY ClientTypes
<1>2. PICK n : n = wire[k][i]
  OBVIOUS
<1>3. n \in Numbers /\ n < seq
  BY <1>1, <1>2, SentWasEmitted DEF LinkInv
<1>4. stamp[n] =< now
  BY <1>1, <1>3 DEF LinkInv, StampsInOrder
<1> QED BY <1>1, <1>2, <1>3, <1>4

\* What was done to the client's frames stays done: SomeFailed, and so Intact.
LEMMA HarmStays ==
  ASSUME NothingTakenBack, dropped \in Nat, dropped' \in Nat
  PROVE  /\ SomeFailed => SomeFailed'
         /\ lost => lost'
         /\ dropped > 0 => dropped' > 0
         /\ Intact' => Intact
<1>1. SomeFailed => SomeFailed'
  BY DEF SomeFailed, Numbers, Numbers, NothingTakenBack
<1>2. (lost => lost') /\ dropped =< dropped'
  BY DEF NothingTakenBack
<1> QED BY <1>1, <1>2 DEF Intact

\* Steps of the client leave the gateway where it is: what it has read is
\* still there.
LEMMA ClientKeeps ==
  ASSUME LinkIInv, LinkInv', NothingTakenBack, UNCHANGED gateway
  PROVE  GatewayInv' /\ Accusations'
<1>0. LinkInv /\ Reading /\ PositionIsRead /\ BaseIsNearlyRight /\ PositionIsLatest
  BY DEF LinkIInv, GatewayInv
<1>1. UNCHANGED <<session, read, flagged, crossed, slowest>>
  BY DEF gateway
<1>2. /\ seq \in Nat /\ dropped \in Nat /\ dropped' \in Nat
      /\ Numbers \subseteq Nat /\ Sockets \subseteq Nat
      /\ \A k \in Sockets : Len(wire[k]) \in Nat /\ Len(wire'[k]) \in Nat
  <2>1. dropped' \in Nat
    BY DEF LinkInv, IInv, ChainInv, Typed
  <2>2. \A k \in Sockets : Len(wire'[k]) \in Nat
    <3>1. wire' \in [Sockets -> Seq(Numbers)]
      BY DEF LinkInv, IInv, ChainInv, Typed
    <3> QED BY <3>1, <1>0, ClientTypes
  <2> QED BY <2>1, <2>2, <1>0, ClientTypes
<1>3. \A k \in Sockets : /\ Len(wire[k]) =< Len(wire'[k])
                                /\ \A i \in 1..Len(wire[k]) : wire'[k][i] = wire[k][i]
  BY <1>0, ClientTypes DEF NothingTakenBack
<1>4. \A n \in Numbers : n < seq => stamp'[n] = stamp[n]
  BY <1>0, ClientTypes DEF NothingTakenBack
<1>5. Reading'
  <2>1. \A k \in Sockets : read[k] =< Len(wire'[k])
    BY <1>0, <1>2, <1>3 DEF Reading
  <2> QED BY <1>0, <1>1, <2>1 DEF Reading
<1>6. PositionIsRead'
  <2>1. CASE session.last_seq = -1
    BY <2>1, <1>0, <1>1 DEF PositionIsRead
  <2>2. CASE session.last_seq # -1
    <3>1. PICK j \in Sockets : \E i \in 1..read[j] : wire[j][i] = session.last_seq
      BY <2>2, <1>0 DEF PositionIsRead
    <3>2. PICK i \in 1..read[j] : wire[j][i] = session.last_seq
      BY <3>1
    <3>3. i \in 1..Len(wire[j])
      BY <1>0, <1>2 DEF Reading
    <3>4. session.last_seq \in Numbers /\ session.last_seq < seq
      BY <1>0, <3>2, <3>3, SentFrame
    <3>5. stamp'[session.last_seq] = stamp[session.last_seq]
      BY <1>4, <3>4
    <3>6. wire'[j][i] = session.last_seq
      BY <1>3, <3>2, <3>3
    <3> QED BY <2>2, <1>0, <1>1, <3>5, <3>6 DEF PositionIsRead
  <2> QED BY <2>1, <2>2
<1>7. BaseIsNearlyRight'
  BY <1>0, <1>1 DEF BaseIsNearlyRight
<1>8. PositionIsLatest'
  <2> SUFFICES ASSUME Intact', NEW k \in Sockets, read[k] > 0
               PROVE  session.last_seq = wire'[k][read[k]]
    BY <1>1 DEF PositionIsLatest
  <2>1. Intact
    BY <1>2, HarmStays
  <2>2. session.last_seq = wire[k][read[k]]
    BY <1>0, <2>1 DEF PositionIsLatest
  <2>3. read[k] \in 1..Len(wire[k])
    BY <1>0, <1>2 DEF Reading
  <2> QED BY <1>3, <2>2, <2>3
<1>9. Accusations'
  BY <1>1, <1>2, HarmStays DEF LinkIInv, Accusations, ReplayOnlyIfCrossed, GapOnlyIfLost,
    SkewOnlyIfLate
<1> QED BY <1>5, <1>6, <1>7, <1>8, <1>9 DEF GatewayInv

---------------------------------------------------------------------------
(* What a handler reads                                                    *)

\* The position of the stream is a frame that was read from a socket.
LEMMA PositionFrame ==
  ASSUME LinkInv, Reading, PositionIsRead, session.last_seq # -1
  PROVE  /\ session.last_seq \in Numbers /\ session.last_seq < seq
         /\ session.last_monotonic_ms = stamp[session.last_seq]
         /\ \E j \in Sockets : \E i \in 1..Len(wire[j]) :
              i =< read[j] /\ wire[j][i] = session.last_seq
<1>1. PICK j \in Sockets : \E i \in 1..read[j] : wire[j][i] = session.last_seq
  BY DEF PositionIsRead
<1>2. PICK i \in 1..read[j] : wire[j][i] = session.last_seq
  BY <1>1
<1>3. i \in 1..Len(wire[j]) /\ i =< read[j]
  BY ClientTypes DEF Reading
<1>4. session.last_seq \in Numbers /\ session.last_seq < seq
  BY <1>2, <1>3, SentFrame
<1> QED BY <1>2, <1>3, <1>4 DEF PositionIsRead

\* What the check makes of frame n of an honest client: never a clock that goes
\* back.
Checks(n) ==
  /\ n \in Numbers /\ n < seq /\ stamp[n] =< now
  /\ session' \in Session
  /\ n > session.last_seq =>
       /\ session'.last_seq = n
       /\ session'.last_monotonic_ms = stamp[n]
  /\ n =< session.last_seq =>
       /\ session'.last_seq = session.last_seq
       /\ session'.last_monotonic_ms = session.last_monotonic_ms
  /\ IF n = session.last_seq + 1 /\ session.first_client_ms = None
     THEN session'.first_client_ms = stamp[n] /\ session'.first_server_ms = now + 1
     ELSE /\ session'.first_client_ms = session.first_client_ms
          /\ session'.first_server_ms = session.first_server_ms
  /\ flagged' \subseteq Breach
  /\ Replay \in flagged' => Replay \in flagged \/ n =< session.last_seq
  /\ SequenceGap \in flagged' => SequenceGap \in flagged \/ n > session.last_seq + 1
  /\ ClockSkew \in flagged' =>
       \/ ClockSkew \in flagged
       \/ /\ session.first_client_ms # None
          /\ Distance(stamp[n] - session.first_client_ms,
                      (now + 1) - ServerBase(session, now + 1)) > SkewTolerance

\* Read does that with the next frame of its socket.
LEMMA ReadChecks ==
  ASSUME LinkInv, Reading, PositionIsRead, NEW k \in Sockets, Read(k)
  PROVE  read[k] + 1 \in 1..Len(wire[k]) /\ Checks(wire[k][read[k] + 1])
<1>1. /\ seq \in Nat /\ now \in Nat /\ Numbers \subseteq Nat
      /\ (\A m \in Numbers : stamp[m] \in Nat)
      /\ Len(wire[k]) \in Nat /\ read[k] \in Nat
  BY ClientTypes DEF Reading
<1>2. read[k] + 1 \in 1..Len(wire[k])
  BY <1>1 DEF Read
<1>3. PICK n : n = wire[k][read[k] + 1]
  OBVIOUS
<1>4. n \in Numbers /\ n < seq /\ stamp[n] =< now /\ n \in Nat /\ stamp[n] \in Nat
  BY <1>1, <1>2, <1>3, SentFrame
<1>5. PICK f : f = [seq |-> n, ts_monotonic_ms |-> stamp[n]]
  OBVIOUS
<1>6. f.seq = n /\ f.ts_monotonic_ms = stamp[n] /\ f = Frame(wire[k][read[k] + 1])
  BY <1>3, <1>5 DEF Frame
<1>7. PICK t \in Nat : t = now + 1
  BY <1>1
<1>8. PICK v : v = BreachesOf(session, f, t)
  OBVIOUS
<1>9. PICK x : x = Checked(session, f, t)
  OBVIOUS
<1>10. /\ session' = IF v = {} THEN x ELSE Breached(x, CHOOSE b \in v : TRUE, t)
       /\ flagged' = flagged \cup v
  BY <1>6, <1>7, <1>8, <1>9 DEF Read, ServerTime
<1>11. session \in Session /\ session.last_seq \in Int /\ session.first_client_ms \in Int
  BY DEF Reading, Session
<1>12. ~IsRewound(session, f)
  <2>1. CASE session.last_seq = -1
    BY <2>1, <1>4, <1>6 DEF PositionIsRead, IsRewound
  <2>2. CASE session.last_seq # -1
    <3>1. session.last_seq \in Numbers /\ session.last_monotonic_ms = stamp[session.last_seq]
      BY <2>2, PositionFrame
    <3>2. session.last_seq =< n => stamp[session.last_seq] =< stamp[n]
      <4>1. session.last_seq \in Numbers /\ n \in Numbers
        BY <3>1, <1>4, ClientTypes
      <4> QED BY <4>1, <1>4 DEF LinkInv, StampsInOrder
    <3>3. stamp[session.last_seq] \in Nat /\ session.last_seq \in Nat
      BY <3>1, <1>1
    <3> QED BY <3>1, <3>2, <3>3, <1>4, <1>6 DEF IsRewound, IsReplay
  <2> QED BY <2>1, <2>2
<1>13. Advances(session, f) <=> n > session.last_seq
  BY <1>4, <1>6, <1>11, <1>12 DEF Advances, IsReplay
<1>14. IsFirst(session, f) <=> n = session.last_seq + 1 /\ session.first_client_ms = None
  BY <1>4, <1>6, <1>11, <1>13 DEF IsFirst, InOrder
<1>15. /\ x \in Session
       /\ IF n > session.last_seq
          THEN x.last_seq = n /\ x.last_monotonic_ms = stamp[n]
          ELSE x = session
       /\ IF n = session.last_seq + 1 /\ session.first_client_ms = None
          THEN x.first_client_ms = stamp[n] /\ x.first_server_ms = t
          ELSE x.first_client_ms = session.first_client_ms
               /\ x.first_server_ms = session.first_server_ms
  <2>1. f.seq \in Nat /\ f.ts_monotonic_ms \in Nat
    BY <1>4, <1>6
  <2>2. ~Advances(session, f) => x = session
    BY <1>9 DEF Checked
  <2>3. /\ x \in Session
        /\ IF IsFirst(session, f)
           THEN x.first_client_ms = f.ts_monotonic_ms /\ x.first_server_ms = t
           ELSE x.first_client_ms = session.first_client_ms
                /\ x.first_server_ms = session.first_server_ms
        /\ Advances(session, f) => x.last_seq = f.seq /\ x.last_monotonic_ms = f.ts_monotonic_ms
    BY <2>1, <1>9, <1>11, CheckedClocks
  <2> QED BY <2>2, <2>3, <1>6, <1>13, <1>14
<1>16. v \subseteq Breach
  BY <1>8 DEF BreachesOf
<1>17. /\ session' \in Session
       /\ session'.last_seq = x.last_seq
       /\ session'.last_monotonic_ms = x.last_monotonic_ms
       /\ session'.first_client_ms = x.first_client_ms
       /\ session'.first_server_ms = x.first_server_ms
  <2>1. CASE v = {}
    BY <2>1, <1>10, <1>15
  <2>2. CASE v # {}
    <3>1. PICK b \in Breach : b = CHOOSE c \in v : TRUE
      BY <2>2, <1>16
    <3>2. session' = Breached(x, b, t)
      BY <2>2, <3>1, <1>10
    <3> QED BY <3>2, <1>15, BreachedStream
  <2> QED BY <2>1, <2>2
<1>18. /\ Replay \in v => n =< session.last_seq
       /\ SequenceGap \in v => n > session.last_seq + 1
       /\ ClockSkew \in v =>
            /\ session.first_client_ms # None
            /\ Distance(stamp[n] - session.first_client_ms,
                        t - ServerBase(session, t)) > SkewTolerance
  <2>1. Replay \in v => n =< session.last_seq
    BY <1>6, <1>8 DEF BreachesOf, Replay, ClockSkew, SequenceGap, IsReplay
  <2>2. SequenceGap \in v => n > session.last_seq + 1
    BY <1>4, <1>6, <1>8, <1>11, <1>13 DEF BreachesOf, Replay, ClockSkew, SequenceGap, IsGap
  <2>3. ClockSkew \in v => Drifted(session, f, t)
    BY <1>8, <1>12 DEF BreachesOf, Replay, ClockSkew, SequenceGap
  <2> QED BY <2>1, <2>2, <2>3, <1>6 DEF Drifted, Skew
<1>19. flagged \subseteq Breach
  BY DEF Reading
<1>20. Checks(n)
  BY <1>4, <1>7, <1>10, <1>11, <1>15, <1>16, <1>17, <1>18, <1>19 DEF Checks
<1> QED BY <1>2, <1>3, <1>20

\* A frame read in turn, with nothing read yet from a newer socket, is ahead of
\* the position.
LEMMA ReadAhead ==
  ASSUME LinkInv, Reading, PositionIsRead, ~SomeFailed,
         NEW k \in Sockets, read[k] + 1 \in 1..Len(wire[k]),
         \A j \in Sockets : j > k => read[j] = 0
  PROVE  wire[k][read[k] + 1] > session.last_seq
<1>1. /\ Numbers \subseteq Nat /\ Sockets \subseteq Nat
      /\ Numbers = Numbers /\ Sockets = Sockets
      /\ read[k] \in Nat
  BY ClientTypes DEF Reading
<1>2. wire[k][read[k] + 1] \in Nat
  BY <1>1, SentFrame
<1>3. CASE session.last_seq = -1
  BY <1>2, <1>3
<1>4. CASE session.last_seq # -1
  <2>1. PICK j \in Sockets : \E i \in 1..Len(wire[j]) :
          i =< read[j] /\ wire[j][i] = session.last_seq
    BY <1>4, PositionFrame
  <2>2. PICK i \in 1..Len(wire[j]) : i =< read[j] /\ wire[j][i] = session.last_seq
    BY <2>1
  <2>3. j < k \/ (j = k /\ i < read[k] + 1)
    BY <2>2, <1>1
  <2>4. \A f \in Numbers : status[f] # "failed"
    BY <1>1 DEF SomeFailed
  <2>5. wire[j][i] < wire[k][read[k] + 1]
    <3>1. IInv
      BY DEF LinkInv
    <3> QED BY <3>1, <1>1, <2>3, <2>4, SentInOrder
  <2>6. session.last_seq \in Nat
    BY <1>1, <1>4, PositionFrame
  <2> QED BY <1>2, <2>2, <2>5, <2>6
<1> QED BY <1>3, <1>4

\* While nothing was lost, the frame read next is the one after the position.
LEMMA ReadNext ==
  ASSUME LinkInv, Reading, PositionIsRead, PositionIsLatest, Intact,
         NEW k \in Sockets, read[k] + 1 \in 1..Len(wire[k])
  PROVE  /\ wire[k][read[k] + 1] = session.last_seq + 1
         /\ \A j \in Sockets : j # k => read[j] = 0
<1>1. /\ Numbers = Numbers /\ Sockets = Sockets
      /\ \A j \in Sockets : read[j] \in Nat /\ read[j] =< Len(wire[j])
  BY ClientTypes DEF Reading
<1>2. ~lost /\ dropped = 0 /\ \A f \in Numbers : status[f] # "failed"
  BY <1>1 DEF Intact, SomeFailed
<1>3. wire[k] # <<>>
  OBVIOUS
<1>4. ASSUME NEW j \in Sockets, j # k PROVE read[j] = 0
  <2>1. wire[j] = <<>>
    BY <1>1, <1>2, <1>3, <1>4 DEF LinkInv, OneWireUnlessLost
  <2> QED BY <1>1, <2>1
<1>5. wire[k][read[k] + 1] =
        IF read[k] + 1 = 1 THEN 0 ELSE wire[k][(read[k] + 1) - 1] + 1
  BY <1>1, <1>2, NoneMissing
<1>6. CASE read[k] = 0
  <2>1. \A j \in Sockets : read[j] = 0
    BY <1>4, <1>6
  <2>2. session.last_seq = -1
    BY <2>1 DEF PositionIsRead
  <2> QED BY <1>4, <1>5, <1>6, <2>2
<1>7. CASE read[k] # 0
  <2>1. session.last_seq = wire[k][read[k]]
    BY <1>1, <1>7 DEF PositionIsLatest
  <2> QED BY <1>1, <1>4, <1>5, <1>7, <2>1
<1> QED BY <1>6, <1>7

\* Reading a frame keeps the invariant, and accuses with a cause.
LEMMA ReadKeeps ==
  ASSUME LinkIInv, NEW k \in Sockets, Read(k)
  PROVE  GatewayInv' /\ Accusations'
<1>0. /\ LinkInv /\ Reading /\ PositionIsRead /\ BaseIsNearlyRight /\ PositionIsLatest
      /\ Accusations
  BY DEF LinkIInv, GatewayInv
<1>1. PICK n : n = wire[k][read[k] + 1]
  OBVIOUS
<1>2. read[k] + 1 \in 1..Len(wire[k]) /\ Checks(n)
  BY <1>0, <1>1, ReadChecks
<1>3. /\ seq \in Nat /\ now \in Nat /\ dropped \in Nat /\ Sockets \subseteq Nat
      /\ n \in Nat /\ stamp[n] \in Nat /\ stamp[n] =< now
      /\ session.last_seq \in Int /\ slowest \in Nat
      /\ read \in [Sockets -> Nat]
  BY <1>0, <1>2, ClientTypes DEF Checks, Reading, Session
<1>4. /\ read' = [read EXCEPT ![k] = @ + 1]
      /\ UNCHANGED <<client, now>>
      /\ crossed' = (crossed \/ \E j \in Sockets : j > k /\ read[j] > 0)
      /\ slowest' = IF now - stamp[n] > slowest THEN now - stamp[n] ELSE slowest
  BY <1>1 DEF Read, Frame, vars
<1>5. /\ read'[k] = read[k] + 1
      /\ \A j \in Sockets : j # k => read'[j] = read[j]
      /\ UNCHANGED <<wire, stamp, lost, dropped, status>>
      /\ slowest' \in Nat /\ slowest' >= slowest /\ slowest' >= now - stamp[n]
  BY <1>3, <1>4 DEF client
<1>6. (SomeFailed' <=> SomeFailed) /\ (Intact' <=> Intact)
  BY <1>5 DEF SomeFailed, Intact
<1>7. Reading'
  <2>1. read' \in [Sockets -> Nat]
    BY <1>3, <1>4
  <2>2. \A j \in Sockets : read'[j] =< Len(wire[j])
    BY <1>0, <1>2, <1>5 DEF Reading
  <2>3. crossed' \in BOOLEAN
    BY <1>0, <1>4 DEF Reading
  <2> QED BY <1>2, <1>5, <2>1, <2>2, <2>3 DEF Reading, Checks
<1>8. PositionIsRead'
  <2>1. CASE n > session.last_seq
    <3>1. session'.last_seq = n /\ session'.last_monotonic_ms = stamp[n]
      BY <1>2, <2>1 DEF Checks
    <3>2. read[k] + 1 \in 1..read'[k] /\ wire[k][read[k] + 1] = n
      BY <1>1, <1>3, <1>5
    <3> QED BY <1>3, <1>5, <3>1, <3>2 DEF PositionIsRead
  <2>2. CASE n =< session.last_seq
    <3>1. /\ session'.last_seq = session.last_seq
          /\ session'.last_monotonic_ms = session.last_monotonic_ms
          /\ session.last_seq # -1
      BY <1>2, <1>3, <2>2 DEF Checks
    <3>2. PICK j \in Sockets : \E i \in 1..Len(wire[j]) :
            i =< read[j] /\ wire[j][i] = session.last_seq
      BY <1>0, <3>1, PositionFrame
    <3>3. PICK i \in 1..Len(wire[j]) : i =< read[j] /\ wire[j][i] = session.last_seq
      BY <3>2
    <3>4. i \in 1..read'[j]
      BY <1>3, <1>5, <3>3
    <3>5. session.last_monotonic_ms = stamp[session.last_seq]
      BY <1>0, <3>1, PositionFrame
    <3> QED BY <1>5, <3>1, <3>3, <3>4, <3>5 DEF PositionIsRead
  <2> QED BY <1>3, <2>1, <2>2
<1>9. BaseIsNearlyRight'
  <2>1. CASE n = session.last_seq + 1 /\ session.first_client_ms = None
    <3>1. session'.first_client_ms = stamp[n] /\ session'.first_server_ms = now + 1
      BY <1>2, <2>1 DEF Checks
    <3>2. now - stamp[n] \in 0..slowest'
      BY <1>3, <1>5
    <3>3. now + 1 = stamp[n] + (now - stamp[n]) + 1
      BY <1>3
    <3> QED BY <1>3, <3>1, <3>2, <3>3 DEF BaseIsNearlyRight
  <2>2. CASE ~(n = session.last_seq + 1 /\ session.first_client_ms = None)
    <3>1. /\ session'.first_client_ms = session.first_client_ms
          /\ session'.first_server_ms = session.first_server_ms
      BY <1>2, <2>2 DEF Checks
    <3>2. 0..slowest \subseteq 0..slowest'
      BY <1>3, <1>5
    <3> QED BY <1>0, <3>1, <3>2 DEF BaseIsNearlyRight
  <2> QED BY <2>1, <2>2
<1>10. ~crossed' /\ ~SomeFailed => n > session.last_seq
  <2> SUFFICES ASSUME ~crossed', ~SomeFailed PROVE n > session.last_seq
    OBVIOUS
  <2>1. ~\E j \in Sockets : j > k /\ read[j] > 0
    BY <1>4, Zenon
  <2>2. \A j \in Sockets : read[j] \in Nat
    BY <1>3
  <2>3. \A j \in Sockets : j > k => read[j] = 0
    BY <2>1, <2>2
  <2> QED BY <1>0, <1>1, <1>2, <2>3, ReadAhead
<1>11. Intact => n = session.last_seq + 1 /\ \A j \in Sockets : j # k => read[j] = 0
  BY <1>0, <1>1, <1>2, ReadNext
<1>12. PositionIsLatest'
  <2> SUFFICES ASSUME Intact, NEW j \in Sockets, read'[j] > 0
               PROVE  session'.last_seq = wire[j][read'[j]]
    BY <1>5, <1>6 DEF PositionIsLatest
  <2>1. j = k
    BY <1>5, <1>11
  <2>2. session'.last_seq = n
    BY <1>2, <1>3, <1>11 DEF Checks
  <2> QED BY <1>1, <1>5, <2>1, <2>2
<1>13. ReplayOnlyIfCrossed'
  <2> SUFFICES ASSUME Replay \in flagged', ~crossed', ~SomeFailed PROVE FALSE
    BY <1>6 DEF ReplayOnlyIfCrossed
  <2>1. Replay \notin flagged
    BY <1>0, <1>4 DEF Accusations, ReplayOnlyIfCrossed
  <2>2. n =< session.last_seq
    BY <1>2, <2>1 DEF Checks
  <2> QED BY <1>3, <1>10, <2>2
<1>14. GapOnlyIfLost'
  <2> SUFFICES ASSUME SequenceGap \in flagged', Intact PROVE FALSE
    BY <1>3, <1>5, <1>6 DEF GapOnlyIfLost, Intact
  <2>1. SequenceGap \notin flagged
    BY <1>0 DEF Accusations, GapOnlyIfLost, Intact
  <2>2. n > session.last_seq + 1
    BY <1>2, <2>1 DEF Checks
  <2> QED BY <1>3, <1>11, <2>2
<1>15. SkewOnlyIfLate'
  <2> SUFFICES ASSUME ClockSkew \in flagged' PROVE slowest' > SkewTolerance
    BY DEF SkewOnlyIfLate
  <2>1. CASE ClockSkew \in flagged
    BY <1>0, <1>3, <1>5, <2>1, Tolerance DEF Accusations, SkewOnlyIfLate
  <2>2. CASE ClockSkew \notin flagged
    <3>1. /\ session.first_client_ms # None
          /\ Distance(stamp[n] - session.first_client_ms,
                      (now + 1) - ServerBase(session, now + 1)) > SkewTolerance
      BY <1>2, <2>2 DEF Checks
    <3>2. PICK c \in Nat, d \in 0..slowest :
            /\ session.first_client_ms = c
            /\ session.first_server_ms = c + d + 1
      BY <1>0, <3>1 DEF BaseIsNearlyRight
    <3>3. ServerBase(session, now + 1) = c + d + 1
      BY <3>2, <1>3 DEF ServerBase
    <3>4. Distance(stamp[n] - c, (now + 1) - (c + d + 1)) =< slowest'
      BY <1>3, <1>5, <3>2 DEF Distance
    <3>5. Distance(stamp[n] - c, (now + 1) - (c + d + 1)) \in Int
      BY <1>3, <3>2 DEF Distance
    <3> QED BY <3>1, <3>2, <3>3, <3>4, <3>5, <1>5, Tolerance
  <2> QED BY <2>1, <2>2
<1> QED BY <1>7, <1>8, <1>9, <1>12, <1>13, <1>14, <1>15 DEF GatewayInv, Accusations

---------------------------------------------------------------------------
(* The theorems                                                            *)

\* Nothing was read before the first frame.
LEMMA InitIInv == LinkInit => LinkIInv
<1> SUFFICES ASSUME LinkInit PROVE LinkIInv
  OBVIOUS
<1>1. LinkInv
  BY ClientInit
<1>2. /\ session = NewSession /\ read = [k \in Sockets |-> 0]
      /\ flagged = {} /\ crossed = FALSE /\ slowest = 0
  BY DEF LinkInit
<1>3. Reading
  <2>1. read \in [Sockets -> Nat] /\ \A k \in Sockets : read[k] =< Len(wire[k])
    <3>1. \A k \in Sockets : Len(wire[k]) \in Nat /\ 0 =< Len(wire[k])
      BY <1>1, ClientTypes
    <3> QED BY <1>2, <3>1
  <2>2. session \in Session
    BY <1>2, NewSessionType
  <2> QED BY <1>2, <2>1, <2>2 DEF Reading
<1>4. PositionIsRead /\ BaseIsNearlyRight /\ PositionIsLatest
  BY <1>2 DEF NewSession, PositionIsRead, BaseIsNearlyRight, PositionIsLatest, None
<1>5. Accusations
  BY <1>2 DEF Accusations, ReplayOnlyIfCrossed, GapOnlyIfLost, SkewOnlyIfLate
<1> QED BY <1>1, <1>3, <1>4, <1>5 DEF LinkIInv, GatewayInv

\* The invariant holds throughout.
LEMMA LinkInvariants == LinkSpec => []LinkIInv
<1>1. LinkIInv /\ [LinkNext]_linkvars => LinkIInv'
  <2> SUFFICES ASSUME LinkIInv, [LinkNext]_linkvars PROVE LinkIInv'
    OBVIOUS
  <2>1. LinkInv' /\ NothingTakenBack
    BY ClientStep DEF LinkIInv
  <2>2. UNCHANGED gateway \/ \E k \in Sockets : Read(k)
    BY DEF LinkNext, linkvars
  <2>3. GatewayInv' /\ Accusations'
    BY <2>1, <2>2, ClientKeeps, ReadKeeps
  <2> QED BY <2>1, <2>3 DEF LinkIInv
<1> QED BY <1>1, InitIInv, PTL DEF LinkSpec

\* Session.check calls a frame of an honest client a replay only when two of
\* its sockets were read out of order or a frame could not be signed.
THEOREM NoFalseReplay == LinkSpec => []ReplayOnlyIfCrossed
<1>1. LinkIInv => ReplayOnlyIfCrossed
  BY DEF LinkIInv, Accusations
<1> QED BY <1>1, LinkInvariants, PTL

\* Session.check reports a gap in the stream of an honest client only when a
\* frame was dropped from a full queue or not signed, or a socket was lost.
THEOREM NoFalseGap == LinkSpec => []GapOnlyIfLost
<1>1. LinkIInv => GapOnlyIfLost
  BY DEF LinkIInv, Accusations
<1> QED BY <1>1, LinkInvariants, PTL

\* Session.check reports the clock of an honest client only when a frame took
\* longer than the tolerance to arrive.
THEOREM NoFalseSkew == LinkSpec => []SkewOnlyIfLate
<1>1. LinkIInv => SkewOnlyIfLate
  BY DEF LinkIInv, Accusations
<1> QED BY <1>1, LinkInvariants, PTL

=========================================================================
