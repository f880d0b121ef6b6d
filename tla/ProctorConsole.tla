-------------------------- MODULE ProctorConsole --------------------------
(***************************************************************************)
(* The triage board on the way to the proctors' screens: the bounded       *)
(* queues of ProctorHub (hub.py), the stream and snapshot endpoints        *)
(* (app.py), and the page that reads them (apps/console/console.js).       *)
(*                                                                         *)
(* The board is the number of changes made to it, a snapshot the number it *)
(* was taken at.  A handler is atomic between its awaits: the hub's lock   *)
(* is never held across one, so publishing is a single step, and so is     *)
(* subscribing together with taking the snapshot of the hello.             *)
(***************************************************************************)
EXTENDS Integers, SequencesExt

CONSTANTS
  Consoles,
  QueueLimit,  \* QUEUE_LIMIT
  MaxBoard,    \* bounds: changes to the board,
  MaxSilent,   \*         those that are not announced,
  MaxBreaks,   \*         sockets cut and gateway restarts,
  MaxFetches,  \*         snapshot requests of a page under way,
  MaxInSocket  \*         messages in a socket's buffers

ASSUME ConsoleAssumption ==
  /\ QueueLimit \in Nat \ {0}
  /\ {MaxBoard, MaxSilent, MaxBreaks} \subseteq Nat
  /\ {MaxFetches, MaxInSocket} \subseteq Nat \ {0}

VARIABLES
  board, announced, silent, \* changes made, the newest told, those not told
  feed,    \* the handler of the stream, per console: its queue, the message
           \* it is sending, and what the socket carries
  page,    \* where the page stands
  fetch,   \* its snapshot requests, in the order sent
  view,    \* state.sessions
  marred,   \* history: the consoles a failed or overtaken request has set back
  breaks

vars == <<board, announced, silent, feed, page, fetch, view,
          marred, breaks>>
server == <<board, announced, silent, feed>>

Pages == {"starting", "prompt", "reconnecting", "opening", "live"}
Unanswered == -1

Message(hello, b) == [hello |-> hello, board |-> b]
NoFeed == [subscribed |-> FALSE, queue |-> <<>>, sending |-> <<>>, socket |-> <<>>]

InOrder(f) == f.socket \o f.sending \o f.queue

---------------------------------------------------------------------------
(* Mutated forms.                                                          *)

\* A message is ignored while a request is under way.
AfterMessageDebounced(r) ==
  IF r = <<>> THEN Append(r, Unanswered) ELSE r

\* A closed socket is left closed.
AfterCloseStays == "closed"

---------------------------------------------------------------------------
(* The hub.                                                                *)

\* publish, for one subscriber: a full queue loses its oldest message.
Published(q, m) ==
  IF Len(q) < QueueLimit THEN Append(q, m) ELSE Append(Tail(q), m)

Subscribers == {c \in Consoles : feed[c].subscribed}

\* _Broadcast.publish: the board first, then the fan-out.
Publish ==
  LET m == Message(FALSE, board + 1) IN
  /\ board < MaxBoard
  /\ board' = board + 1
  /\ announced' = board + 1
  /\ feed' = [c \in Consoles |->
                IF c \in Subscribers
                THEN [feed[c] EXCEPT !.queue = Published(@, m)]
                ELSE feed[c]]
  /\ UNCHANGED <<silent, page, fetch, view, marred, breaks>>

\* create_session puts a row on the board and publishes nothing.
Register ==
  /\ silent < MaxSilent
  /\ board < MaxBoard
  /\ board' = board + 1
  /\ silent' = silent + 1
  /\ UNCHANGED <<announced, feed, page, fetch, view, marred, breaks>>

\* proctor_stream: send_json completes when the socket takes the message.
Send(c) ==
  /\ feed[c].sending # <<>>
  /\ Len(feed[c].socket) < MaxInSocket
  /\ feed' = [feed EXCEPT ![c].socket = @ \o feed[c].sending,
                          ![c].sending = <<>>]
  /\ UNCHANGED <<board, announced, silent, page, fetch, view, marred, breaks>>

\* ... then the next queue.get.
Take(c) ==
  /\ feed[c].sending = <<>>
  /\ feed[c].queue # <<>>
  /\ feed' = [feed EXCEPT ![c].sending = <<Head(feed[c].queue)>>,
                          ![c].queue = Tail(@)]
  /\ UNCHANGED <<board, announced, silent, page, fetch, view, marred, breaks>>

---------------------------------------------------------------------------
(* The page.                                                               *)

\* What a message other than the hello adds to the requests: refresh().
AfterMessage(r) == Append(r, Unanswered)

\* Where the close event takes the page: setTimeout(connect, 2000).
AfterClose == "reconnecting"

Hello(b, a) == Message(TRUE, b)

\* The timer of the close event, or the end of start's refresh: connect().
Connect(c) ==
  /\ page[c] = "reconnecting"
  /\ page' = [page EXCEPT ![c] = "opening"]
  /\ UNCHANGED <<server, fetch, view, marred, breaks>>

\* proctor_stream accepts, subscribes and takes the snapshot of its hello.
Accept(c) ==
  /\ page[c] = "opening"
  /\ page' = [page EXCEPT ![c] = "live"]
  /\ feed' = [feed EXCEPT ![c] =
                [NoFeed EXCEPT !.subscribed = TRUE,
                               !.sending = <<Hello(board, announced)>>]]
  /\ UNCHANGED <<board, announced, silent, fetch, view, marred, breaks>>

\* What showing snapshot b does to the history: an older one than the page has
\* sets it back, and a console is set right by a snapshot with all announced.
AfterShowing(c, b, right) ==
  IF b < view[c] THEN marred \cup {c}
  ELSE IF right THEN marred \ {c} ELSE marred

\* The message listener: a hello is shown, anything else asks for a snapshot.
Receive(c) ==
  LET m == Head(feed[c].socket) IN
  /\ feed[c].socket # <<>>
  /\ feed' = [feed EXCEPT ![c].socket = Tail(@)]
  /\ \/ /\ m.hello
        /\ view' = [view EXCEPT ![c] = m.board]
        /\ marred' = AfterShowing(c, m.board, TRUE)
        /\ UNCHANGED fetch
     \/ /\ ~m.hello
        /\ Len(fetch[c]) < MaxFetches
        /\ fetch' = [fetch EXCEPT ![c] = AfterMessage(@)]
        /\ UNCHANGED <<view, marred>>
  /\ UNCHANGED <<board, announced, silent, page, breaks>>

\* proctor_sessions takes a snapshot for request i of a page; requests use
\* several connections, so answers come in any order.
Answer(c, i) ==
  /\ fetch[c][i] = Unanswered
  /\ fetch' = [fetch EXCEPT ![c][i] = board]
  /\ UNCHANGED <<server, page, view, marred, breaks>>

\* applySnapshot; the first one lets start go on to connect.
Apply(c, i) ==
  /\ fetch[c][i] # Unanswered
  /\ view' = [view EXCEPT ![c] = fetch[c][i]]
  /\ marred' = AfterShowing(c, fetch[c][i], fetch[c][i] >= announced)
  /\ fetch' = [fetch EXCEPT ![c] = RemoveAt(@, i)]
  /\ page' = [page EXCEPT ![c] = IF @ = "starting" THEN "opening" ELSE @]
  /\ UNCHANGED <<server, breaks>>

\* A request fails: start asks for the token again, a refresh is forgotten.
Fail(c, i) ==
  /\ fetch' = [fetch EXCEPT ![c] = RemoveAt(@, i)]
  /\ page' = [page EXCEPT ![c] = IF @ = "starting" THEN "prompt" ELSE @]
  /\ marred' = IF page[c] = "starting" THEN marred ELSE marred \cup {c}
  /\ UNCHANGED <<server, view, breaks>>

\* The proctor enters the token: start().
Enter(c) ==
  /\ page[c] = "prompt"
  /\ page' = [page EXCEPT ![c] = "starting"]
  /\ fetch' = [fetch EXCEPT ![c] = <<Unanswered>>]
  /\ UNCHANGED <<server, view, marred, breaks>>

---------------------------------------------------------------------------
(* Failures.                                                               *)

\* A socket, or its handshake, fails.  The handler of a cut socket notices on
\* its next send; what it is given until then reaches nobody.
Cut(c) ==
  /\ page[c] \in {"opening", "live"}
  /\ breaks < MaxBreaks
  /\ breaks' = breaks + 1
  /\ feed' = [feed EXCEPT ![c] = NoFeed]
  /\ page' = [page EXCEPT ![c] = AfterClose]
  /\ UNCHANGED <<board, announced, silent, fetch, view, marred>>

\* A gateway restart: every socket and every request fails, and the restored
\* board, with every session disconnected, is one all pages have to be shown.
Restart ==
  /\ breaks < MaxBreaks
  /\ board < MaxBoard
  /\ breaks' = breaks + 1
  /\ board' = board + 1
  /\ announced' = board + 1
  /\ feed' = [c \in Consoles |-> NoFeed]
  /\ fetch' = [c \in Consoles |-> <<>>]
  /\ page' = [c \in Consoles |->
                CASE page[c] = "starting"          -> "prompt"
                  [] page[c] \in {"opening", "live"} -> AfterClose
                  [] OTHER                         -> page[c]]
  /\ UNCHANGED <<silent, view, marred>>

---------------------------------------------------------------------------

Init ==
  /\ board = 0
  /\ announced = 0
  /\ silent = 0
  /\ feed = [c \in Consoles |-> NoFeed]
  /\ page = [c \in Consoles |-> "starting"]
  /\ fetch = [c \in Consoles |-> <<Unanswered>>]
  /\ view = [c \in Consoles |-> 0]
  /\ marred = {}
  /\ breaks = 0

Next ==
  \/ Publish
  \/ Register
  \/ Restart
  \/ \E c \in Consoles :
       \/ Send(c)
       \/ Take(c)
       \/ Connect(c)
       \/ Accept(c)
       \/ Receive(c)
       \/ Enter(c)
       \/ Cut(c)
       \/ \E i \in DOMAIN fetch[c] : Answer(c, i) \/ Apply(c, i) \/ Fail(c, i)

Spec == Init /\ [][Next]_vars

\* The event loops of gateway and browser run what is ready, the socket
\* drains and the retry timer fires.  The user is not obliged to anything.
FairSpec ==
  /\ Spec
  /\ \A c \in Consoles :
       /\ WF_vars(Send(c))
       /\ WF_vars(Take(c))
       /\ WF_vars(Connect(c))
       /\ WF_vars(Accept(c))
       /\ WF_vars(Receive(c))
       /\ WF_vars(\E i \in DOMAIN fetch[c] : Answer(c, i))
       /\ WF_vars(\E i \in DOMAIN fetch[c] : Apply(c, i))

---------------------------------------------------------------------------
(* Properties.                                                             *)

Messages == [hello : BOOLEAN, board : 0 .. MaxBoard]

\* The type invariant: no subscriber's queue outgrows QUEUE_LIMIT.
TypeOK ==
  /\ announced \in 0 .. board
  /\ board \in 0 .. MaxBoard
  /\ silent \in 0 .. MaxSilent
  /\ breaks \in 0 .. MaxBreaks
  /\ page \in [Consoles -> Pages]
  /\ view \in [Consoles -> 0 .. board]
  /\ marred \subseteq Consoles
  /\ \A c \in Consoles :
       /\ \A m \in {InOrder(feed[c])[k] : k \in DOMAIN InOrder(feed[c])} :
            m \in Messages
       /\ Len(feed[c].queue) <= QueueLimit
       /\ Len(feed[c].sending) <= 1
       /\ Len(fetch[c]) <= MaxFetches
       /\ \A i \in DOMAIN fetch[c] : fetch[c][i] \in {Unanswered} \cup 0 .. board

\* A page that is behind an announced change has on the way what brings it up:
\* a message, a request that has not been answered, a snapshot that is new
\* enough, or a connection to be made.  The messages a full queue drops are not
\* missed; a page is left behind only by a request that failed, or whose answer
\* was overtaken by a newer one.
BehindMeansPending ==
  \A c \in Consoles \ marred :
    \/ view[c] >= announced
    \/ page[c] # "live"
    \/ InOrder(feed[c]) # <<>>
    \/ \E i \in DOMAIN fetch[c] :
         fetch[c][i] = Unanswered \/ fetch[c][i] >= announced

View == INSTANCE BoardView WITH
  waiting <- {c \in Consoles : page[c] = "prompt"} \cup marred

\* Hub, stream and page implement a view of the board that never shows what
\* has not happened, goes back only where requests crossed, and catches up with
\* every announced change unless it waits for its user or a request failed.
CatchesUp == View!FairSpec
===========================================================================
