----------------------- MODULE ProctorConsole_proofs -----------------------
(***************************************************************************)
(* What hub, stream and page keep for any number of consoles, any length   *)
(* of the queues and any pattern of failures, and that they implement the  *)
(* view of the board that BoardView promises.                              *)
(***************************************************************************)
EXTENDS ProctorConsole, SequenceTheorems, TLAPS

\* The assumptions on the constants, one by one.
LEMMA Constants ==
  /\ QueueLimit \in Nat \ {0}
  /\ MaxBoard \in Nat /\ MaxSilent \in Nat /\ MaxBreaks \in Nat
  /\ MaxFetches \in Nat \ {0} /\ MaxInSocket \in Nat \ {0}
BY ConsoleAssumption DEF ConsoleAssumption

(***************************************************************************)
(* Sequences.                                                              *)
(***************************************************************************)

\* Taking an element out keeps all the others.
LEMMA RemoveAtKeeps ==
  ASSUME NEW S, NEW s \in Seq(S), NEW i \in 1..Len(s)
  PROVE  /\ RemoveAt(s, i) \in Seq(S)
         /\ Len(RemoveAt(s, i)) = Len(s) - 1
         /\ \A j \in 1..Len(s) : j # i =>
              \E k \in DOMAIN RemoveAt(s, i) : RemoveAt(s, i)[k] = s[j]
<1> DEFINE a == SubSeq(s, 1, i - 1)
           b == SubSeq(s, i + 1, Len(s))
           r == RemoveAt(s, i)
<1>1. Len(s) \in Nat /\ \A j \in 1..Len(s) : s[j] \in S
  BY LenProperties
<1>2. /\ a \in Seq(S) /\ Len(a) = i - 1
      /\ \A j \in 1..(i - 1) : a[j] = s[j]
  BY <1>1, SubSeqProperties
<1>3. /\ b \in Seq(S) /\ Len(b) = Len(s) - i
      /\ \A j \in 1..(Len(s) - i) : b[j] = s[i + j]
  BY <1>1, SubSeqProperties
<1>4. r = a \o b
  BY DEF RemoveAt
<1> HIDE DEF a, b, r
<1>5. /\ r \in Seq(S) /\ Len(r) = Len(s) - 1 /\ DOMAIN r = 1..(Len(s) - 1)
      /\ \A k \in 1..(Len(s) - 1) : r[k] = IF k < i THEN a[k] ELSE b[k - i + 1]
  <2>1. /\ r \in Seq(S) /\ Len(r) = Len(a) + Len(b)
        /\ \A k \in 1..(Len(a) + Len(b)) :
             r[k] = IF k <= Len(a) THEN a[k] ELSE b[k - Len(a)]
    BY <1>2, <1>3, <1>4, ConcatProperties
  <2>2. Len(r) = Len(s) - 1 /\ DOMAIN r = 1..(Len(s) - 1)
    BY <1>1, <1>2, <1>3, <2>1, LenProperties
  <2>3. ASSUME NEW k \in 1..(Len(s) - 1)
        PROVE  r[k] = IF k < i THEN a[k] ELSE b[k - i + 1]
    <3>1. k - Len(a) = k - i + 1 /\ (k <= Len(a) <=> k < i)
      BY <1>1, <1>2
    <3>2. k \in 1..(Len(a) + Len(b))
      BY <1>1, <1>2, <1>3
    <3>3. QED
      BY <2>1, <3>1, <3>2
  <2>4. QED
    BY <2>1, <2>2, <2>3
<1>6. ASSUME NEW j \in 1..Len(s), j # i
      PROVE  \E k \in DOMAIN r : r[k] = s[j]
  <2>1. CASE j < i
    <3>1. j \in 1..(Len(s) - 1) /\ r[j] = s[j]
      BY <1>1, <1>2, <1>5, <2>1
    <3>2. QED
      BY <1>5, <3>1
  <2>2. CASE j > i
    <3>1. j - 1 \in 1..(Len(s) - 1) /\ r[j - 1] = b[j - i]
      BY <1>1, <1>5, <2>2
    <3>2. b[j - i] = s[j]
      BY <1>1, <1>3, <2>2
    <3>3. QED
      BY <1>5, <3>1, <3>2
  <2>3. QED
    BY <1>1, <1>6, <2>1, <2>2
<1>7. QED
  BY <1>5, <1>6 DEF r

\* A published message is the last one of the queue, which is within its
\* limit and holds nothing else but what it held.
LEMMA PublishedKeeps ==
  ASSUME NEW S, NEW q \in Seq(S), NEW m \in S, Len(q) <= QueueLimit
  PROVE  /\ Published(q, m) \in Seq(S)
         /\ Len(Published(q, m)) \in 1..QueueLimit
         /\ Published(q, m)[Len(Published(q, m))] = m
<1>1. Len(q) \in Nat /\ QueueLimit \in Nat \ {0}
  BY LenProperties, Constants
<1>2. CASE Len(q) < QueueLimit
  BY <1>1, <1>2, AppendProperties DEF Published
<1>3. CASE ~(Len(q) < QueueLimit)
  <2>1. q # <<>>
    BY <1>1, <1>3
  <2>2. Tail(q) \in Seq(S) /\ Len(Tail(q)) = Len(q) - 1
    BY <2>1, HeadTailProperties
  <2>3. Published(q, m) = Append(Tail(q), m)
    BY <1>3 DEF Published
  <2>4. QED
    BY <1>1, <1>3, <2>2, <2>3, AppendProperties
<1>4. QED
  BY <1>2, <1>3

(***************************************************************************)
(* The inductive invariant.                                                *)
(***************************************************************************)

\* Messages and answers about boards there have been.
Seen(b) == [hello : BOOLEAN, board : 0 .. b]
Answers(b) == {Unanswered} \cup 0 .. b

Feeds(b) ==
  [subscribed : BOOLEAN, queue : Seq(Seen(b)), sending : Seq(Seen(b)),
   socket : Seq(Seen(b))]

\* The type invariant, with what the queues, the messages and the requests
\* hold: nothing in them is ahead of the board.
NothingAhead ==
  /\ board \in 0 .. MaxBoard
  /\ announced \in 0 .. board
  /\ silent \in 0 .. MaxSilent
  /\ breaks \in 0 .. MaxBreaks
  /\ page \in [Consoles -> Pages]
  /\ view \in [Consoles -> 0 .. board]
  /\ marred \in SUBSET Consoles
  /\ feed \in [Consoles -> Feeds(board)]
  /\ fetch \in [Consoles -> Seq(Answers(board))]

Bounded ==
  \A c \in Consoles : /\ Len(feed[c].queue) <= QueueLimit
                      /\ Len(feed[c].sending) <= 1
                      /\ Len(fetch[c]) <= MaxFetches

\* A page that is live has a subscriber at the hub, and nothing is on the way
\* where there is none.
LiveIsSubscribed ==
  \A c \in Consoles : /\ page[c] = "live" => feed[c].subscribed
                      /\ ~feed[c].subscribed => feed[c] = NoFeed

\* A hello on the way is up to date, or something is behind it.
HelloFollowed ==
  \A c \in Consoles : \A k \in DOMAIN InOrder(feed[c]) :
    InOrder(feed[c])[k].hello =>
      \/ InOrder(feed[c])[k].board >= announced
      \/ k < Len(InOrder(feed[c]))

IInv ==
  /\ NothingAhead
  /\ Bounded
  /\ LiveIsSubscribed
  /\ HelloFollowed
  /\ BehindMeansPending

\* What one console has on the way.
PendingFor(c) ==
  \/ view[c] >= announced
  \/ page[c] # "live"
  \/ InOrder(feed[c]) # <<>>
  \/ \E i \in DOMAIN fetch[c] :
       fetch[c][i] = Unanswered \/ fetch[c][i] >= announced

HelloFollowedFor(c) ==
  \A k \in DOMAIN InOrder(feed[c]) :
    InOrder(feed[c])[k].hello =>
      \/ InOrder(feed[c])[k].board >= announced
      \/ k < Len(InOrder(feed[c]))

BoundedFor(c) ==
  /\ Len(feed[c].queue) <= QueueLimit
  /\ Len(feed[c].sending) <= 1
  /\ Len(fetch[c]) <= MaxFetches

\* The invariant, console by console.
Sound(c) ==
  /\ BoundedFor(c)
  /\ page[c] = "live" => feed[c].subscribed
  /\ ~feed[c].subscribed => feed[c] = NoFeed
  /\ HelloFollowedFor(c)
  /\ c \in marred \/ PendingFor(c)

AllSound == \A c \in Consoles : Sound(c)

\* The two ways of stating the invariant agree.
LEMMA IInvByConsole == IInv <=> NothingAhead /\ AllSound
<1>1. Bounded <=> \A c \in Consoles : BoundedFor(c)
  BY DEF Bounded, BoundedFor
<1>2. HelloFollowed <=> \A c \in Consoles : HelloFollowedFor(c)
  BY DEF HelloFollowed, HelloFollowedFor
<1>3. BehindMeansPending <=> \A c \in Consoles \ marred : PendingFor(c)
  BY DEF BehindMeansPending, PendingFor
<1>4. QED
  BY <1>1, <1>2, <1>3 DEF IInv, LiveIsSubscribed, Sound, AllSound

\* Boards only grow, so what was seen stays seen.
LEMMA SeenGrows ==
  ASSUME NEW a \in Nat, NEW b \in Nat, a <= b
  PROVE  /\ Seen(a) \subseteq Seen(b)
         /\ Feeds(a) \subseteq Feeds(b)
         /\ Seq(Answers(a)) \subseteq Seq(Answers(b))
<1>1. 0 .. a \subseteq 0 .. b
  OBVIOUS
<1>2. Seen(a) \subseteq Seen(b) /\ Answers(a) \subseteq Answers(b)
  BY <1>1 DEF Seen, Answers
<1>3. /\ Seq(Seen(a)) \subseteq Seq(Seen(b))
      /\ Seq(Answers(a)) \subseteq Seq(Answers(b))
  BY <1>2, SeqMonotonic
<1>4. QED
  BY <1>2, <1>3 DEF Feeds

\* A console nothing has happened to stays sound.
LEMMA SoundStays ==
  ASSUME NEW c, Sound(c),
         UNCHANGED <<announced, feed[c], page[c], fetch[c], view[c]>>,
         c \in marred => c \in marred'
  PROVE  Sound(c)'
BY DEF Sound, BoundedFor, HelloFollowedFor, PendingFor

\* The parts of a feed, and what is on the way in it.
LEMMA FeedParts ==
  ASSUME NothingAhead, NEW c \in Consoles
  PROVE  /\ feed[c] \in Feeds(board)
         /\ feed[c].subscribed \in BOOLEAN
         /\ feed[c].queue \in Seq(Seen(board))
         /\ feed[c].sending \in Seq(Seen(board))
         /\ feed[c].socket \in Seq(Seen(board))
         /\ InOrder(feed[c]) \in Seq(Seen(board))
<1>1. feed[c] \in Feeds(board)
  BY DEF NothingAhead
<1>2. /\ feed[c].subscribed \in BOOLEAN
      /\ feed[c].queue \in Seq(Seen(board))
      /\ feed[c].sending \in Seq(Seen(board))
      /\ feed[c].socket \in Seq(Seen(board))
  BY <1>1 DEF Feeds
<1>3. InOrder(feed[c]) \in Seq(Seen(board))
  BY <1>2, ConcatProperties DEF InOrder
<1>4. QED
  BY <1>1, <1>2, <1>3

\* No feed at all is a feed.
LEMMA NoFeedType == \A b : NoFeed \in Feeds(b)
BY EmptySeq DEF NoFeed, Feeds

\* Every page starts in the invariant.
LEMMA InitIInv == Init => IInv
<1> SUFFICES ASSUME Init PROVE IInv
  OBVIOUS
<1>1. NothingAhead
  <2>1. <<Unanswered>> \in Seq(Answers(0))
    BY DEF Answers
  <2>2. feed \in [Consoles -> Feeds(board)]
    BY NoFeedType DEF Init
  <2>3. QED
    BY <2>1, <2>2, Constants DEF Init, NothingAhead, Pages
<1>2. ASSUME NEW c \in Consoles PROVE Sound(c)
  <2>1. /\ feed[c] = NoFeed /\ fetch[c] = <<Unanswered>>
        /\ page[c] = "starting"
    BY DEF Init
  <2>2. InOrder(NoFeed) = <<>>
    BY DEF InOrder, NoFeed
  <2>3. BoundedFor(c)
    BY <2>1, Constants DEF BoundedFor, NoFeed
  <2>4. QED
    BY <2>1, <2>2, <2>3 DEF Sound, HelloFollowedFor, PendingFor
<1>3. QED
  BY <1>1, <1>2, IInvByConsole DEF AllSound


(***************************************************************************)
(* Every action preserves it.                                              *)
(***************************************************************************)

\* The other consoles stay sound when one console acts.
LEMMA OneConsoleActs ==
  ASSUME IInv, NEW c \in Consoles, NothingAhead', Sound(c)',
         announced' = announced,
         \A d \in Consoles \ {c} :
           /\ UNCHANGED <<feed[d], page[d], fetch[d], view[d]>>
           /\ d \in marred => d \in marred'
  PROVE  IInv'
<1>1. \A d \in Consoles : Sound(d)
  BY IInvByConsole DEF AllSound
<1>2. ASSUME NEW d \in Consoles \ {c} PROVE Sound(d)'
  BY <1>1, SoundStays
<1>3. NothingAhead' /\ AllSound'
  BY <1>2 DEF AllSound
<1>4. QED
  BY <1>3, IInvByConsole, PTL

\* Publishing preserves the invariant: whoever is live gets the message, and a
\* queue that drops one drops an older one.
LEMMA PublishIInv == IInv /\ Publish => IInv'
<1> SUFFICES ASSUME IInv, Publish PROVE IInv'
  OBVIOUS
<1> DEFINE m == Message(FALSE, board + 1)
<1>1. /\ NothingAhead /\ board \in Nat /\ board + 1 \in Nat
      /\ board < MaxBoard /\ MaxBoard \in Nat
      /\ board' = board + 1 /\ announced' = board + 1
      /\ feed' = [c \in Consoles |->
                    IF c \in Subscribers
                    THEN [feed[c] EXCEPT !.queue = Published(@, m)]
                    ELSE feed[c]]
      /\ UNCHANGED <<silent, page, fetch, view, marred, breaks>>
  BY Constants DEF Publish, IInv, NothingAhead
<1>2. m \in Seen(board') /\ m.hello = FALSE
  BY <1>1 DEF Message, Seen
<1> HIDE DEF m
<1>3. /\ Seen(board) \subseteq Seen(board')
      /\ Feeds(board) \subseteq Feeds(board')
      /\ Seq(Answers(board)) \subseteq Seq(Answers(board'))
  BY <1>1, SeenGrows
<1>4. ASSUME NEW c \in Consoles
      PROVE  feed'[c] \in Feeds(board') /\ Sound(c)'
  <2>1. Sound(c)
    BY IInvByConsole DEF AllSound
  <2>2. /\ feed[c] \in Feeds(board') /\ Len(feed[c].queue) <= QueueLimit
        /\ feed[c].queue \in Seq(Seen(board'))
        /\ feed[c].sending \in Seq(Seen(board'))
        /\ feed[c].socket \in Seq(Seen(board'))
    BY <1>1, <1>3, <2>1, FeedParts DEF Sound, BoundedFor, Feeds
  <2>3. CASE feed[c].subscribed
    <3> DEFINE q == Published(feed[c].queue, m)
               w == feed[c].socket \o feed[c].sending
    <3>1. /\ q \in Seq(Seen(board')) /\ Len(q) \in 1..QueueLimit
          /\ q[Len(q)] = m
      <4>1. PICK S : S = Seen(board')
        OBVIOUS
      <4>2. m \in S /\ feed[c].queue \in Seq(S) /\ Len(feed[c].queue) <= QueueLimit
        BY <1>2, <2>2, <4>1
      <4>3. /\ q \in Seq(S) /\ Len(q) \in 1..QueueLimit
            /\ q[Len(q)] = m
        BY <4>2, PublishedKeeps
      <4> QED BY <4>1, <4>3
    <3> HIDE DEF q
    <3>2. feed'[c] = [feed[c] EXCEPT !.queue = q]
      BY <1>1, <2>3 DEF Subscribers, q
    <3>3. /\ feed'[c] \in Feeds(board') /\ feed'[c].queue = q
          /\ feed'[c].sending = feed[c].sending
          /\ feed'[c].socket = feed[c].socket
          /\ feed'[c].subscribed = feed[c].subscribed
      BY <2>2, <3>1, <3>2 DEF Feeds
    <3>4. w \in Seq(Seen(board'))
      BY <2>2, ConcatProperties
    <3>5. InOrder(feed'[c]) = w \o q
      BY <3>3 DEF InOrder
    <3> HIDE DEF w
    <3> DEFINE z == w \o q
    <3>6. /\ z \in Seq(Seen(board')) /\ Len(z) = Len(w) + Len(q)
          /\ Len(w) \in Nat /\ Len(q) \in Nat \ {0}
          /\ \A i \in 1..(Len(w) + Len(q)) :
               z[i] = IF i <= Len(w) THEN w[i] ELSE q[i - Len(w)]
      BY <3>1, <3>4, ConcatProperties, LenProperties, Constants
    <3> HIDE DEF z
    <3>7. /\ z # <<>> /\ DOMAIN z = 1..Len(z) /\ Len(z) \in Nat \ {0}
          /\ z[Len(z)] = m
      <4>1. Len(z) \in 1..(Len(w) + Len(q)) /\ Len(z) - Len(w) = Len(q)
            /\ ~(Len(z) <= Len(w))
        BY <3>6
      <4>2. z[Len(z)] = m
        BY <3>1, <3>6, <4>1
      <4>3. QED
        BY <3>6, <4>1, <4>2, LenProperties, EmptySeq
    <3>8. HelloFollowedFor(c)'
      <4>1. \A k \in DOMAIN z : z[k].hello => k < Len(z)
        BY <1>2, <3>7
      <4>2. InOrder(feed'[c]) = z
        BY <3>5 DEF z
      <4>3. QED
        BY <4>1, <4>2 DEF HelloFollowedFor
    <3>9. BoundedFor(c)'
      BY <1>1, <2>1, <3>1, <3>3, Constants DEF Sound, BoundedFor
    <3>10. PendingFor(c)'
      BY <3>5, <3>7 DEF PendingFor, z
    <3>11. QED
      BY <1>1, <2>1, <2>3, <3>3, <3>8, <3>9, <3>10 DEF Sound
  <2>4. CASE ~feed[c].subscribed
    <3>1. feed'[c] = feed[c] /\ page[c] # "live"
      BY <1>1, <2>1, <2>4 DEF Subscribers, Sound
    <3>2. HelloFollowedFor(c)'
      <4>1. InOrder(feed'[c]) = <<>>
        BY <2>1, <2>4, <3>1 DEF Sound, NoFeed, InOrder
      <4>2. QED
        BY <4>1 DEF HelloFollowedFor
    <3>3. QED
      BY <1>1, <2>1, <2>2, <3>1, <3>2 DEF Sound, BoundedFor, PendingFor
  <2>5. QED
    BY <2>3, <2>4
<1>5. NothingAhead'
  <2>1. feed' \in [Consoles -> Feeds(board')]
    BY <1>1, <1>4
  <2>2. fetch' \in [Consoles -> Seq(Answers(board'))]
    BY <1>1, <1>3 DEF NothingAhead
  <2>3. view' \in [Consoles -> 0 .. board']
    BY <1>1 DEF NothingAhead
  <2>4. QED
    BY <1>1, <2>1, <2>2, <2>3 DEF NothingAhead
<1>6. AllSound'
  BY <1>4 DEF AllSound
<1>7. QED
  BY <1>5, <1>6, IInvByConsole, PTL

\* An unannounced change leaves everything on the way as it is.
LEMMA RegisterIInv == IInv /\ Register => IInv'
<1> SUFFICES ASSUME IInv, Register PROVE IInv'
  OBVIOUS
<1>1. /\ NothingAhead /\ board \in Nat /\ board' = board + 1
      /\ board < MaxBoard /\ silent < MaxSilent /\ silent' = silent + 1
      /\ UNCHANGED <<announced, feed, page, fetch, view, marred, breaks>>
  BY Constants DEF Register, IInv, NothingAhead
<1>2. /\ Feeds(board) \subseteq Feeds(board')
      /\ Seq(Answers(board)) \subseteq Seq(Answers(board'))
  BY <1>1, SeenGrows
<1>3. NothingAhead'
  <2>1. feed' \in [Consoles -> Feeds(board')]
        /\ fetch' \in [Consoles -> Seq(Answers(board'))]
    BY <1>1, <1>2 DEF NothingAhead
  <2>2. view' \in [Consoles -> 0 .. board'] /\ announced' \in 0 .. board'
    BY <1>1 DEF NothingAhead
  <2>3. board' \in 0 .. MaxBoard /\ silent' \in 0 .. MaxSilent
    BY <1>1, Constants DEF NothingAhead
  <2>4. QED
    BY <1>1, <2>1, <2>2, <2>3 DEF NothingAhead
<1>4. AllSound'
  <2>1. \A c \in Consoles : Sound(c)
    BY IInvByConsole DEF AllSound
  <2>2. \A c \in Consoles : Sound(c)'
    BY <1>1, <2>1, SoundStays
  <2>3. QED
    BY <2>2 DEF AllSound
<1>5. QED
  BY <1>3, <1>4, IInvByConsole, PTL

\* A restart leaves no page live and nothing on the way.
LEMMA RestartIInv == IInv /\ Restart => IInv'
<1> SUFFICES ASSUME IInv, Restart PROVE IInv'
  OBVIOUS
<1>1. /\ NothingAhead /\ board \in Nat /\ board' = board + 1
      /\ announced' = board + 1 /\ board < MaxBoard
      /\ breaks < MaxBreaks /\ breaks' = breaks + 1
      /\ feed' = [c \in Consoles |-> NoFeed]
      /\ fetch' = [c \in Consoles |-> <<>>]
      /\ UNCHANGED <<silent, view, marred>>
  BY Constants DEF Restart, IInv, NothingAhead
<1>2. ASSUME NEW c \in Consoles PROVE page'[c] \in Pages \ {"live"}
  BY <1>1 DEF Restart, NothingAhead, Pages, AfterClose
<1>3. page' = [c \in Consoles |-> page'[c]]
  BY DEF Restart
<1>4. NothingAhead'
  <2>1. feed' \in [Consoles -> Feeds(board')]
        /\ fetch' \in [Consoles -> Seq(Answers(board'))]
    BY <1>1, NoFeedType, EmptySeq
  <2>2. view' \in [Consoles -> 0 .. board'] /\ announced' \in 0 .. board'
    BY <1>1 DEF NothingAhead
  <2>3. board' \in 0 .. MaxBoard /\ breaks' \in 0 .. MaxBreaks
    BY <1>1, Constants DEF NothingAhead
  <2>4. page' \in [Consoles -> Pages]
    BY <1>2, <1>3
  <2>5. QED
    BY <1>1, <2>1, <2>2, <2>3, <2>4 DEF NothingAhead
<1>5. AllSound'
  <2> SUFFICES ASSUME NEW c \in Consoles PROVE Sound(c)'
    BY DEF AllSound
  <2>1. feed'[c] = NoFeed /\ fetch'[c] = <<>> /\ page'[c] # "live"
    BY <1>1, <1>2
  <2>2. InOrder(NoFeed) = <<>>
    BY DEF InOrder, NoFeed
  <2>3. BoundedFor(c)'
    BY <2>1, Constants DEF BoundedFor, NoFeed
  <2>4. QED
    BY <2>1, <2>2, <2>3 DEF Sound, HelloFollowedFor, PendingFor
<1>6. QED
  BY <1>4, <1>5, IInvByConsole, PTL

\* A new feed of one console, on a board that stays: its type and the others.
LEMMA OneFeed ==
  ASSUME IInv, NEW c \in Consoles, NEW g, g \in Feeds(board),
         feed' = [feed EXCEPT ![c] = g],
         UNCHANGED <<board, announced, silent>>
  PROVE  /\ feed'[c] = g
         /\ \A d \in Consoles \ {c} : feed'[d] = feed[d]
         /\ feed' \in [Consoles -> Feeds(board')]
BY DEF IInv, NothingAhead

\* Handing a message to the socket changes nothing of what is on the way.
LEMMA SendIInv ==
  ASSUME IInv, NEW c \in Consoles, Send(c)
  PROVE  IInv'
<1> DEFINE g == [feed[c] EXCEPT !.socket = @ \o feed[c].sending, !.sending = <<>>]
<1>1. /\ NothingAhead /\ Sound(c)
      /\ UNCHANGED <<board, announced, silent, page, fetch, view, marred, breaks>>
  BY IInvByConsole DEF Send, IInv, AllSound
<1>2. /\ feed[c].queue \in Seq(Seen(board)) /\ feed[c].sending \in Seq(Seen(board))
      /\ feed[c].socket \in Seq(Seen(board)) /\ feed[c] \in Feeds(board)
  BY <1>1, FeedParts
<1>3. /\ feed[c].socket \o feed[c].sending \in Seq(Seen(board))
      /\ <<>> \in Seq(Seen(board))
  BY <1>2, ConcatProperties, EmptySeq
<1>4. /\ g \in Feeds(board) /\ g.queue = feed[c].queue /\ g.sending = <<>>
      /\ g.socket = feed[c].socket \o feed[c].sending
      /\ g.subscribed = feed[c].subscribed
  BY <1>2, <1>3 DEF Feeds
<1>5. feed' = [feed EXCEPT ![c] = g]
  BY <1>1, <1>2 DEF Send, NothingAhead, Feeds
<1>6. InOrder(g) = InOrder(feed[c])
  <2>1. (feed[c].socket \o feed[c].sending) \o <<>> =
          feed[c].socket \o feed[c].sending
    BY <1>3, ConcatEmptySeq
  <2>2. QED
    BY <1>4, <2>1 DEF InOrder
<1> HIDE DEF g
<1>7. /\ feed'[c] = g /\ \A d \in Consoles \ {c} : feed'[d] = feed[d]
      /\ feed' \in [Consoles -> Feeds(board')]
  BY <1>1, <1>4, <1>5, OneFeed
<1>8. Sound(c)'
  <2>1. feed[c].subscribed
    BY <1>1 DEF Send, Sound, NoFeed
  <2>2. HelloFollowedFor(c)' /\ (c \in marred' \/ PendingFor(c)')
    BY <1>1, <1>6, <1>7 DEF Sound, HelloFollowedFor, PendingFor
  <2>3. BoundedFor(c)'
    BY <1>1, <1>4, <1>7, EmptySeq DEF Sound, BoundedFor
  <2>4. QED
    BY <1>1, <1>4, <1>7, <2>1, <2>2, <2>3 DEF Sound
<1>9. NothingAhead'
  BY <1>1, <1>7 DEF NothingAhead
<1>10. QED
  BY <1>1, <1>7, <1>8, <1>9, OneConsoleActs

\* Neither does taking the next message off the queue.
LEMMA TakeIInv ==
  ASSUME IInv, NEW c \in Consoles, Take(c)
  PROVE  IInv'
<1> DEFINE q == feed[c].queue
           g == [feed[c] EXCEPT !.sending = <<Head(q)>>, !.queue = Tail(@)]
<1>1. /\ NothingAhead /\ Sound(c)
      /\ UNCHANGED <<board, announced, silent, page, fetch, view, marred, breaks>>
  BY IInvByConsole DEF Take, IInv, AllSound
<1>2. /\ q \in Seq(Seen(board)) /\ feed[c].sending = <<>>
      /\ feed[c].socket \in Seq(Seen(board)) /\ feed[c] \in Feeds(board)
      /\ q # <<>>
  BY <1>1, FeedParts DEF Take
<1>3. /\ Head(q) \in Seen(board) /\ Tail(q) \in Seq(Seen(board))
      /\ Len(Tail(q)) = Len(q) - 1 /\ Len(q) \in Nat
      /\ q = <<Head(q)>> \o Tail(q)
  <2>1. /\ Head(q) \in Seen(board) /\ Tail(q) \in Seq(Seen(board))
        /\ Len(Tail(q)) = Len(q) - 1 /\ Len(q) \in Nat
        /\ \A i \in 1..Len(Tail(q)) : Tail(q)[i] = q[i + 1]
    BY <1>2, HeadTailProperties, LenProperties
  <2>2. q = <<Head(q)>> \o Tail(q)
    BY <1>2, <2>1
  <2>3. QED
    BY <2>1, <2>2
<1>4. <<Head(q)>> \in Seq(Seen(board)) /\ Len(<<Head(q)>>) = 1
  BY <1>3
<1>5. /\ g \in Feeds(board) /\ g.queue = Tail(q) /\ g.sending = <<Head(q)>>
      /\ g.socket = feed[c].socket /\ g.subscribed = feed[c].subscribed
  BY <1>2, <1>3, <1>4 DEF Feeds
<1>6. feed' = [feed EXCEPT ![c] = g]
  BY <1>1, <1>2 DEF Take, NothingAhead, Feeds
<1>7. InOrder(g) = InOrder(feed[c])
  <2>1. (feed[c].socket \o <<Head(q)>>) \o Tail(q) =
          feed[c].socket \o (<<Head(q)>> \o Tail(q))
    <3>1. /\ feed[c].socket \in Seq(Seen(board))
          /\ <<Head(q)>> \in Seq(Seen(board)) /\ Tail(q) \in Seq(Seen(board))
      BY <1>2, <1>3, <1>4
    <3>2. ASSUME NEW x \in Seq(Seen(board)), NEW y \in Seq(Seen(board)),
                 NEW z \in Seq(Seen(board))
          PROVE  (x \o y) \o z = x \o (y \o z)
      BY ConcatAssociative
    <3> HIDE DEF q
    <3>3. QED
      BY <3>1, <3>2, Zenon
  <2>2. (feed[c].socket \o <<>>) \o q = feed[c].socket \o q
    BY <1>2, ConcatEmptySeq
  <2>3. InOrder(g) = (feed[c].socket \o <<Head(q)>>) \o Tail(q)
    BY <1>5 DEF InOrder
  <2>4. InOrder(feed[c]) = (feed[c].socket \o <<>>) \o q
    BY <1>2 DEF InOrder
  <2> HIDE DEF g, q
  <2>5. QED
    BY <1>3, <2>1, <2>2, <2>3, <2>4
<1>8. feed[c].subscribed
  BY <1>1 DEF Take, Sound, NoFeed
<1> HIDE DEF g
<1>9. /\ feed'[c] = g /\ \A d \in Consoles \ {c} : feed'[d] = feed[d]
      /\ feed' \in [Consoles -> Feeds(board')]
  BY <1>1, <1>5, <1>6, OneFeed
<1>10. Sound(c)'
  <2>1. HelloFollowedFor(c)' /\ (c \in marred' \/ PendingFor(c)')
    BY <1>1, <1>7, <1>9 DEF Sound, HelloFollowedFor, PendingFor
  <2>2. BoundedFor(c)'
    <3>1. Len(q) <= QueueLimit /\ Len(fetch[c]) <= MaxFetches
      BY <1>1 DEF Sound, BoundedFor
    <3>2. Len(Tail(q)) <= QueueLimit /\ Len(<<Head(q)>>) <= 1
      BY <1>3, <1>4, <3>1, Constants
    <3> HIDE DEF q
    <3>3. QED
      BY <1>1, <1>5, <1>9, <3>1, <3>2 DEF BoundedFor
  <2>3. QED
    BY <1>1, <1>5, <1>8, <1>9, <2>1, <2>2 DEF Sound
<1>11. NothingAhead'
  BY <1>1, <1>9 DEF NothingAhead
<1>12. QED
  BY <1>1, <1>9, <1>10, <1>11, OneConsoleActs

\* A stream begins with a hello that is up to date.
LEMMA AcceptIInv ==
  ASSUME IInv, NEW c \in Consoles, Accept(c)
  PROVE  IInv'
<1> DEFINE h == Hello(board, announced)
           g == [NoFeed EXCEPT !.subscribed = TRUE, !.sending = <<h>>]
<1>1. /\ NothingAhead /\ Sound(c) /\ board \in Nat /\ announced \in Nat
      /\ page' = [page EXCEPT ![c] = "live"] /\ feed' = [feed EXCEPT ![c] = g]
      /\ UNCHANGED <<board, announced, silent, fetch, view, marred, breaks>>
  BY IInvByConsole, Constants DEF Accept, IInv, AllSound, NothingAhead
<1>2. h \in Seen(board) /\ h.hello = TRUE /\ h.board >= announced
  BY <1>1 DEF Hello, Message, Seen, NothingAhead
<1> HIDE DEF h
<1>3. <<h>> \in Seq(Seen(board)) /\ Len(<<h>>) = 1
  BY <1>2
<1>4. /\ g \in Feeds(board) /\ g.subscribed = TRUE /\ g.queue = <<>>
      /\ g.sending = <<h>> /\ g.socket = <<>>
  <2>1. ASSUME NEW n \in Feeds(board)
        PROVE  LET x == [n EXCEPT !.subscribed = TRUE, !.sending = <<h>>] IN
               /\ x \in Feeds(board) /\ x.subscribed = TRUE
               /\ x.queue = n.queue /\ x.sending = <<h>> /\ x.socket = n.socket
    BY <1>3 DEF Feeds
  <2>2. NoFeed.queue = <<>> /\ NoFeed.socket = <<>>
    BY DEF NoFeed
  <2>3. QED
    BY <2>1, <2>2, NoFeedType, Zenon
<1>5. InOrder(g) = <<h>>
  <2>1. InOrder(g) = (<<>> \o <<h>>) \o <<>>
    BY <1>4 DEF InOrder
  <2>2. QED
    BY <1>3, <2>1
<1> HIDE DEF g
<1>6. /\ feed'[c] = g /\ \A d \in Consoles \ {c} : feed'[d] = feed[d]
      /\ feed' \in [Consoles -> Feeds(board')]
  BY <1>1, <1>4, OneFeed
<1>7. Sound(c)'
  <2>1. <<h>> # <<>> /\ \A k \in DOMAIN <<h>> : <<h>>[k] = h
    BY <1>3
  <2>2. HelloFollowedFor(c)'
    BY <1>1, <1>2, <1>5, <1>6, <2>1 DEF HelloFollowedFor
  <2>3. PendingFor(c)'
    BY <1>5, <1>6, <2>1 DEF PendingFor
  <2>4. BoundedFor(c)'
    <3>1. Len(<<>>) <= QueueLimit /\ Len(<<h>>) <= 1 /\ Len(fetch[c]) <= MaxFetches
      BY <1>1, <1>3, Constants DEF Sound, BoundedFor
    <3>2. QED
      BY <1>1, <1>4, <1>6, <3>1 DEF BoundedFor
  <2>5. QED
    BY <1>4, <1>6, <2>2, <2>3, <2>4 DEF Sound
<1>8. page' \in [Consoles -> Pages]
      /\ \A d \in Consoles \ {c} : page'[d] = page[d]
  BY <1>1 DEF NothingAhead, Pages
<1>9. NothingAhead'
  BY <1>1, <1>6, <1>8 DEF NothingAhead
<1>10. QED
  BY <1>1, <1>6, <1>7, <1>8, <1>9, OneConsoleActs

\* A socket that is cut takes what it carries with it, and the page leaves.
LEMMA CutIInv ==
  ASSUME IInv, NEW c \in Consoles, Cut(c)
  PROVE  IInv'
<1>1. /\ NothingAhead /\ Sound(c) /\ breaks' = breaks + 1 /\ breaks < MaxBreaks
      /\ feed' = [feed EXCEPT ![c] = NoFeed]
      /\ page' = [page EXCEPT ![c] = "reconnecting"]
      /\ UNCHANGED <<board, announced, silent, fetch, view, marred>>
  BY IInvByConsole DEF Cut, IInv, AllSound, AfterClose
<1>2. /\ feed'[c] = NoFeed /\ \A d \in Consoles \ {c} : feed'[d] = feed[d]
      /\ feed' \in [Consoles -> Feeds(board')]
  BY <1>1, NoFeedType, OneFeed
<1>3. /\ page' \in [Consoles -> Pages] /\ page'[c] # "live"
      /\ \A d \in Consoles \ {c} : page'[d] = page[d]
      /\ breaks' \in 0 .. MaxBreaks
  BY <1>1, Constants DEF NothingAhead, Pages
<1>4. Sound(c)'
  <2>1. InOrder(NoFeed) = <<>>
    BY DEF InOrder, NoFeed
  <2>2. BoundedFor(c)'
    BY <1>1, <1>2, Constants DEF Sound, BoundedFor, NoFeed
  <2>3. QED
    BY <1>2, <1>3, <2>1, <2>2 DEF Sound, HelloFollowedFor, PendingFor
<1>5. NothingAhead'
  BY <1>1, <1>2, <1>3 DEF NothingAhead
<1>6. QED
  BY <1>1, <1>2, <1>3, <1>4, <1>5, OneConsoleActs

\* The tail of a concatenation is the concatenation with the tail.
LEMMA TailOfConcat ==
  ASSUME NEW S, NEW s \in Seq(S), NEW t \in Seq(S), s # <<>>
  PROVE  /\ Tail(s) \o t = Tail(s \o t)
         /\ s \o t # <<>> /\ Head(s \o t) = Head(s)
<1> DEFINE w == s \o t
           u == Tail(s)
<1>1. /\ Len(s) \in Nat \ {0} /\ Len(t) \in Nat
      /\ u \in Seq(S) /\ Len(u) = Len(s) - 1
      /\ \A i \in 1..Len(u) : u[i] = s[i + 1]
  BY HeadTailProperties, EmptySeq, LenProperties
<1>2. /\ w \in Seq(S) /\ Len(w) = Len(s) + Len(t)
      /\ \A i \in 1..(Len(s) + Len(t)) :
           w[i] = IF i <= Len(s) THEN s[i] ELSE t[i - Len(s)]
  BY ConcatProperties
<1>3. /\ u \o t \in Seq(S) /\ Len(u \o t) = Len(u) + Len(t)
      /\ \A i \in 1..(Len(u) + Len(t)) :
           (u \o t)[i] = IF i <= Len(u) THEN u[i] ELSE t[i - Len(u)]
  BY <1>1, ConcatProperties
<1> HIDE DEF w, u
<1>4. w # <<>>
  BY <1>1, <1>2, EmptySeq
<1>5. /\ Tail(w) \in Seq(S) /\ Len(Tail(w)) = Len(w) - 1
      /\ \A i \in 1..Len(Tail(w)) : Tail(w)[i] = w[i + 1]
  BY <1>2, <1>4, HeadTailProperties
<1>6. Len(Tail(w)) = Len(u \o t)
  BY <1>1, <1>2, <1>3, <1>5
<1>7. ASSUME NEW i \in 1..Len(Tail(w)) PROVE Tail(w)[i] = (u \o t)[i]
  <2>1. /\ Tail(w)[i] = w[i + 1] /\ i + 1 \in 1..(Len(s) + Len(t))
        /\ i \in 1..(Len(u) + Len(t))
    BY <1>1, <1>2, <1>3, <1>5, <1>6
  <2>2. CASE i <= Len(u)
    BY <1>1, <1>2, <1>3, <2>1, <2>2
  <2>3. CASE ~(i <= Len(u))
    <3>1. w[i + 1] = t[i + 1 - Len(s)] /\ (u \o t)[i] = t[i - Len(u)]
      BY <1>1, <1>2, <1>3, <2>1, <2>3
    <3>2. i + 1 - Len(s) = i - Len(u)
      BY <1>1
    <3>3. QED
      BY <2>1, <3>1, <3>2
  <2>4. QED
    BY <2>2, <2>3
<1>8. Tail(w) = u \o t
  BY <1>3, <1>5, <1>6, <1>7, SeqEqual
<1>9. Head(w) = Head(s)
  <2>1. w[1] = s[1]
    BY <1>1, <1>2
  <2>2. QED
    BY <2>1
<1>10. QED
  BY <1>4, <1>8, <1>9 DEF w, u

\* What AfterShowing answers is a set of consoles, and only c leaves it.
LEMMA AfterShowingType ==
  ASSUME NothingAhead, NEW c \in Consoles, NEW b, NEW right
  PROVE  /\ AfterShowing(c, b, right) \in SUBSET Consoles
         /\ \A d \in Consoles \ {c} :
              d \in marred => d \in AfterShowing(c, b, right)
         /\ b < view[c] => c \in AfterShowing(c, b, right)
BY DEF AfterShowing, NothingAhead

\* A message the page gets is shown when it is a hello, and is the reason to
\* ask for a snapshot when it is not: either way the page is not left behind.
LEMMA ReceiveIInv ==
  ASSUME IInv, NEW c \in Consoles, Receive(c)
  PROVE  IInv'
<1> DEFINE s == feed[c].socket
           m == Head(s)
           g == [feed[c] EXCEPT !.socket = Tail(@)]
           w == InOrder(feed[c])
<1>1. /\ NothingAhead /\ Sound(c) /\ s # <<>>
      /\ feed' = [feed EXCEPT ![c] = g]
      /\ UNCHANGED <<board, announced, silent, page, breaks>>
  BY IInvByConsole DEF Receive, IInv, AllSound, NothingAhead, Feeds
<1>2. /\ s \in Seq(Seen(board)) /\ feed[c].sending \in Seq(Seen(board))
      /\ feed[c].queue \in Seq(Seen(board)) /\ feed[c] \in Feeds(board)
      /\ w \in Seq(Seen(board))
  BY <1>1, FeedParts
<1>3. m \in Seen(board) /\ Tail(s) \in Seq(Seen(board))
  BY <1>1, <1>2, HeadTailProperties
<1>4. /\ g \in Feeds(board) /\ g.socket = Tail(s)
      /\ g.subscribed = feed[c].subscribed
      /\ g.sending = feed[c].sending /\ g.queue = feed[c].queue
  BY <1>2, <1>3 DEF Feeds
<1>5. InOrder(g) = Tail(w) /\ w # <<>> /\ Head(w) = m
  <2>1. /\ Tail(s) \o feed[c].sending = Tail(s \o feed[c].sending)
        /\ s \o feed[c].sending # <<>>
        /\ Head(s \o feed[c].sending) = Head(s)
        /\ s \o feed[c].sending \in Seq(Seen(board))
    BY <1>1, <1>2, TailOfConcat, ConcatProperties
  <2>2. /\ Tail(s \o feed[c].sending) \o feed[c].queue =
             Tail((s \o feed[c].sending) \o feed[c].queue)
        /\ (s \o feed[c].sending) \o feed[c].queue # <<>>
        /\ Head((s \o feed[c].sending) \o feed[c].queue) =
             Head(s \o feed[c].sending)
    BY <1>2, <2>1, TailOfConcat
  <2>3. w = (s \o feed[c].sending) \o feed[c].queue
    BY DEF InOrder
  <2>4. InOrder(g) = (Tail(s) \o feed[c].sending) \o feed[c].queue
    BY <1>4 DEF InOrder
  <2> HIDE DEF w, g, s
  <2>5. QED
    BY <2>1, <2>2, <2>3, <2>4, Zenon
<1> HIDE DEF g, w
<1>6. /\ Len(w) \in Nat \ {0} /\ DOMAIN w = 1..Len(w) /\ w[1] = m
      /\ Len(Tail(w)) = Len(w) - 1 /\ DOMAIN Tail(w) = 1..(Len(w) - 1)
      /\ \A k \in 1..(Len(w) - 1) : Tail(w)[k] = w[k + 1]
      /\ Tail(w) = <<>> <=> Len(w) = 1
  <2>1. /\ Len(w) \in Nat \ {0} /\ DOMAIN w = 1..Len(w) /\ w[1] = m
    BY <1>2, <1>5, LenProperties, EmptySeq
  <2>2. /\ Tail(w) \in Seq(Seen(board)) /\ Len(Tail(w)) = Len(w) - 1
        /\ \A k \in 1..Len(Tail(w)) : Tail(w)[k] = w[k + 1]
    BY <1>2, <1>5, HeadTailProperties
  <2>3. DOMAIN Tail(w) = 1..(Len(w) - 1)
    BY <2>2, LenProperties
  <2>4. Tail(w) = <<>> <=> Len(w) = 1
    <3> DEFINE u == Tail(w)
    <3>1. u \in Seq(Seen(board)) /\ Len(u) = Len(w) - 1
      BY <2>2
    <3> HIDE DEF u
    <3>2. u = <<>> <=> Len(u) = 0
      BY <3>1, EmptySeq
    <3>3. QED
      BY <2>1, <3>1, <3>2 DEF u
  <2>5. QED
    BY <2>1, <2>2, <2>3, <2>4
<1>7. /\ feed'[c] = g /\ \A d \in Consoles \ {c} : feed'[d] = feed[d]
      /\ feed' \in [Consoles -> Feeds(board')]
  BY <1>1, <1>4, OneFeed
<1>8. HelloFollowedFor(c)'
  <2>1. \A k \in DOMAIN w : w[k].hello =>
          w[k].board >= announced \/ k < Len(w)
    BY <1>1 DEF Sound, HelloFollowedFor, w
  <2>2. \A k \in 1..(Len(w) - 1) : Tail(w)[k].hello =>
          Tail(w)[k].board >= announced \/ k < Len(Tail(w))
    <3> SUFFICES ASSUME NEW k \in 1..(Len(w) - 1), w[k + 1].hello
                 PROVE  w[k + 1].board >= announced \/ k < Len(Tail(w))
      BY <1>6
    <3>1. k + 1 \in DOMAIN w
      BY <1>6
    <3>2. QED
      BY <1>6, <2>1, <3>1
  <2>3. InOrder(feed'[c]) = Tail(w)
    BY <1>5, <1>7
  <2>4. QED
    BY <1>1, <1>6, <2>2, <2>3 DEF HelloFollowedFor
<1>9. feed'[c].subscribed /\ (page'[c] = "live" => feed'[c].subscribed)
  BY <1>1, <1>4, <1>7 DEF Sound, NoFeed
<1>10. \/ /\ m.hello
          /\ view' = [view EXCEPT ![c] = m.board]
          /\ marred' = AfterShowing(c, m.board, TRUE)
          /\ UNCHANGED fetch
       \/ /\ ~m.hello
          /\ Len(fetch[c]) < MaxFetches
          /\ fetch' = [fetch EXCEPT ![c] = Append(fetch[c], Unanswered)]
          /\ UNCHANGED <<view, marred>>
  <2>1. fetch \in [Consoles -> Seq(Answers(board))]
    BY <1>1 DEF NothingAhead
  <2>2. QED
    BY <2>1 DEF Receive, AfterMessage
<1>11. BoundedFor(c) /\ Len(feed'[c].queue) <= QueueLimit
       /\ Len(feed'[c].sending) <= 1
  BY <1>1, <1>4, <1>7 DEF Sound, BoundedFor
<1>12. CASE m.hello
  <2>1. /\ view' = [view EXCEPT ![c] = m.board]
        /\ marred' = AfterShowing(c, m.board, TRUE)
        /\ UNCHANGED fetch
    BY <1>10, <1>12
  <2>2. m.board \in 0 .. board
    BY <1>3 DEF Seen
  <2>3. /\ view' \in [Consoles -> 0 .. board] /\ view'[c] = m.board
        /\ \A d \in Consoles \ {c} : view'[d] = view[d]
    BY <1>1, <2>1, <2>2 DEF NothingAhead
  <2>4. /\ marred' \in SUBSET Consoles
        /\ \A d \in Consoles \ {c} : d \in marred => d \in marred'
    BY <1>1, <2>1, AfterShowingType
  <2>5. PendingFor(c)'
    <3>1. m.board >= announced \/ Tail(w) # <<>>
      <4>1. w[1].hello => w[1].board >= announced \/ 1 < Len(w)
        BY <1>1, <1>6 DEF Sound, HelloFollowedFor, w
      <4>2. QED
        BY <1>6, <1>12, <4>1
    <3>2. InOrder(feed'[c]) = Tail(w)
      BY <1>5, <1>7
    <3>3. QED
      BY <1>1, <2>3, <3>1, <3>2 DEF PendingFor
  <2>6. Sound(c)'
    BY <1>8, <1>9, <1>11, <2>1, <2>5 DEF Sound, BoundedFor
  <2>7. NothingAhead'
    BY <1>1, <1>7, <2>1, <2>3, <2>4 DEF NothingAhead
  <2>8. QED
    BY <1>1, <1>7, <2>1, <2>3, <2>4, <2>6, <2>7, OneConsoleActs
<1>13. CASE ~m.hello
  <2> DEFINE r == Append(fetch[c], Unanswered)
  <2>1. /\ Len(fetch[c]) < MaxFetches /\ UNCHANGED <<view, marred>>
        /\ fetch' = [fetch EXCEPT ![c] = r]
    BY <1>10, <1>13
  <2>2. fetch[c] \in Seq(Answers(board)) /\ Unanswered \in Answers(board)
    BY <1>1 DEF NothingAhead, Answers
  <2>3. /\ r \in Seq(Answers(board)) /\ Len(r) = Len(fetch[c]) + 1
        /\ Len(fetch[c]) \in Nat /\ Len(r) \in DOMAIN r
        /\ r[Len(r)] = Unanswered
    BY <2>2, AppendProperties, LenProperties
  <2> HIDE DEF r
  <2>4. /\ fetch' \in [Consoles -> Seq(Answers(board))] /\ fetch'[c] = r
        /\ \A d \in Consoles \ {c} : fetch'[d] = fetch[d]
    BY <1>1, <2>1, <2>3 DEF NothingAhead
  <2>5. PendingFor(c)'
    BY <2>3, <2>4 DEF PendingFor
  <2>6. BoundedFor(c)'
    BY <1>11, <2>1, <2>3, <2>4, Constants DEF BoundedFor
  <2>7. Sound(c)'
    BY <1>8, <1>9, <2>5, <2>6 DEF Sound
  <2>8. NothingAhead'
    BY <1>1, <1>7, <2>1, <2>4 DEF NothingAhead
  <2>9. QED
    BY <1>1, <1>7, <2>1, <2>4, <2>7, <2>8, OneConsoleActs
<1>14. QED
  BY <1>12, <1>13

\* A snapshot taken for a request has all that was announced.
LEMMA AnswerIInv ==
  ASSUME IInv, NEW c \in Consoles, NEW i \in DOMAIN fetch[c], Answer(c, i)
  PROVE  IInv'
<1> DEFINE r == [fetch[c] EXCEPT ![i] = board]
<1>1. /\ NothingAhead /\ Sound(c) /\ announced <= board
      /\ fetch' = [fetch EXCEPT ![c] = r]
      /\ UNCHANGED <<board, announced, silent, feed, page, view, marred, breaks>>
  <2>1. NothingAhead /\ Sound(c)
    BY IInvByConsole DEF IInv, AllSound
  <2>2. announced <= board
    BY <2>1, Constants DEF NothingAhead
  <2>3. fetch' = [fetch EXCEPT ![c] = r]
    BY <2>1 DEF Answer, NothingAhead
  <2>4. QED
    BY <2>1, <2>2, <2>3 DEF Answer, server
<1>2. fetch[c] \in Seq(Answers(board)) /\ board \in Answers(board)
      /\ i \in 1..Len(fetch[c])
  BY <1>1, Constants, LenProperties DEF NothingAhead, Answers
<1>3. /\ r \in Seq(Answers(board)) /\ Len(r) = Len(fetch[c]) /\ r[i] = board
      /\ i \in DOMAIN r
  BY <1>2, ExceptSeq, LenProperties
<1> HIDE DEF r
<1>4. /\ fetch' \in [Consoles -> Seq(Answers(board))] /\ fetch'[c] = r
      /\ \A d \in Consoles \ {c} : fetch'[d] = fetch[d]
  BY <1>1, <1>3 DEF NothingAhead
<1>5. PendingFor(c)'
  BY <1>1, <1>3, <1>4 DEF PendingFor
<1>6. HelloFollowedFor(c)' /\ BoundedFor(c)'
  BY <1>1, <1>3, <1>4 DEF Sound, HelloFollowedFor, BoundedFor
<1>7. Sound(c)'
  BY <1>1, <1>5, <1>6 DEF Sound
<1>8. NothingAhead'
  BY <1>1, <1>4 DEF NothingAhead
<1>9. QED
  BY <1>1, <1>4, <1>7, <1>8, OneConsoleActs

\* Showing a snapshot that is too old either sets the page back, which marks
\* it, or leaves on the way what was on the way.
LEMMA ApplyIInv ==
  ASSUME IInv, NEW c \in Consoles, NEW i \in DOMAIN fetch[c], Apply(c, i)
  PROVE  IInv'
<1> DEFINE v == fetch[c][i]
           r == RemoveAt(fetch[c], i)
<1>1. /\ NothingAhead /\ Sound(c) /\ v # Unanswered
      /\ view' = [view EXCEPT ![c] = v]
      /\ marred' = AfterShowing(c, v, v >= announced)
      /\ fetch' = [fetch EXCEPT ![c] = r]
      /\ page' = [page EXCEPT ![c] = IF @ = "starting" THEN "opening" ELSE @]
      /\ UNCHANGED <<board, announced, silent, feed, breaks>>
  BY IInvByConsole DEF Apply, server, IInv, AllSound
<1>2. fetch[c] \in Seq(Answers(board)) /\ i \in 1..Len(fetch[c])
  BY <1>1, LenProperties DEF NothingAhead
<1>3. v \in 0 .. board
  BY <1>1, <1>2, ElementOfSeq DEF Answers
<1>4. /\ r \in Seq(Answers(board)) /\ Len(r) = Len(fetch[c]) - 1
      /\ \A j \in 1..Len(fetch[c]) : j # i => \E k \in DOMAIN r : r[k] = fetch[c][j]
  BY <1>2, RemoveAtKeeps
<1> HIDE DEF v, r
<1>5. /\ fetch' \in [Consoles -> Seq(Answers(board))] /\ fetch'[c] = r
      /\ \A d \in Consoles \ {c} : fetch'[d] = fetch[d]
  BY <1>1, <1>4 DEF NothingAhead
<1>6. /\ view' \in [Consoles -> 0 .. board] /\ view'[c] = v
      /\ \A d \in Consoles \ {c} : view'[d] = view[d]
  BY <1>1, <1>3 DEF NothingAhead
<1>7. /\ page' \in [Consoles -> Pages]
      /\ page'[c] = "live" => page[c] = "live"
      /\ \A d \in Consoles \ {c} : page'[d] = page[d]
  BY <1>1 DEF NothingAhead, Pages
<1>8. /\ marred' \in SUBSET Consoles
      /\ \A d \in Consoles \ {c} : d \in marred => d \in marred'
      /\ v < view[c] => c \in marred'
      /\ v >= view[c] /\ ~(v >= announced) => (c \in marred => c \in marred')
  BY <1>1, AfterShowingType DEF AfterShowing
<1>9. c \in marred' \/ PendingFor(c)'
  <2>1. CASE v >= announced
    BY <1>1, <1>6, <2>1 DEF PendingFor
  <2>2. CASE v < view[c]
    BY <1>8, <2>2
  <2>3. CASE ~(v >= announced) /\ ~(v < view[c]) /\ c \notin marred'
    <3>1. view[c] \in Int /\ announced \in Int /\ board \in Int
      BY <1>1, Constants DEF NothingAhead
    <3>2. PendingFor(c) /\ ~(view[c] >= announced)
      BY <1>1, <1>3, <1>8, <2>3, <3>1 DEF Sound
    <3>3. CASE page[c] # "live" \/ InOrder(feed[c]) # <<>>
      BY <1>1, <1>7, <3>3 DEF PendingFor
    <3>4. ASSUME NEW j \in DOMAIN fetch[c],
                 fetch[c][j] = Unanswered \/ fetch[c][j] >= announced
          PROVE  PendingFor(c)'
      <4>1. j # i /\ j \in 1..Len(fetch[c])
        BY <1>1, <1>2, <2>3, <3>4, LenProperties DEF v
      <4>2. PICK k \in DOMAIN r : r[k] = fetch[c][j]
        BY <1>4, <4>1
      <4>3. QED
        BY <1>1, <1>5, <3>4, <4>2 DEF PendingFor
    <3>5. QED
      BY <3>2, <3>3, <3>4 DEF PendingFor
  <2>4. QED
    BY <2>1, <2>2, <2>3
<1>10. BoundedFor(c)'
  <2>1. Len(fetch[c]) \in Nat /\ Len(fetch[c]) <= MaxFetches
    BY <1>1, <1>2, LenProperties DEF Sound, BoundedFor
  <2>2. QED
    BY <1>1, <1>4, <1>5, <2>1, Constants DEF Sound, BoundedFor
<1>11. Sound(c)'
  <2>1. HelloFollowedFor(c)'
    BY <1>1 DEF Sound, HelloFollowedFor
  <2>2. QED
    BY <1>1, <1>7, <1>9, <1>10, <2>1 DEF Sound
<1>12. NothingAhead'
  BY <1>1, <1>5, <1>6, <1>7, <1>8 DEF NothingAhead
<1>13. QED
  BY <1>1, <1>5, <1>6, <1>7, <1>8, <1>11, <1>12, OneConsoleActs

\* A request that fails marks its page, or the page is not live.
LEMMA FailIInv ==
  ASSUME IInv, NEW c \in Consoles, NEW i \in DOMAIN fetch[c], Fail(c, i)
  PROVE  IInv'
<1> DEFINE r == RemoveAt(fetch[c], i)
<1>1. /\ NothingAhead /\ Sound(c)
      /\ fetch' = [fetch EXCEPT ![c] = r]
      /\ page' = [page EXCEPT ![c] = IF @ = "starting" THEN "prompt" ELSE @]
      /\ marred' = IF page[c] = "starting" THEN marred ELSE marred \cup {c}
      /\ UNCHANGED <<board, announced, silent, feed, view, breaks>>
  BY IInvByConsole DEF Fail, server, IInv, AllSound
<1>2. fetch[c] \in Seq(Answers(board)) /\ i \in 1..Len(fetch[c])
  BY <1>1, LenProperties DEF NothingAhead
<1>3. r \in Seq(Answers(board)) /\ Len(r) = Len(fetch[c]) - 1
  BY <1>2, RemoveAtKeeps
<1> HIDE DEF r
<1>4. /\ fetch' \in [Consoles -> Seq(Answers(board))] /\ fetch'[c] = r
      /\ \A d \in Consoles \ {c} : fetch'[d] = fetch[d]
  BY <1>1, <1>3 DEF NothingAhead
<1>5. /\ page' \in [Consoles -> Pages]
      /\ page'[c] = "live" => page[c] = "live"
      /\ page[c] = "starting" => page'[c] = "prompt"
      /\ \A d \in Consoles \ {c} : page'[d] = page[d]
  BY <1>1 DEF NothingAhead, Pages
<1>6. /\ marred' \in SUBSET Consoles
      /\ \A d \in Consoles \ {c} : d \in marred => d \in marred'
  BY <1>1 DEF NothingAhead
<1>7. c \in marred' \/ PendingFor(c)'
  BY <1>1, <1>5 DEF PendingFor
<1>8. BoundedFor(c)'
  <2>1. Len(fetch[c]) \in Nat /\ Len(fetch[c]) <= MaxFetches
    BY <1>1, <1>2, LenProperties DEF Sound, BoundedFor
  <2>2. QED
    BY <1>1, <1>3, <1>4, <2>1, Constants DEF Sound, BoundedFor
<1>9. Sound(c)'
  <2>1. HelloFollowedFor(c)'
    BY <1>1 DEF Sound, HelloFollowedFor
  <2>2. QED
    BY <1>1, <1>5, <1>7, <1>8, <2>1 DEF Sound
<1>10. NothingAhead'
  BY <1>1, <1>4, <1>5, <1>6 DEF NothingAhead
<1>11. QED
  BY <1>1, <1>4, <1>5, <1>6, <1>9, <1>10, OneConsoleActs

\* A page that starts, or opens a stream, is not live.
LEMMA EnterConnectIInv ==
  ASSUME IInv, NEW c \in Consoles, Enter(c) \/ Connect(c)
  PROVE  IInv'
<1>1. /\ NothingAhead /\ Sound(c)
      /\ \/ /\ page' = [page EXCEPT ![c] = "starting"]
            /\ fetch' = [fetch EXCEPT ![c] = <<Unanswered>>]
         \/ /\ page' = [page EXCEPT ![c] = "opening"]
            /\ UNCHANGED fetch
      /\ UNCHANGED <<board, announced, silent, feed, view, marred, breaks>>
  BY IInvByConsole DEF Enter, Connect, server, IInv, AllSound
<1>2. <<Unanswered>> \in Seq(Answers(board)) /\ Len(<<Unanswered>>) = 1
  BY DEF Answers
<1>3. /\ page' \in [Consoles -> Pages] /\ page'[c] # "live"
      /\ \A d \in Consoles \ {c} : page'[d] = page[d]
  BY <1>1 DEF NothingAhead, Pages
<1>4. /\ fetch' \in [Consoles -> Seq(Answers(board))]
      /\ Len(fetch'[c]) <= MaxFetches
      /\ \A d \in Consoles \ {c} : fetch'[d] = fetch[d]
  <2>1. Len(fetch[c]) <= MaxFetches /\ Len(<<Unanswered>>) <= MaxFetches
    BY <1>1, <1>2, Constants DEF Sound, BoundedFor
  <2>2. fetch \in [Consoles -> Seq(Answers(board))]
    BY <1>1 DEF NothingAhead
  <2> DEFINE u == <<Unanswered>>
  <2>3. u \in Seq(Answers(board)) /\ Len(u) <= MaxFetches
    BY <1>2, <2>1
  <2> HIDE DEF u
  <2>4. fetch' = fetch \/ fetch' = [fetch EXCEPT ![c] = u]
    BY <1>1 DEF u
  <2>5. QED
    BY <2>1, <2>2, <2>3, <2>4
<1>5. Sound(c)'
  BY <1>1, <1>3, <1>4 DEF Sound, BoundedFor, HelloFollowedFor, PendingFor
<1>6. NothingAhead'
  BY <1>1, <1>3, <1>4 DEF NothingAhead
<1>7. QED
  BY <1>1, <1>3, <1>4, <1>5, <1>6, OneConsoleActs

\* Every step preserves the invariant.
LEMMA NextIInv == IInv /\ [Next]_vars => IInv'
<1> SUFFICES ASSUME IInv, [Next]_vars PROVE IInv'
  OBVIOUS
<1>1. CASE UNCHANGED vars
  BY <1>1 DEF vars, IInv, NothingAhead, Bounded, LiveIsSubscribed,
     HelloFollowed, BehindMeansPending
<1>2. ASSUME NEW c \in Consoles, Send(c) \/ Take(c) \/ Accept(c) \/ Cut(c)
      PROVE  IInv'
  BY <1>2, SendIInv, TakeIInv, AcceptIInv, CutIInv
<1>3. ASSUME NEW c \in Consoles, Receive(c) \/ Enter(c) \/ Connect(c)
      PROVE  IInv'
  BY <1>3, ReceiveIInv, EnterConnectIInv
<1>4. ASSUME NEW c \in Consoles, NEW i \in DOMAIN fetch[c],
             Answer(c, i) \/ Apply(c, i) \/ Fail(c, i)
      PROVE  IInv'
  BY <1>4, AnswerIInv, ApplyIInv, FailIInv
<1>5. QED
  BY <1>1, <1>2, <1>3, <1>4, PublishIInv, RegisterIInv, RestartIInv DEF Next

\* The invariant holds throughout.
LEMMA ConsoleInvariant == Spec => []IInv
BY InitIInv, NextIInv, PTL DEF Spec

(***************************************************************************)
(* The theorems.                                                           *)
(***************************************************************************)

\* Every variable keeps its type; no subscriber's queue outgrows its limit and
\* nothing on the way is ahead of the board (ProctorHub.publish).
THEOREM TypeCorrect == Spec => []TypeOK
<1>1. IInv => TypeOK
  <2> SUFFICES ASSUME IInv PROVE TypeOK
    OBVIOUS
  <2>1. board \in Nat /\ board <= MaxBoard /\ MaxBoard \in Nat
    BY Constants DEF IInv, NothingAhead
  <2>2. Seen(board) \subseteq Messages
    BY <2>1 DEF Seen, Messages
  <2>3. ASSUME NEW c \in Consoles, NEW k \in DOMAIN InOrder(feed[c])
        PROVE  InOrder(feed[c])[k] \in Messages
    <3>1. InOrder(feed[c]) \in Seq(Seen(board))
      BY FeedParts DEF IInv
    <3> DEFINE w == InOrder(feed[c])
    <3> HIDE DEF w
    <3>2. w \in Seq(Seen(board)) => \A j \in DOMAIN w : w[j] \in Seen(board)
      BY LenProperties
    <3>3. QED
      BY <2>2, <2>3, <3>1, <3>2 DEF w
  <2>4. ASSUME NEW c \in Consoles, NEW i \in DOMAIN fetch[c]
        PROVE  fetch[c][i] \in {Unanswered} \cup 0 .. board
    <3>1. fetch[c] \in Seq(Answers(board))
      BY DEF IInv, NothingAhead
    <3>2. QED
      BY <2>4, <3>1, LenProperties DEF Answers
  <2>5. QED
    BY <2>3, <2>4 DEF IInv, NothingAhead, Bounded, TypeOK
<1>2. QED
  BY <1>1, ConsoleInvariant, PTL

\* A live page that is behind an announced change has on the way what brings
\* it up to date, whatever a full queue dropped, unless one of its requests
\* failed or was overtaken (publish dropping the oldest message, the hello of
\* proctor_stream, refresh on every message).
THEOREM NothingIsMissed == Spec => []BehindMeansPending
<1>1. IInv => BehindMeansPending
  BY DEF IInv
<1>2. QED
  BY <1>1, ConsoleInvariant, PTL

\* Hub, stream and page implement the view of the board that BoardView
\* promises, but for its fairness: no page shows what has not happened, and a
\* page goes back only when it is excused.
THEOREM ImplementsBoardView == Spec => View!Spec
<1> DEFINE W == {c \in Consoles : page[c] = "prompt"} \cup marred
<1>1. Init => View!Init
  BY DEF Init, View!Init
<1>2. IInv /\ IInv' /\ [Next]_vars => [View!Next]_(View!vars)
  <2> SUFFICES ASSUME IInv, IInv', [Next]_vars
               PROVE  View!Next \/ UNCHANGED View!vars
    OBVIOUS
  <2>0. W' \in SUBSET Consoles
    BY DEF IInv, NothingAhead
  <2> HIDE DEF W
  <2>1. ASSUME UNCHANGED <<board, announced, view>> PROVE View!Ask
    BY <2>0, <2>1 DEF View!Ask, W
  <2>2. ASSUME board' = board + 1, announced' \in {announced, board + 1},
               UNCHANGED view
        PROVE  View!Change
    BY <2>0, <2>2 DEF View!Change, W
  <2>3. ASSUME NEW c \in Consoles, NEW v \in 0 .. board,
               view' = [view EXCEPT ![c] = v], v < view[c] => c \in marred',
               UNCHANGED <<board, announced>>
        PROVE  View!Show(c) \/ View!Fall(c)
    <3>1. view[c] \in Int /\ board \in Int
      BY Constants DEF IInv, NothingAhead
    <3>2. CASE v < view[c]
      <4>1. c \in W'
        BY <2>3, <3>2 DEF W
      <4>2. View!ShowFrom(c, 0)
        BY <2>0, <2>3 DEF View!ShowFrom, W
      <4>3. QED
        BY <4>1, <4>2 DEF View!Fall, W
    <3>3. CASE ~(v < view[c])
      <4>1. v \in view[c] .. board
        BY <2>3, <3>1, <3>3
      <4>2. QED
        BY <2>0, <2>3, <4>1 DEF View!Show, View!ShowFrom, W
    <3>4. QED
      BY <3>2, <3>3
  <2>4. ASSUME NEW c \in Consoles, Receive(c)
        PROVE  View!Ask \/ View!Show(c) \/ View!Fall(c)
    <3> DEFINE m == Head(feed[c].socket)
    <3>1. NothingAhead /\ m.board \in 0 .. board
      <4>1. feed[c].socket \in Seq(Seen(board)) /\ feed[c].socket # <<>>
        BY <2>4, FeedParts DEF IInv, Receive
      <4>2. m \in Seen(board)
        BY <4>1, HeadTailProperties
      <4>3. QED
        BY <4>2 DEF Seen, IInv
    <3>2. \/ UNCHANGED <<board, announced, view>>
          \/ /\ view' = [view EXCEPT ![c] = m.board]
             /\ marred' = AfterShowing(c, m.board, TRUE)
             /\ UNCHANGED <<board, announced>>
      BY <2>4 DEF Receive
    <3> HIDE DEF m
    <3>3. QED
      BY <2>1, <2>3, <3>1, <3>2, AfterShowingType
  <2>5. ASSUME NEW c \in Consoles, NEW i \in DOMAIN fetch[c], Apply(c, i)
        PROVE  View!Show(c) \/ View!Fall(c)
    <3> DEFINE v == fetch[c][i]
    <3>1. NothingAhead /\ v \in 0 .. board
      <4>1. fetch[c] \in Seq(Answers(board)) /\ v # Unanswered
        BY <2>5 DEF IInv, NothingAhead, Apply
      <4>2. v \in Answers(board)
        BY <2>5, <4>1, LenProperties
      <4>3. QED
        BY <4>1, <4>2 DEF Answers, IInv
    <3>2. /\ view' = [view EXCEPT ![c] = v]
          /\ marred' = AfterShowing(c, v, v >= announced)
          /\ UNCHANGED <<board, announced>>
      BY <2>5 DEF Apply, server
    <3> HIDE DEF v
    <3>3. QED
      BY <2>3, <3>1, <3>2, AfterShowingType
  <2>6. ASSUME Publish \/ Register \/ Restart PROVE View!Change
    BY <2>2, <2>6 DEF Publish, Register, Restart
  <2>7. ASSUME NEW c \in Consoles,
               \/ Send(c) \/ Take(c) \/ Connect(c) \/ Accept(c) \/ Enter(c)
               \/ Cut(c)
               \/ \E i \in DOMAIN fetch[c] : Answer(c, i) \/ Fail(c, i)
        PROVE  View!Ask
    BY <2>1, <2>7 DEF Send, Take, Connect, Accept, Enter, Cut, Answer, Fail,
                      server
  <2>8. CASE UNCHANGED vars
    BY <2>1, <2>8 DEF vars, View!Next
  <2>9. QED
    BY <2>4, <2>5, <2>6, <2>7, <2>8 DEF Next, View!Next
<1>3. QED
  BY <1>1, <1>2, ConsoleInvariant, PTL DEF Spec, View!Spec

============================================================================
