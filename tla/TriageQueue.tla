--------------------------- MODULE TriageQueue ---------------------------
(***************************************************************************)
(* The order of the proctors' work queue (triage.py): a score per session  *)
(* that flags raise and time halves, computed on read, what a restart      *)
(* restores of it from the store (app.py), and the two places that sort by *)
(* it, the board and the page (console.js).                                *)
(*                                                                         *)
(* Time is counted in half-lives and scores in parts of Unit, so that      *)
(* halving is exact for as long as the runs look; the decay between two    *)
(* half-lives is left out.                                                 *)
(***************************************************************************)
EXTENDS Integers, SequencesExt

CONSTANTS
  Sessions,  \* session ids, numbers for the sake of their order
  Ceiling,   \* SCORE_CEILING
  RestoredPerSession, \* RESTORED_VIOLATIONS_PER_SESSION
  MaxNow,    \* bounds: half-lives,
  MaxRows,   \*         rows of a session,
  RowTimes,  \*         the half-lives at which one is stored,
  MaxRestarts

Unit == 2 ^ 12

ASSUME QueueAssumption ==
  /\ Sessions \subseteq Nat
  /\ Ceiling \in Nat \ {0}
  /\ MaxNow \in 0 .. 12 \* halving stays exact
  /\ {RestoredPerSession, MaxRows, MaxRestarts} \subseteq Nat
  /\ RowTimes \subseteq Nat

VARIABLES
  now,
  board,     \* _score, _score_at_ms and connected, per session
  rows,      \* table violations, per session, oldest first
  capped,    \* history: sessions whose score met the ceiling,
  unread,    \*          rows of a session the last start did not read
  restarts

vars == <<now, board, rows, capped, unread, restarts>>

\* What a row adds to a score: SEVERITY_WEIGHT for a firing.  Nothing for an
\* INFO firing or for a resolution, which are rows like any other.
Weights == {0, 3, 10}

NewTriage == [score |-> 0, at |-> 0, connected |-> FALSE]

---------------------------------------------------------------------------
(* Mutated forms.                                                          *)

\* A new flag is added to the score as it was stored.
FlaggedUndecayed(t, w, time) ==
  IF w = 0 THEN t ELSE [t EXCEPT !.score = @ + w * Unit, !.at = time]

\* The replay of a restart takes the time of the restart for a row's own.
RowTimeNow(r) == now

---------------------------------------------------------------------------
(* The score.                                                              *)

Halved(x, n) == x \div 2 ^ n

\* score(): what is left, nothing at 0.01 and below.
Left(t, time) ==
  LET decayed == Halved(t.score, time - t.at) IN
  IF decayed * 100 > Unit THEN decayed ELSE 0

\* add_violation; a row of weight zero leaves the score alone.
Flagged(t, w, time) ==
  IF w = 0 THEN t
  ELSE LET sum == Left(t, time) + w * Unit IN
       [t EXCEPT !.score = IF sum < Ceiling * Unit THEN sum ELSE Ceiling * Unit,
                 !.at = time]

\* recorded_ms, which the replay gives record_violation.
RowTime(r) == r.at

\* The rows after the first n.
From(q, n) == SubSeq(q, n + 1, Len(q))

\* load_violations: how many of a session's rows are too old for its limit,
\* and the newest that are not, oldest first.
LeftOut(q) ==
  IF Len(q) > RestoredPerSession THEN Len(q) - RestoredPerSession ELSE 0

\* Mutated form of Newest: one row fewer.
NewestLessOne(q) == From(q, LeftOut(q) + 1)

Newest(q) == From(q, LeftOut(q))

\* _restore: rows replayed on a session that comes back disconnected.
Replayed(q) ==
  FoldLeft(LAMBDA t, r : Flagged(t, r.weight, RowTime(r)), NewTriage, q)

Score(s) == Left(board[s], now)

---------------------------------------------------------------------------
(* The queue.                                                              *)

\* ordered(): the key (-score, connected, session_id).
BoardOrder(s, t) ==
  \/ Score(s) > Score(t)
  \/ /\ Score(s) = Score(t)
     /\ \/ ~board[s].connected /\ board[t].connected
        \/ board[s].connected = board[t].connected /\ s < t

\* as_dict: round(score, 2), in hundredths.
Rounded(x) == (x * 100 + Unit \div 2) \div Unit

\* Mutated form of PageOrder: by the score alone, and not stably.
PageOrderUnstable(s, t) ==
  \/ Rounded(Score(s)) > Rounded(Score(t))
  \/ Rounded(Score(s)) = Rounded(Score(t)) /\ s < t

\* renderQueue sorts the snapshot again, by the rounded score and connected;
\* the sort is stable.
PageOrder(s, t) ==
  LET p == Rounded(Score(s))
      q == Rounded(Score(t))
  IN
  \/ p > q
  \/ /\ p = q
     /\ \/ ~board[s].connected /\ board[t].connected
        \/ board[s].connected = board[t].connected /\ BoardOrder(s, t)

---------------------------------------------------------------------------

Init ==
  /\ now = 0
  /\ board = [s \in Sessions |-> NewTriage]
  /\ rows = [s \in Sessions |-> <<>>]
  /\ capped = {}
  /\ unread = [s \in Sessions |-> 0]
  /\ restarts = 0

\* record_violation and append_violation: a firing or, with weight zero, a
\* resolution or an INFO firing.
Flag(s, w) ==
  /\ Len(rows[s]) < MaxRows /\ now \in RowTimes
  /\ board' = [board EXCEPT ![s] = Flagged(@, w, now)]
  /\ rows' = [rows EXCEPT ![s] = Append(@, [weight |-> w, at |-> now])]
  /\ capped' = IF Score(s) + w * Unit > Ceiling * Unit
               THEN capped \cup {s} ELSE capped
  /\ UNCHANGED <<now, unread, restarts>>

\* stream_connected, stream_disconnected.
Connection(s) ==
  /\ board' = [board EXCEPT ![s].connected = ~@]
  /\ UNCHANGED <<now, rows, capped, unread, restarts>>

Pass ==
  /\ now < MaxNow
  /\ now' = now + 1
  /\ UNCHANGED <<board, rows, capped, unread, restarts>>

\* The death of the process and _restore by the next one.  (The purge that
\* comes before it is in module Monitors.)
Restart ==
  /\ restarts < MaxRestarts
  /\ restarts' = restarts + 1
  /\ board' = [s \in Sessions |-> Replayed(Newest(rows[s]))]
  /\ unread' = [s \in Sessions |-> LeftOut(rows[s])]
  /\ UNCHANGED <<now, rows, capped>>

Next ==
  \/ Pass
  \/ Restart
  \/ \E s \in Sessions : Connection(s) \/ \E w \in Weights : Flag(s, w)

Spec == Init /\ [][Next]_vars

---------------------------------------------------------------------------
(* Properties.                                                             *)

\* The type invariant: the score never exceeds its ceiling.
TypeOK ==
  /\ now \in 0 .. MaxNow
  /\ restarts \in 0 .. MaxRestarts
  /\ capped \subseteq Sessions
  /\ \A s \in Sessions :
       /\ board[s] \in [score : 0 .. Ceiling * Unit, at : 0 .. now,
                        connected : BOOLEAN]
       /\ \A i \in DOMAIN rows[s] :
            rows[s][i] \in [weight : Weights, at : 0 .. now]
       /\ unread[s] \in 0 .. Len(rows[s])

\* What the rows this process has read or stored are worth now, added up.
Worth(s) ==
  FoldLeft(LAMBDA x, r : x + Halved(r.weight * Unit, now - r.at), 0,
           From(rows[s], unread[s]))

\* "It is a recency-weighted count of flags" (triage.py): a score that is
\* decayed only when it is read or added to is the sum of the flags, each
\* decayed from its own time, of the newest rows there were at the last start
\* and of all since; below the ceiling it lacks at most what the cutoff at 0.01
\* drops per row.
ScoreIsWeightedCount ==
  \A s \in Sessions :
    /\ Score(s) <= Worth(s)
    /\ s \notin capped =>
         (Worth(s) - Score(s)) * 100 <= Unit * (Len(rows[s]) - unread[s] + 1)

\* A row of s that carries weight and that the next start is the first not to
\* read.
Forgotten(s) ==
  \E i \in DOMAIN rows[s] :
    /\ unread[s] < i /\ i <= Len(rows[s]) - RestoredPerSession
    /\ rows[s][i].weight # 0

\* A restart gives every session the score it had, whatever time has passed
\* since its flags, and never a higher one: it takes from a score only with
\* flags that RestoredPerSession newer rows are behind.
RestartKeepsScores ==
  [][restarts' # restarts =>
       \A s \in Sessions :
         /\ Score(s)' <= Score(s)
         /\ ~Forgotten(s) => Score(s)' = Score(s)]_vars

\* "All ranking happens server-side" (console.js), but the page sorts again, by
\* the rounded score: it keeps the board's order, and turns round at most two
\* sessions whose scores round to the same hundredth, to show first the one
\* that is disconnected.
PageFollowsBoard ==
  \A s, t \in Sessions :
    BoardOrder(s, t) /\ ~PageOrder(s, t)
      => /\ Rounded(Score(s)) = Rounded(Score(t))
         /\ board[s].connected /\ ~board[t].connected

===========================================================================
