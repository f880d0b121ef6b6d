---------------------------- MODULE BoardView ----------------------------
(***************************************************************************)
(* What the triage board promises its consoles.  The board is the number   *)
(* of changes made to it; a console shows the board as it was after some   *)
(* number of them, never shows what has not happened, moves only forward,  *)
(* and does not stay behind an announced change.  A console that waits,    *)
(* for its user or to be set right, is excused from the last two.          *)
(***************************************************************************)
EXTENDS Integers

CONSTANT Consoles

VARIABLES
  board,     \* changes made
  announced, \* the newest change consoles are told of
  view,      \* what each console shows
  waiting    \* the consoles that are excused

vars == <<board, announced, view, waiting>>

Init ==
  /\ board = 0
  /\ announced = 0
  /\ view = [c \in Consoles |-> 0]
  /\ waiting = {}

Change ==
  /\ board' = board + 1
  /\ announced' \in {announced, board + 1}
  /\ waiting' \in SUBSET Consoles
  /\ UNCHANGED view

ShowFrom(c, low) ==
  /\ \E v \in low .. board : view' = [view EXCEPT ![c] = v]
  /\ waiting' \in SUBSET Consoles
  /\ UNCHANGED <<board, announced>>

Show(c) == ShowFrom(c, view[c])

Fall(c) == ShowFrom(c, 0) /\ c \in waiting'

CatchUp(c) ==
  /\ view[c] < announced
  /\ c \notin waiting
  /\ ShowFrom(c, announced)

Ask ==
  /\ waiting' \in SUBSET Consoles
  /\ UNCHANGED <<board, announced, view>>

Next == Change \/ Ask \/ \E c \in Consoles : Show(c) \/ Fall(c)

Spec == Init /\ [][Next]_vars
FairSpec == Spec /\ \A c \in Consoles : WF_vars(CatchUp(c))
==========================================================================
