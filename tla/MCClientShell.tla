-------------------------- MODULE MCClientShell --------------------------
(* Small instances of the exam shell for TLC. *)
EXTENDS ClientShell

\* Two pages that use up their warnings; pages and main at close quarters.
TwoCourses ==
  {[loads |-> 1, attempts |-> 6, reports |-> 0, restarts |-> 1],
   [loads |-> 1, attempts |-> 1, reports |-> 2, restarts |-> 0]}
==========================================================================
