-------------------------- MODULE FlagLifecycle --------------------------
(***************************************************************************)
(* What a rule of the policy promises the rest of the gateway, whatever    *)
(* its timers: flags of one rule on one session open one at a time, under  *)
(* an id nothing else carries, and are resolved under that id.  This is    *)
(* what TriageBoard relies on to close a flag ("a resolution closes the    *)
(* open flag") and what Gateway takes for the answers of the rule.         *)
(***************************************************************************)
EXTENDS Naturals, Sequences

VARIABLES
  open, \* id of the open flag, 0 when there is none
  log   \* what was published, in order

Entry(id, resolved) == [id |-> id, resolved |-> resolved]

Init == open = 0 /\ log = <<>>

Fire ==
  /\ open = 0
  /\ open' = Len(log) + 1
  /\ log' = Append(log, Entry(Len(log) + 1, FALSE))

Resolve ==
  /\ open # 0
  /\ open' = 0
  /\ log' = Append(log, Entry(open, TRUE))

Next == Fire \/ Resolve

Spec == Init /\ [][Next]_<<open, log>>

==========================================================================
