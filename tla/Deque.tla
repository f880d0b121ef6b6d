------------------------------- MODULE Deque -------------------------------
(***************************************************************************)
(* collections.deque with a maxlen, as a sequence: verifier.py, monitor.py.*)
(***************************************************************************)
EXTENDS Integers, SequencesExt

\* list(q)[-n:]
LastOf(q, n) == SubSeq(q, Len(q) - Min({n, Len(q)}) + 1, Len(q))

\* q.append(x), which drops the oldest element of a full deque.
Pushed(q, x, maxlen) == LastOf(Append(q, x), maxlen)

============================================================================
