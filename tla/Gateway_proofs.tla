-------------------------- MODULE Gateway_proofs --------------------------
(***************************************************************************)
(* What the gateway keeps for any number of sessions, sockets, frames,     *)
(* crashes and restarts.                                                   *)
(***************************************************************************)
EXTENDS Gateway, SequenceTheorems, FiniteSetTheorems, TLAPS

(***************************************************************************)
(* The stream-integrity check: what its operators return, and which way    *)
(* they move a session.                                                    *)
(***************************************************************************)
\* The assumptions on the constants, one by one.
LEMMA IntegrityConstants ==
  /\ SkewTolerance \in Nat
  /\ BreachCooldown \in Nat
  /\ MaxRecordedBreaches \in Nat
BY IntegrityAssumption DEF IntegrityAssumption

\* A session as create makes it is a session.
LEMMA NewSessionType == NewSession \in Session
BY DEF NewSession, Session, None

\* What to_record stores is a session, with nothing of the stream changed.
LEMMA ToRecordKeeps ==
  ASSUME NEW x \in Session
  PROVE  /\ ToRecord(x) \in Session
         /\ ToRecord(x).last_seq = x.last_seq
         /\ ToRecord(x).last_monotonic_ms = x.last_monotonic_ms
         /\ ToRecord(x).ended_cleanly = x.ended_cleanly
         /\ ToRecord(x).integrity_breaches = x.integrity_breaches
         /\ ToRecord(x).breach_counts = x.breach_counts
BY NewSessionType DEF ToRecord, Session

\* The check moves the position and the clock of the stream forward only, and
\* touches neither the breaches nor the end of the exam.
LEMMA CheckedAdvances ==
  ASSUME NEW x \in Session, NEW f, f.seq \in Nat, f.ts_monotonic_ms \in Nat,
         NEW t \in Nat
  PROVE  /\ Checked(x, f, t) \in Session
         /\ Checked(x, f, t).last_seq >= x.last_seq
         /\ Checked(x, f, t).last_monotonic_ms >= x.last_monotonic_ms
         /\ IF IsFirst(x, f)
            THEN /\ Checked(x, f, t).first_client_ms = f.ts_monotonic_ms
                 /\ Checked(x, f, t).first_server_ms = t
            ELSE /\ Checked(x, f, t).first_client_ms = x.first_client_ms
                 /\ Checked(x, f, t).first_server_ms = x.first_server_ms
         /\ Checked(x, f, t).ended_cleanly = x.ended_cleanly
         /\ Checked(x, f, t).integrity_breaches = x.integrity_breaches
         /\ Checked(x, f, t).breach_counts = x.breach_counts
         /\ Advances(x, f) =>
              /\ Checked(x, f, t).last_seq = f.seq
              /\ Checked(x, f, t).last_monotonic_ms = f.ts_monotonic_ms
<1>1. CASE ~Advances(x, f)
  BY <1>1 DEF Checked, Session, IsFirst, InOrder
<1>2. CASE Advances(x, f)
  <2>1. f.seq > x.last_seq /\ f.ts_monotonic_ms >= x.last_monotonic_ms
    BY <1>2 DEF Advances, IsReplay, IsRewound, Session
  <2> DEFINE c == IF IsFirst(x, f) THEN f.ts_monotonic_ms
                  ELSE x.first_client_ms
             v == IF IsFirst(x, f) THEN t ELSE x.first_server_ms
  <2>2. c \in Int /\ v \in Int
    BY DEF Session
  <2>3. Checked(x, f, t) =
          [last_seq |-> f.seq, last_monotonic_ms |-> f.ts_monotonic_ms,
           first_client_ms |-> c, first_server_ms |-> v,
           events_received |-> x.events_received + 1,
           connected |-> x.connected, ended_cleanly |-> x.ended_cleanly,
           integrity_breaches |-> x.integrity_breaches,
           breach_counts |-> x.breach_counts,
           breach_last_ms |-> x.breach_last_ms]
    BY <1>2 DEF Checked, Session
  <2> HIDE DEF c, v
  <2>4. x.last_seq \in Int /\ x.last_monotonic_ms \in Int
        /\ x.events_received + 1 \in Nat
    BY DEF Session
  <2>5. Checked(x, f, t) \in Session
    BY <2>2, <2>3, <2>4 DEF Session
  <2>6. /\ Checked(x, f, t).last_seq = f.seq
        /\ Checked(x, f, t).last_monotonic_ms = f.ts_monotonic_ms
        /\ Checked(x, f, t).ended_cleanly = x.ended_cleanly
        /\ Checked(x, f, t).integrity_breaches = x.integrity_breaches
        /\ Checked(x, f, t).breach_counts = x.breach_counts
        /\ Checked(x, f, t).first_client_ms = c
        /\ Checked(x, f, t).first_server_ms = v
    BY <2>3 DEF Session
  <2>7. QED
    BY <1>2, <2>1, <2>4, <2>5, <2>6 DEF c, v
<1>3. QED
  BY <1>1, <1>2

\* A breach is one more log entry up to the cap, one closing entry after it.
LEMMA LoggedType ==
  ASSUME NEW log \in Seq(Breach \cup {Suppressed}), NEW b \in Breach
  PROVE  /\ Logged(log, b) \in Seq(Breach \cup {Suppressed})
         /\ Len(Logged(log, b)) =
              IF Len(log) > MaxRecordedBreaches THEN Len(log) ELSE Len(log) + 1
BY IntegrityConstants, AppendProperties DEF Logged

\* A breach adds one to its count and touches nothing of the stream.
LEMMA BreachedCounts ==
  ASSUME NEW x \in Session, NEW b \in Breach, NEW t \in Nat
  PROVE  /\ Breached(x, b, t) \in Session
         /\ Breached(x, b, t).last_seq = x.last_seq
         /\ Breached(x, b, t).last_monotonic_ms = x.last_monotonic_ms
         /\ Breached(x, b, t).first_client_ms = x.first_client_ms
         /\ Breached(x, b, t).first_server_ms = x.first_server_ms
         /\ Breached(x, b, t).ended_cleanly = x.ended_cleanly
         /\ Breached(x, b, t).integrity_breaches =
              Logged(x.integrity_breaches, b)
         /\ Breached(x, b, t).breach_counts =
              [x.breach_counts EXCEPT ![b] = @ + 1]
<1>1. Logged(x.integrity_breaches, b) \in Seq(Breach \cup {Suppressed})
  BY LoggedType DEF Session
<1>2. [x.breach_counts EXCEPT ![b] = @ + 1] \in [Breach -> Nat]
  BY DEF Session
<1>3. [x.breach_last_ms EXCEPT ![b] = IF Reportable(x, b, t) THEN t ELSE @]
        \in [Breach -> Int]
  BY DEF Session
<1>4. QED
  BY <1>1, <1>2, <1>3 DEF Breached, Session

(***************************************************************************)
(* The gateway.                                                            *)
(***************************************************************************)

\* The assumptions on the constants, one by one.
LEMMA Constants ==
  /\ NoSession \notin Sessions
  /\ Clients \subseteq Nat
  /\ Payloads \subseteq PayloadKinds
  /\ MaxGap \in Nat /\ SilenceCooldown \in Nat /\ MaxSeq \in Nat
  /\ RestoredPerSession \in Nat
  /\ MaxFrames \in Nat /\ MaxAttaches \in Nat /\ MaxCrashes \in Nat
  /\ MaxClock \in Nat \ {0}
BY GatewayAssumption DEF GatewayAssumption

(***************************************************************************)
(* The flags a sequence of violations leaves open.                         *)
(***************************************************************************)

\* A flag is open after a replay when some row opens it and none after closes it.
LEMMA OpenInMember ==
  ASSUME NEW vs, NEW id
  PROVE  id \in OpenIn(vs) <=>
           \E i \in DOMAIN vs : vs[i].violation_id = id /\ LeavesOpen(vs, i)
BY DEF OpenIn, LeavesOpen

\* Replaying nothing opens nothing.
LEMMA OpenInEmpty == OpenIn(<<>>) = {}
BY OpenInMember

\* The open flags of a board entry are violation ids.
LEMMA OpenAfterType ==
  ASSUME NEW open \in SUBSET Nat, NEW vs \in Seq(Violation)
  PROVE  OpenAfter(open, vs) \in SUBSET Nat /\ OpenIn(vs) \in SUBSET Nat
<1>1. \A i \in DOMAIN vs : vs[i].violation_id \in Nat
  <2>1. \A i \in DOMAIN vs : vs[i] \in Violation
    BY LenProperties
  <2>2. QED
    BY <2>1 DEF Violation
<1>2. OpenIn(vs) \subseteq Nat
  <2> SUFFICES ASSUME NEW id \in OpenIn(vs) PROVE id \in Nat
    OBVIOUS
  <2>1. PICK i \in DOMAIN vs : vs[i].violation_id = id
    BY OpenInMember
  <2>2. QED
    BY <1>1, <2>1, Zenon
<1>3. QED
  BY <1>2 DEF OpenAfter

\* A violation published live and a row replayed at a restart do the same to
\* the board: replaying rows and then one handler's publications is replaying
\* them all (record_violation called from publish and from _restore).
LEMMA ReplayExtends ==
  ASSUME NEW r \in Seq(Violation), NEW vs \in Seq(Violation)
  PROVE  OpenAfter(OpenIn(r), vs) = OpenIn(r \o vs)
<1> DEFINE w == r \o vs
           m == Len(r)
<1>1. /\ m \in Nat /\ Len(vs) \in Nat
      /\ DOMAIN r = 1..m /\ DOMAIN vs = 1..Len(vs) /\ DOMAIN w = 1..(m + Len(vs))
      /\ \A i \in 1..m : w[i] = r[i]
      /\ \A i \in 1..Len(vs) : w[m + i] = vs[i]
  BY LenProperties, ConcatProperties
<1> HIDE DEF w, m
<1>2. ASSUME NEW id, id \in OpenIn(w) PROVE id \in OpenAfter(OpenIn(r), vs)
  <2>1. PICK i \in 1..(m + Len(vs)) : w[i].violation_id = id /\ LeavesOpen(w, i)
    BY <1>1, <1>2, OpenInMember
  <2>2. CASE i \in 1..m
    <3>1. r[i].violation_id = id /\ LeavesOpen(r, i)
      BY <1>1, <2>1, <2>2 DEF LeavesOpen
    <3>2. \A j \in 1..Len(vs) : vs[j].violation_id = id => ~vs[j].resolved
      <4> SUFFICES ASSUME NEW j \in 1..Len(vs), vs[j].violation_id = id
                   PROVE  ~vs[j].resolved
        OBVIOUS
      <4>1. m + j \in 1..(m + Len(vs)) /\ m + j > i /\ w[m + j] = vs[j]
        BY <1>1, <2>2
      <4>2. QED
        BY <1>1, <2>1, <4>1 DEF LeavesOpen
    <3>3. id \in OpenIn(r)
      BY <1>1, <2>2, <3>1, OpenInMember
    <3>4. QED
      BY <1>1, <3>2, <3>3 DEF OpenAfter
  <2>3. CASE i \notin 1..m
    <3>1. i - m \in 1..Len(vs) /\ w[i] = vs[i - m]
      BY <1>1, <2>3
    <3>2. LeavesOpen(vs, i - m)
      <4> SUFFICES ASSUME NEW j \in 1..Len(vs), j > i - m,
                          vs[j].violation_id = id
                   PROVE  ~vs[j].resolved
        BY <1>1, <2>1, <3>1 DEF LeavesOpen
      <4>1. m + j \in 1..(m + Len(vs)) /\ m + j > i /\ w[m + j] = vs[j]
        BY <1>1, <3>1
      <4>2. QED
        BY <1>1, <2>1, <4>1 DEF LeavesOpen
    <3>3. id \in OpenIn(vs)
      BY <1>1, <2>1, <3>1, <3>2, OpenInMember
    <3>4. QED
      BY <3>3 DEF OpenAfter
  <2>4. QED
    BY <2>2, <2>3
<1>3. ASSUME NEW id, id \in OpenAfter(OpenIn(r), vs) PROVE id \in OpenIn(w)
  <2>1. CASE id \in OpenIn(vs)
    <3>1. PICK i \in 1..Len(vs) : vs[i].violation_id = id /\ LeavesOpen(vs, i)
      BY <1>1, <2>1, OpenInMember
    <3>2. m + i \in 1..(m + Len(vs)) /\ w[m + i] = vs[i]
      BY <1>1
    <3>3. LeavesOpen(w, m + i)
      <4> SUFFICES ASSUME NEW j \in 1..(m + Len(vs)), j > m + i,
                          w[j].violation_id = id
                   PROVE  ~w[j].resolved
        BY <1>1, <3>1, <3>2 DEF LeavesOpen
      <4>0. j - m \in 1..Len(vs) /\ j - m > i /\ m + (j - m) = j
        BY <1>1, <3>1
      <4>1. j - m \in 1..Len(vs) /\ j - m > i /\ w[j] = vs[j - m]
        BY <1>1, <4>0
      <4>2. QED
        BY <1>1, <3>1, <4>1 DEF LeavesOpen
    <3>4. QED
      BY <1>1, <3>1, <3>2, <3>3, OpenInMember
  <2>2. CASE id \notin OpenIn(vs)
    <3>1. /\ id \in OpenIn(r)
          /\ \A j \in 1..Len(vs) : vs[j].violation_id = id => ~vs[j].resolved
      BY <1>1, <1>3, <2>2 DEF OpenAfter
    <3>2. PICK i \in 1..m : r[i].violation_id = id /\ LeavesOpen(r, i)
      BY <1>1, <3>1, OpenInMember
    <3>3. i \in 1..(m + Len(vs)) /\ w[i] = r[i]
      BY <1>1
    <3>4. LeavesOpen(w, i)
      <4> SUFFICES ASSUME NEW j \in 1..(m + Len(vs)), j > i,
                          w[j].violation_id = id
                   PROVE  ~w[j].resolved
        BY <1>1, <3>2, <3>3 DEF LeavesOpen
      <4>1. CASE j \in 1..m
        BY <1>1, <3>2, <4>1 DEF LeavesOpen
      <4>2. CASE j \notin 1..m
        <5>1. j - m \in 1..Len(vs) /\ w[j] = vs[j - m]
          BY <1>1, <4>2
        <5>2. QED
          BY <3>1, <5>1
      <4>3. QED
        BY <4>1, <4>2
    <3>5. QED
      BY <1>1, <3>2, <3>3, <3>4, OpenInMember
  <2>3. QED
    BY <2>1, <2>2
<1>4. QED
  BY <1>2, <1>3 DEF w

\* What the board shows open of the rows vs in the process run `boot`: nothing
\* they do not leave open, and all of it that run raised or that is recent.
Shows(open, vs, boot) ==
  /\ open \subseteq OpenIn(vs)
  /\ \A i \in DOMAIN vs :
       /\ LeavesOpen(vs, i)
       /\ vs[i].boot = boot \/ i > Len(vs) - RestoredPerSession
       => vs[i].violation_id \in open

\* No flags, no rows.
LEMMA ShowsNothing ==
  ASSUME NEW boot
  PROVE  Shows({}, <<>>, boot)
BY OpenInEmpty DEF Shows

\* Recording the violations a handler publishes keeps the board to the rows.
LEMMA ShowsOn ==
  ASSUME NEW r \in Seq(Violation), NEW vs \in Seq(Violation), NEW boot,
         NEW open, Shows(open, r, boot)
  PROVE  Shows(OpenAfter(open, vs), r \o vs, boot)
<1> DEFINE w == r \o vs
           m == Len(r)
           n == Len(vs)
<1>1. /\ m \in Nat /\ n \in Nat /\ Len(w) = m + n
      /\ DOMAIN r = 1..m /\ DOMAIN vs = 1..n /\ DOMAIN w = 1..(m + n)
      /\ \A i \in 1..m : w[i] = r[i]
      /\ \A i \in 1..n : w[m + i] = vs[i]
  BY LenProperties, ConcatProperties
<1>2. OpenAfter(OpenIn(r), vs) = OpenIn(w)
  BY ReplayExtends
<1> HIDE DEF w, m, n
<1>3. OpenAfter(open, vs) \subseteq OpenIn(w)
  BY <1>2 DEF Shows, OpenAfter
<1>4. ASSUME NEW i \in 1..(m + n), LeavesOpen(w, i),
             w[i].boot = boot \/ i > (m + n) - RestoredPerSession
      PROVE  w[i].violation_id \in OpenAfter(open, vs)
  <2>1. CASE i \in 1..m
    <3>1. LeavesOpen(r, i)
      BY <1>1, <1>4, <2>1 DEF LeavesOpen
    <3>2. r[i].boot = boot \/ i > m - RestoredPerSession
      BY <1>1, <1>4, <2>1, Constants
    <3>3. r[i].violation_id \in open
      BY <1>1, <2>1, <3>1, <3>2 DEF Shows, m
    <3>4. ASSUME NEW j \in 1..n, vs[j].violation_id = r[i].violation_id
          PROVE  ~vs[j].resolved
      <4>1. m + j \in 1..(m + n) /\ m + j > i /\ w[m + j] = vs[j]
        BY <1>1, <2>1
      <4>2. QED
        BY <1>1, <1>4, <2>1, <3>4, <4>1 DEF LeavesOpen
    <3>5. QED
      BY <1>1, <2>1, <3>3, <3>4 DEF OpenAfter
  <2>2. CASE i \notin 1..m
    <3>1. i - m \in 1..n /\ w[i] = vs[i - m]
      BY <1>1, <2>2
    <3>2. LeavesOpen(vs, i - m)
      <4> SUFFICES ASSUME NEW j \in 1..n, j > i - m,
                          vs[j].violation_id = w[i].violation_id
                   PROVE  ~vs[j].resolved
        BY <1>1, <1>4, <3>1 DEF LeavesOpen
      <4>1. m + j \in 1..(m + n) /\ m + j > i /\ w[m + j] = vs[j]
        BY <1>1, <3>1
      <4>2. QED
        BY <1>1, <1>4, <4>1 DEF LeavesOpen
    <3>3. w[i].violation_id \in OpenIn(vs)
      BY <1>1, <3>1, <3>2, OpenInMember
    <3>4. QED
      BY <3>3 DEF OpenAfter
  <2>3. QED
    BY <2>1, <2>2
<1>5. QED
  BY <1>1, <1>3, <1>4 DEF Shows, w

\* What _restore replays: the newest rows, in their order.
LEMMA NewestRows ==
  ASSUME NEW r \in Seq(Violation)
  PROVE  \E k \in Nat :
           /\ Newest(r) \in Seq(Violation)
           /\ k =< Len(r) /\ Len(Newest(r)) = Len(r) - k
           /\ \A i \in 1..(Len(r) - k) : Newest(r)[i] = r[k + i]
           /\ \A i \in 1..Len(r) : i > Len(r) - RestoredPerSession => i > k
<1>1. PICK m \in Nat : m = Len(r)
  BY LenProperties
<1>2. PICK k \in Nat :
        /\ k =< m
        /\ k = IF m > RestoredPerSession THEN m - RestoredPerSession ELSE 0
  <2>1. CASE m > RestoredPerSession
    <3>1. m - RestoredPerSession \in Nat /\ m - RestoredPerSession =< m
      BY <2>1, Constants
    <3>2. QED
      BY <2>1, <3>1
  <2>2. CASE ~(m > RestoredPerSession)
    BY <2>2
  <2>3. QED
    BY <2>1, <2>2
<1>3. Newest(r) = SubSeq(r, k + 1, m)
  <2>1. k + 1 = IF m > RestoredPerSession THEN m - RestoredPerSession + 1 ELSE 1
    BY <1>2, Constants
  <2>2. QED
    BY <1>1, <2>1 DEF Newest
<1>4. /\ SubSeq(r, k + 1, m) \in Seq(Violation)
      /\ Len(SubSeq(r, k + 1, m)) = m - k
      /\ \A i \in 1..(m - k) : SubSeq(r, k + 1, m)[i] = r[k + i]
  BY <1>1, <1>2
<1>5. \A i \in 1..m : i > m - RestoredPerSession => i > k
  BY <1>1, <1>2, Constants
<1>6. QED
  BY <1>1, <1>2, <1>3, <1>4, <1>5

\* A restart shows what the rows leave open, of the newest, in a run of the
\* process that has raised none of them.
LEMMA ShowsRestored ==
  ASSUME NEW r \in Seq(Violation), NEW boot, \A i \in DOMAIN r : r[i].boot # boot
  PROVE  Shows(OpenIn(Newest(r)), r, boot)
<1>1. PICK m \in Nat : m = Len(r) /\ DOMAIN r = 1..m
  BY LenProperties
<1>2. PICK k \in Nat :
        /\ Newest(r) \in Seq(Violation)
        /\ k =< m /\ Len(Newest(r)) = m - k
        /\ \A i \in 1..(m - k) : Newest(r)[i] = r[k + i]
        /\ \A i \in 1..m : i > m - RestoredPerSession => i > k
  BY <1>1, NewestRows
<1>3. PICK v : v = Newest(r)
  OBVIOUS
<1>4. DOMAIN v = 1..(m - k) /\ \A i \in 1..(m - k) : v[i] = r[k + i]
  BY <1>2, <1>3, LenProperties
<1>5. ASSUME NEW id \in OpenIn(v) PROVE id \in OpenIn(r)
  <2>1. PICK i \in 1..(m - k) : v[i].violation_id = id /\ LeavesOpen(v, i)
    BY <1>4, OpenInMember
  <2>2. k + i \in 1..m /\ r[k + i] = v[i]
    BY <1>2, <1>4
  <2>3. LeavesOpen(r, k + i)
    <3> SUFFICES ASSUME NEW j \in 1..m, j > k + i, r[j].violation_id = id
                 PROVE  ~r[j].resolved
      BY <1>1, <2>1, <2>2 DEF LeavesOpen
    <3>1. j - k \in 1..(m - k) /\ j - k > i /\ k + (j - k) = j
      BY <1>2
    <3>2. v[j - k] = r[j]
      BY <1>4, <3>1
    <3>3. QED
      BY <1>4, <2>1, <3>1, <3>2 DEF LeavesOpen
  <2>4. QED
    BY <1>1, <2>1, <2>2, <2>3, OpenInMember
<1>6. ASSUME NEW i \in 1..m, LeavesOpen(r, i), i > m - RestoredPerSession
      PROVE  r[i].violation_id \in OpenIn(v)
  <2>1. i - k \in 1..(m - k) /\ k + (i - k) = i
    BY <1>2, <1>6
  <2>2. v[i - k] = r[i]
    BY <1>4, <2>1
  <2>3. LeavesOpen(v, i - k)
    <3> SUFFICES ASSUME NEW j \in 1..(m - k), j > i - k,
                        v[j].violation_id = r[i].violation_id
                 PROVE  ~v[j].resolved
      BY <1>4, <1>6, <2>1, <2>2 DEF LeavesOpen
    <3>1. k + j \in 1..m /\ k + j > i /\ r[k + j] = v[j]
      BY <1>2, <1>4, <2>1
    <3>2. QED
      BY <1>1, <1>6, <3>1 DEF LeavesOpen
  <2>4. QED
    BY <1>4, <2>1, <2>2, <2>3, OpenInMember
<1>7. QED
  BY <1>1, <1>3, <1>5, <1>6 DEF Shows

(***************************************************************************)
(* The parts a handler changes: what they return.                          *)
(***************************************************************************)
\* The fields of a frame have their types.
LEMMA FrameParts ==
  ASSUME NEW f \in Frame
  PROVE  f.seq \in 0..MaxSeq /\ f.seq \in Nat /\ f.ts_monotonic_ms \in Nat
<1>1. MaxSeq \in Nat /\ Clients \subseteq Nat
  BY Constants
<1>2. f.seq \in 0..MaxSeq /\ f.ts_monotonic_ms \in Clients
  BY DEF Frame
<1>3. 0..MaxSeq \subseteq Nat
  BY <1>1
<1>4. QED
  BY <1>1, <1>2, <1>3, Zenon

\* The violations a frame publishes are violations.
LEMMA RaisedType ==
  ASSUME TypeOK, NEW id \in Nat, NEW rule \in RuleIds, NEW over \in BOOLEAN
  PROVE  Raised(id, rule, over) \in Violation
<1>1. now \in Nat /\ crashes \in Nat
  BY Constants DEF TypeOK
<1>2. QED
  BY <1>1 DEF Raised, Violation

\* A fresh id is a positive number, so not the mark of a rule without a flag.
LEMMA FreshIdType ==
  ASSUME TypeOK, NEW s \in Sessions
  PROVE  FreshId(s) \in Nat
<1>1. rows[s] \in Seq(Violation)
  BY DEF TypeOK
<1>2. Len(rows[s]) \in Nat
  BY <1>1, LenProperties
<1>3. QED
  BY <1>2 DEF FreshId

\* One row is a sequence of rows.
LEMMA OneRow ==
  ASSUME NEW v \in Violation
  PROVE  <<v>> \in Seq(Violation) /\ Len(<<v>>) = 1 /\ <<v>>[1] = v
OBVIOUS

\* What a breach publishes are violations.
LEMMA BreachRowsType ==
  ASSUME TypeOK, NEW s \in Sessions, NEW x, NEW b \in Breach
  PROVE  BreachRows(s, x, b) \in Seq(Violation)
<1>1. Raised(FreshId(s), b, FALSE) \in Violation
  BY FreshIdType, RaisedType DEF RuleIds
<1>2. <<Raised(FreshId(s), b, FALSE)>> \in Seq(Violation)
  BY <1>1, OneRow
<1>3. CASE Reportable(x, b, now)
  BY <1>2, <1>3 DEF BreachRows
<1>4. CASE ~Reportable(x, b, now)
  <2>1. BreachRows(s, x, b) = <<>>
    BY <1>4 DEF BreachRows
  <2>2. QED
    BY <2>1
<1>5. QED
  BY <1>3, <1>4

\* What the check reports are breaches.
LEMMA VerdictsType ==
  ASSUME NEW x, NEW f
  PROVE  Verdicts(x, f) \subseteq Breach
BY DEF Verdicts, BreachesOf, Breach

\* The breach part of a frame's publications are violations.
LEMMA BreachPartType ==
  ASSUME TypeOK, NEW s \in Sessions, NEW f
  PROVE  BreachPart(s, f) \in Seq(Violation)
<1> DEFINE v == Verdicts(sessions[s], f)
<1>1. CASE v = {}
  BY <1>1 DEF BreachPart
<1>2. CASE v # {}
  <2>1. (CHOOSE b \in v : TRUE) \in Breach
    BY <1>2, VerdictsType
  <2>2. PICK b \in Breach : BreachPart(s, f) = BreachRows(s, sessions[s], b)
    BY <1>2, <2>1 DEF BreachPart
  <2>3. QED
    BY <2>2, BreachRowsType
<1>3. QED
  BY <1>1, <1>2

\* What a rule answers are violations, of a flag with a positive id.
LEMMA RuleAnswersType ==
  ASSUME TypeOK, NEW s \in Sessions, NEW f, NEW id \in Nat,
         NEW a \in RuleAnswers(s, f, id)
  PROVE  /\ a \in Seq(Violation)
         /\ a # <<>> => a[1] \in Violation
<1>1. engine[s].active_violation_id \in Nat
  BY DEF TypeOK, EngineSession
<1>2. /\ Raised(id, PolicyRule, FALSE) \in Violation
      /\ Raised(engine[s].active_violation_id, PolicyRule, TRUE) \in Violation
  BY <1>1, RaisedType DEF RuleIds
<1>3. \/ a = <<>>
      \/ a = <<Raised(id, PolicyRule, FALSE)>>
      \/ a = <<Raised(engine[s].active_violation_id, PolicyRule, TRUE)>>
  BY DEF RuleAnswers
<1>4. CASE a = <<>>
  BY <1>4
<1>5. CASE a = <<Raised(id, PolicyRule, FALSE)>>
  BY <1>2, <1>5, OneRow
<1>6. CASE a = <<Raised(engine[s].active_violation_id, PolicyRule, TRUE)>>
  BY <1>2, <1>6, OneRow
<1>7. QED
  BY <1>3, <1>4, <1>5, <1>6

\* What a frame publishes: its breach, then the rule's answer.
LEMMA PublicationsType ==
  ASSUME TypeOK, NEW s \in Sessions, NEW f, NEW vs \in Publications(s, f)
  PROVE  /\ vs \in Seq(Violation)
         /\ AnswerIn(s, f, vs) # <<>> => AnswerIn(s, f, vs)[1] \in Violation
<1> DEFINE p == BreachPart(s, f)
<1>1. p \in Seq(Violation)
  BY BreachPartType
<1>2. Len(p) \in Nat /\ FreshId(s) + Len(p) \in Nat
  BY <1>1, LenProperties, FreshIdType
<1>3. PICK a \in RuleAnswers(s, f, FreshId(s) + Len(p)) : vs = p \o a
  BY DEF Publications
<1>4. a \in Seq(Violation) /\ (a # <<>> => a[1] \in Violation)
  BY <1>2, <1>3, RuleAnswersType
<1> HIDE DEF p
<1>5. vs \in Seq(Violation)
  BY <1>1, <1>3, <1>4
<1>6. AnswerIn(s, f, vs) \in Seq(Violation)
  BY <1>2, <1>5 DEF AnswerIn, p
<1>7. QED
  BY <1>5, <1>6

\* One more breach is one more log entry up to the cap.
LEMMA BreachedMatches ==
  ASSUME NEW x \in Session, NEW b \in Breach, NEW t \in Nat,
         LogMatchesCounts(x)
  PROVE  LogMatchesCounts(Breached(x, b, t))
<1> DEFINE g == x.breach_counts
           h == [g EXCEPT ![b] = @ + 1]
           y == Breached(x, b, t)
<1>1. g \in [Breach -> Nat]
      /\ x.integrity_breaches \in Seq(Breach \cup {Suppressed})
  BY DEF Session
<1>2. y.breach_counts = h /\ y.integrity_breaches = Logged(x.integrity_breaches, b)
  BY BreachedCounts
<1>3. Sum5(h) = Sum5(g) + 1 /\ Sum5(g) \in Nat
  <2>1. /\ g[Replay] \in Nat /\ g[SequenceGap] \in Nat /\ g[ClockSkew] \in Nat
        /\ g[BadSignature] \in Nat /\ g[Abandoned] \in Nat
    BY <1>1 DEF Breach
  <2>2. \A a \in Breach : h[a] = IF a = b THEN g[a] + 1 ELSE g[a]
    BY <1>1
  <2>3. /\ h[Replay] = IF b = Replay THEN g[Replay] + 1 ELSE g[Replay]
        /\ h[SequenceGap] =
             IF b = SequenceGap THEN g[SequenceGap] + 1 ELSE g[SequenceGap]
        /\ h[ClockSkew] =
             IF b = ClockSkew THEN g[ClockSkew] + 1 ELSE g[ClockSkew]
        /\ h[BadSignature] =
             IF b = BadSignature THEN g[BadSignature] + 1 ELSE g[BadSignature]
        /\ h[Abandoned] =
             IF b = Abandoned THEN g[Abandoned] + 1 ELSE g[Abandoned]
    BY <2>2 DEF Breach
  <2>4. /\ Replay # SequenceGap /\ Replay # ClockSkew
        /\ Replay # BadSignature /\ Replay # Abandoned
        /\ SequenceGap # ClockSkew /\ SequenceGap # BadSignature
        /\ SequenceGap # Abandoned
        /\ ClockSkew # BadSignature /\ ClockSkew # Abandoned
        /\ BadSignature # Abandoned
    BY DEF Replay, SequenceGap, ClockSkew, BadSignature, Abandoned
  <2>5. \/ b = Replay \/ b = SequenceGap \/ b = ClockSkew
        \/ b = BadSignature \/ b = Abandoned
    BY DEF Breach
  <2> HIDE DEF g, h
  <2>6. QED
    BY <2>1, <2>3, <2>4, <2>5 DEF Sum5
<1>4. /\ Len(y.integrity_breaches) =
           IF Len(x.integrity_breaches) > MaxRecordedBreaches
           THEN Len(x.integrity_breaches) ELSE Len(x.integrity_breaches) + 1
      /\ Len(x.integrity_breaches) \in Nat
  BY <1>1, <1>2, LoggedType, LenProperties
<1> HIDE DEF h, y
<1>5. QED
  BY <1>2, <1>3, <1>4, IntegrityConstants DEF LogMatchesCounts, g, y

\* What a frame does to the session it is for.
LEMMA FrameSession ==
  ASSUME TypeOK, NEW s \in Sessions, NEW f \in Frame
  PROVE  LET x == SessionAfter(s, f) IN
         /\ x \in Session
         /\ x.last_seq >= sessions[s].last_seq
         /\ x.last_monotonic_ms >= sessions[s].last_monotonic_ms
         /\ \A b \in Breach : x.breach_counts[b] >= sessions[s].breach_counts[b]
         /\ sessions[s].ended_cleanly => x.ended_cleanly
         /\ f.signed /\ Advances(sessions[s], f) => x.last_seq = f.seq
         /\ LogMatchesCounts(sessions[s]) => LogMatchesCounts(x)
<1> DEFINE o == sessions[s]
           y == IF f.signed THEN Checked(o, f, now) ELSE o
           v == Verdicts(o, f)
           z == AfterCheck(s, f)
<1>1. o \in Session /\ now \in Nat
  BY Constants DEF TypeOK
<1>2. /\ y \in Session
      /\ y.last_seq >= o.last_seq /\ y.last_monotonic_ms >= o.last_monotonic_ms
      /\ y.breach_counts = o.breach_counts
      /\ y.integrity_breaches = o.integrity_breaches
      /\ y.ended_cleanly = o.ended_cleanly
      /\ f.signed /\ Advances(o, f) => y.last_seq = f.seq
  <2>1. CASE f.signed
    BY <1>1, <2>1, FrameParts, CheckedAdvances
  <2>2. CASE ~f.signed
    BY <1>1, <2>2 DEF Session
  <2>3. QED
    BY <2>1, <2>2
<1>3. \/ z = y
      \/ \E b \in Breach : z = Breached(y, b, now)
  <2>1. CASE v = {}
    BY <2>1 DEF AfterCheck
  <2>2. CASE v # {}
    <3>1. (CHOOSE b \in v : TRUE) \in Breach
      BY <2>2, VerdictsType
    <3>2. QED
      BY <2>2, <3>1 DEF AfterCheck
  <2>3. QED
    BY <2>1, <2>2
<1> HIDE DEF o, y, v, z
<1>4. LogMatchesCounts(o) => LogMatchesCounts(y)
  BY <1>2 DEF LogMatchesCounts
<1>5. \A b \in Breach : y.breach_counts[b] \in Nat
  BY <1>2 DEF Session
<1>6. /\ z \in Session
      /\ z.last_seq = y.last_seq /\ z.last_monotonic_ms = y.last_monotonic_ms
      /\ z.ended_cleanly = y.ended_cleanly
      /\ \A b \in Breach : z.breach_counts[b] >= y.breach_counts[b]
      /\ LogMatchesCounts(y) => LogMatchesCounts(z)
  <2>1. CASE z = y
    BY <1>2, <1>5, <2>1
  <2>2. CASE \E b \in Breach : z = Breached(y, b, now)
    <3> PICK b \in Breach : z = Breached(y, b, now)
      BY <2>2
    <3>1. y.breach_counts \in [Breach -> Nat]
      BY <1>2 DEF Session
    <3>2. \A a \in Breach : [y.breach_counts EXCEPT ![b] = @ + 1][a]
                               >= y.breach_counts[a]
      BY <3>1
    <3>3. QED
      <4>1. /\ z \in Session
            /\ z.last_seq = y.last_seq
            /\ z.last_monotonic_ms = y.last_monotonic_ms
            /\ z.ended_cleanly = y.ended_cleanly
            /\ z.breach_counts = [y.breach_counts EXCEPT ![b] = @ + 1]
        BY <1>1, <1>2, BreachedCounts
      <4>2. LogMatchesCounts(y) => LogMatchesCounts(z)
        BY <1>1, <1>2, BreachedMatches
      <4>3. QED
        BY <3>2, <4>1, <4>2
  <2>3. QED
    BY <1>3, <2>1, <2>2
<1>7. SessionAfter(s, f) =
        [z EXCEPT !.ended_cleanly = z.ended_cleanly \/ Ends(s, f)]
  BY DEF SessionAfter, z
<1>8. (z.ended_cleanly \/ Ends(s, f)) \in BOOLEAN
  OBVIOUS
<1>9. /\ SessionAfter(s, f) \in Session
      /\ SessionAfter(s, f).last_seq = z.last_seq
      /\ SessionAfter(s, f).last_monotonic_ms = z.last_monotonic_ms
      /\ SessionAfter(s, f).breach_counts = z.breach_counts
      /\ SessionAfter(s, f).integrity_breaches = z.integrity_breaches
      /\ SessionAfter(s, f).ended_cleanly = (z.ended_cleanly \/ Ends(s, f))
  BY <1>6, <1>7, <1>8 DEF Session
<1>10. LogMatchesCounts(o) => LogMatchesCounts(SessionAfter(s, f))
  BY <1>4, <1>6, <1>9 DEF LogMatchesCounts
<1>11. \A b \in Breach : /\ SessionAfter(s, f).breach_counts[b] >= o.breach_counts[b]
  BY <1>2, <1>6, <1>9
<1>12. QED
  BY <1>2, <1>6, <1>9, <1>10, <1>11 DEF o

\* The engine's entry of a session keeps its type under each of its operations.
LEMMA EngineTypes ==
  ASSUME TypeOK, NEW s \in Sessions, NEW f, NEW yes \in BOOLEAN, NEW t \in Nat
  PROVE  /\ OpenedEngine(t) \in EngineSession
         /\ EngineConnected(engine[s], yes) \in EngineSession
         /\ EngineConnected(OpenedEngine(t), yes) \in EngineSession
         /\ \A vs \in Publications(s, f) :
              EngineAfter(s, f, AnswerIn(s, f, vs)) \in EngineSession
<1>1. engine[s] \in EngineSession /\ now \in Nat
  BY Constants DEF TypeOK
<1>2. OpenedEngine(t) \in EngineSession
  BY DEF OpenedEngine, EngineSession, None, NoFlag
<1>3. ASSUME NEW e \in EngineSession
      PROVE  EngineConnected(e, yes) \in EngineSession
  <2> DEFINE fired == IF yes THEN None ELSE e.liveness_last_fired_ms
  <2>1. fired \in Int
    BY DEF EngineSession, None
  <2>2. EngineConnected(e, yes) =
          [e EXCEPT !.connected = yes, !.liveness_last_fired_ms = fired]
    BY DEF EngineConnected, EngineSession
  <2> HIDE DEF fired
  <2>3. QED
    BY <2>1, <2>2 DEF EngineSession
<1>4. ASSUME NEW vs \in Publications(s, f)
      PROVE  EngineAfter(s, f, AnswerIn(s, f, vs)) \in EngineSession
  <2> DEFINE a == AnswerIn(s, f, vs)
             id == IF a = <<>> THEN engine[s].active_violation_id
                   ELSE IF a[1].resolved THEN NoFlag ELSE a[1].violation_id
             t1 == IF IsEvaluated(s, f) THEN now ELSE engine[s].last_event_ms
  <2>1. a # <<>> => a[1].violation_id \in Nat
    BY PublicationsType DEF Violation
  <2> HIDE DEF a
  <2>2. id \in Nat /\ t1 \in Nat
    BY <1>1, <2>1 DEF EngineSession, NoFlag
  <2>3. (engine[s].closed \/ Ends(s, f)) \in BOOLEAN
    OBVIOUS
  <2>4. EngineAfter(s, f, a) =
          [engine[s] EXCEPT
             !.closed = engine[s].closed \/ Ends(s, f),
             !.last_event_ms = t1, !.active_violation_id = id]
    BY <1>1 DEF EngineAfter, EngineSession
  <2> HIDE DEF id, t1
  <2>5. QED
    BY <1>1, <2>2, <2>3, <2>4 DEF EngineSession, a
<1>5. QED
  BY <1>1, <1>2, <1>3, <1>4

(***************************************************************************)
(* The inductive invariant.                                                *)
(***************************************************************************)

\* Sockets are open only while the process runs, on sessions the store has.
Anchored ==
  \A c \in Conns : conns[c] # NoSession => up /\ conns[c] \in created

\* The store has nothing of a session that was not created.
Untouched ==
  \A s \in Sessions \ created : rows[s] = <<>> /\ disk[s] = NewSession

\* Between handlers the store has the position of the stream and the end of
\* the exam; of the counts it may lack the breach of a socket just closed.
Synchronised ==
  up => \A s \in Sessions :
    /\ sessions[s].last_seq = disk[s].last_seq
    /\ sessions[s].last_monotonic_ms = disk[s].last_monotonic_ms
    /\ sessions[s].ended_cleanly = disk[s].ended_cleanly
    /\ \A b \in Breach :
         sessions[s].breach_counts[b] >= disk[s].breach_counts[b]

\* A number the store has checkpointed is behind the position it has.
KeptBehind == \A s \in Sessions : \A n \in kept[s] : n =< disk[s].last_seq

\* The board shows what the store has, but for old rows of earlier runs.
Shown ==
  up => \A s \in Sessions :
          Shows(board[s].open_violations, rows[s], crashes)

\* A row carries the run of the process that stored it.
Booted ==
  \A s \in Sessions : \A i \in DOMAIN rows[s] :
    rows[s][i].boot =< crashes /\ (rows[s][i].boot = crashes => up)

IInv ==
  /\ TypeOK
  /\ Anchored
  /\ Untouched
  /\ Synchronised
  /\ KeptBehind
  /\ Shown
  /\ BreachLogMatchesCounts

\* The log of a new session matches its counts.
LEMMA NewSessionMatches == LogMatchesCounts(NewSession)
<1>1. Len(NewSession.integrity_breaches) = 0
  BY DEF NewSession
<1>2. \A b \in Breach : NewSession.breach_counts[b] = 0
  BY DEF NewSession
<1>3. Sum5(NewSession.breach_counts) = 0
  BY <1>2 DEF Sum5, Breach
<1>4. QED
  BY <1>1, <1>3, IntegrityConstants DEF LogMatchesCounts

\* What is stored of a session whose log matches its counts does so too.
LEMMA ToRecordMatches ==
  ASSUME NEW x \in Session, LogMatchesCounts(x)
  PROVE  LogMatchesCounts(ToRecord(x))
BY ToRecordKeeps DEF LogMatchesCounts

\* A new session and its record are the same.
LEMMA NewSessionRecord == ToRecord(NewSession) = NewSession
BY DEF ToRecord, NewSession

\* The gateway starts in the invariant.
LEMMA InitIInv == Init => IInv
<1> SUFFICES ASSUME Init PROVE IInv
  OBVIOUS
<1>1. TypeOK
  <2>1. OpenedEngine(0) \in EngineSession /\ NewBoardSession \in BoardSession
    BY DEF OpenedEngine, EngineSession, None, NoFlag, NewBoardSession,
           BoardSession
  <2>2. up \in BOOLEAN /\ overlapped \in [Sessions -> BOOLEAN]
    BY DEF Init
  <2>3. evaluated \in [Sessions -> [0..MaxSeq -> Nat]]
    BY DEF Init
  <2>4. now \in 1..MaxClock /\ frames \in 0..MaxFrames
        /\ attaches \in 0..MaxAttaches /\ crashes \in 0..MaxCrashes
    BY Constants DEF Init
  <2>5. rows \in [Sessions -> Seq(Violation)]
    BY DEF Init
  <2>6. QED
    BY <2>1, <2>2, <2>3, <2>4, <2>5, NewSessionType DEF Init, TypeOK, None
<1>2. Anchored /\ Untouched /\ KeptBehind
  BY DEF Init, Anchored, Untouched, KeptBehind
<1>3. Synchronised
  BY DEF Init, Synchronised, NewSession
<1>4. Shown
  BY ShowsNothing DEF Init, Shown, NewBoardSession
<1>5. BreachLogMatchesCounts
  BY NewSessionMatches DEF Init, BreachLogMatchesCounts
<1>6. QED
  BY <1>1, <1>2, <1>3, <1>4, <1>5 DEF IInv

\* Creating a session preserves the invariant.
LEMMA CreateSessionIInv ==
  ASSUME IInv, NEW s \in Sessions, CreateSession(s)
  PROVE  IInv'
<1>1. disk[s] = NewSession /\ rows[s] = <<>> /\ now \in Nat
  BY Constants DEF IInv, TypeOK, Untouched, CreateSession
<1>2. disk' = [disk EXCEPT ![s] = NewSession]
      /\ sessions' = [sessions EXCEPT ![s] = NewSession]
  BY NewSessionRecord DEF CreateSession
<1>3. TypeOK'
  <2>1. OpenedEngine(now) \in EngineSession /\ NewBoardSession \in BoardSession
    BY <1>1 DEF OpenedEngine, EngineSession, None, NoFlag, NewBoardSession,
                BoardSession
  <2>2. up' \in BOOLEAN /\ overlapped' \in [Sessions -> BOOLEAN]
    BY DEF IInv, TypeOK, CreateSession, history
  <2>3. QED
    BY <1>2, <2>1, <2>2, NewSessionType
       DEF IInv, TypeOK, CreateSession, history
<1>4. Anchored' /\ Untouched'
  BY <1>2 DEF IInv, TypeOK, Anchored, Untouched, CreateSession
<1>5. Synchronised'
  <2>1. \A b \in Breach :
          NewSession.breach_counts[b] >= NewSession.breach_counts[b]
    BY NewSessionType DEF Session
  <2>2. QED
    BY <1>2, <2>1 DEF IInv, TypeOK, Synchronised, CreateSession
<1>6. KeptBehind'
  BY <1>1, <1>2 DEF IInv, TypeOK, KeptBehind, CreateSession, history
<1>7. Shown'
  <2>1. Shows(NewBoardSession.open_violations, <<>>, crashes)
    BY ShowsNothing DEF NewBoardSession
  <2>2. QED
    BY <1>1, <2>1 DEF IInv, TypeOK, Shown, CreateSession
<1>8. BreachLogMatchesCounts'
  BY <1>2, NewSessionMatches DEF IInv, TypeOK, BreachLogMatchesCounts
<1>9. QED
  BY <1>3, <1>4, <1>5, <1>6, <1>7, <1>8 DEF IInv

\* Accepting a socket preserves the invariant.
LEMMA ConnectIInv ==
  ASSUME IInv, NEW c \in Conns, NEW s \in Sessions, Connect(c, s)
  PROVE  IInv'
<1> DEFINE x == [sessions[s] EXCEPT !.connected = TRUE]
<1>1. /\ x \in Session /\ sessions' = [sessions EXCEPT ![s] = x]
      /\ x.last_seq = sessions[s].last_seq
      /\ x.last_monotonic_ms = sessions[s].last_monotonic_ms
      /\ x.ended_cleanly = sessions[s].ended_cleanly
      /\ x.breach_counts = sessions[s].breach_counts
      /\ x.integrity_breaches = sessions[s].integrity_breaches
  <2>1. sessions[s] \in Session /\ sessions \in [Sessions -> Session]
    BY DEF IInv, TypeOK
  <2>2. sessions' = [sessions EXCEPT ![s] = x]
    BY <2>1 DEF Connect, Session
  <2>3. QED
    BY <2>1, <2>2 DEF Session
<1> HIDE DEF x
<1>2. TypeOK'
  <2>1. EngineConnected(engine[s], TRUE) \in EngineSession
    BY EngineTypes DEF IInv
  <2>2. board' \in [Sessions -> BoardSession]
    BY DEF IInv, TypeOK, BoardSession, Connect
  <2>3. up' \in BOOLEAN /\ overlapped' \in [Sessions -> BOOLEAN]
    BY DEF IInv, TypeOK, Connect
  <2>4. attaches' \in 0..MaxAttaches /\ now \in Int
    BY Constants DEF IInv, TypeOK, Connect
  <2>5. QED
    BY <1>1, <2>1, <2>2, <2>3, <2>4 DEF IInv, TypeOK, Connect, store
<1>3. Anchored' /\ Untouched' /\ KeptBehind'
  BY Constants DEF IInv, TypeOK, Anchored, Untouched, KeptBehind, Connect, store
<1>4. Synchronised'
  BY <1>1 DEF IInv, TypeOK, Synchronised, Connect, store
<1>5. Shown'
  BY DEF IInv, TypeOK, BoardSession, Shown, Connect, store
<1>6. BreachLogMatchesCounts'
  BY <1>1 DEF IInv, TypeOK, BreachLogMatchesCounts, LogMatchesCounts, Connect,
              store
<1>7. QED
  BY <1>2, <1>3, <1>4, <1>5, <1>6 DEF IInv

\* The passing of time preserves the invariant.
LEMMA ElapseIInv == IInv /\ Elapse => IInv'
<1> SUFFICES ASSUME IInv, Elapse PROVE IInv'
  OBVIOUS
<1>1. TypeOK'
  BY Constants DEF IInv, TypeOK, Elapse, memory, store, history
<1>2. QED
  BY <1>1 DEF IInv, Elapse, memory, store, history, Anchored, Untouched,
     Synchronised, KeptBehind, Shown, BreachLogMatchesCounts

\* What a dying process leaves of the invariant, whatever reached the store.
LEMMA MemoryLostIInv ==
  ASSUME IInv, MemoryLost, crashes < MaxCrashes, created' = created,
         disk' = disk, kept' = kept, now' = now, attaches' = attaches,
         frames' \in 0..MaxFrames,
         evaluated' \in [Sessions -> [0..MaxSeq -> Nat]],
         rows' \in [Sessions -> Seq(Violation)],
         \A s \in Sessions \ created : rows'[s] = rows[s]
  PROVE  IInv'
<1>1. TypeOK'
  <2>1. OpenedEngine(0) \in EngineSession /\ NewBoardSession \in BoardSession
    BY DEF OpenedEngine, EngineSession, None, NoFlag, NewBoardSession,
           BoardSession
  <2>2. up' \in BOOLEAN /\ overlapped' \in [Sessions -> BOOLEAN]
    BY DEF MemoryLost
  <2>3. crashes' \in 0..MaxCrashes
    BY Constants DEF IInv, TypeOK, MemoryLost
  <2>4. QED
    BY <2>1, <2>2, <2>3, NewSessionType DEF IInv, TypeOK, MemoryLost, None
<1>2. Anchored' /\ Untouched' /\ KeptBehind' /\ Synchronised'
  BY DEF IInv, Anchored, Untouched, KeptBehind, Synchronised, MemoryLost
<1>3. Shown' /\ BreachLogMatchesCounts'
  BY NewSessionMatches
     DEF IInv, Shown, BreachLogMatchesCounts, MemoryLost
<1>4. QED
  BY <1>1, <1>2, <1>3 DEF IInv

\* The death of the process between two handlers preserves the invariant.
LEMMA CrashIInv == IInv /\ Crash => IInv'
<1> SUFFICES ASSUME IInv, Crash PROVE IInv'
  OBVIOUS
<1>1. QED
  BY MemoryLostIInv DEF IInv, TypeOK, Crash, store

\* NoteEvaluation counts sequence numbers of the session the frame is for.
LEMMA NoteEvaluationType ==
  ASSUME TypeOK, NEW s \in Sessions, NEW f \in Frame, NoteEvaluation(s, f)
  PROVE  evaluated' \in [Sessions -> [0..MaxSeq -> Nat]]
<1>1. f.seq \in 0..MaxSeq
  BY FrameParts
<1>2. CASE IsEvaluated(s, f)
  <2>1. evaluated[s] \in [0..MaxSeq -> Nat]
        /\ evaluated \in [Sessions -> [0..MaxSeq -> Nat]]
    BY DEF TypeOK
  <2>2. [evaluated[s] EXCEPT ![f.seq] = @ + 1] \in [0..MaxSeq -> Nat]
    BY <1>1, <2>1
  <2>3. evaluated' =
          [evaluated EXCEPT ![s] = [evaluated[s] EXCEPT ![f.seq] = @ + 1]]
    BY <1>2, <2>1 DEF NoteEvaluation
  <2>4. QED
    BY <2>1, <2>2, <2>3
<1>3. CASE ~IsEvaluated(s, f)
  BY <1>3 DEF NoteEvaluation, TypeOK
<1>4. QED
  BY <1>2, <1>3

\* A frame and its checkpoint preserve the invariant.
LEMMA ReceiveFrameIInv ==
  ASSUME IInv, NEW c \in Conns, NEW f \in Frame, ReceiveFrame(c, f)
  PROVE  IInv'
<1> DEFINE s == conns[c]
           x == SessionAfter(s, f)
           d == ToRecord(x)
<1>1. TypeOK /\ s \in Sessions /\ s \in created /\ up
  BY Constants DEF IInv, TypeOK, Anchored, ReceiveFrame
<1>2. /\ x \in Session
      /\ x.last_seq >= sessions[s].last_seq
      /\ f.signed /\ Advances(sessions[s], f) => x.last_seq = f.seq
      /\ LogMatchesCounts(sessions[s]) => LogMatchesCounts(x)
  BY <1>1, FrameSession
<1>3. /\ d \in Session
      /\ d.last_seq = x.last_seq /\ d.last_monotonic_ms = x.last_monotonic_ms
      /\ d.ended_cleanly = x.ended_cleanly /\ d.breach_counts = x.breach_counts
      /\ LogMatchesCounts(x) => LogMatchesCounts(d)
  BY <1>2, ToRecordKeeps, ToRecordMatches
<1>4. PICK vs \in Publications(s, f) :
        /\ Publish(s, vs)
        /\ engine' = [engine EXCEPT ![s] = EngineAfter(s, f, AnswerIn(s, f, vs))]
  BY DEF ReceiveFrame
<1>5. vs \in Seq(Violation)
  BY <1>1, PublicationsType
<1>6. /\ sessions' = [sessions EXCEPT ![s] = x]
      /\ disk' = [disk EXCEPT ![s] = d]
      /\ kept' = IF f.signed /\ Advances(sessions[s], f)
                 THEN [kept EXCEPT ![s] = @ \cup {f.seq}] ELSE kept
      /\ NoteEvaluation(s, f)
      /\ frames < MaxFrames /\ frames' = frames + 1
      /\ UNCHANGED <<up, conns, created, now, attaches, crashes, attached,
                     overlapped>>
  BY DEF ReceiveFrame
<1> HIDE DEF s, x, d
<1>7. TypeOK'
  <2>1. engine' \in [Sessions -> EngineSession]
    <3>1. EngineAfter(s, f, AnswerIn(s, f, vs)) \in EngineSession
      BY <1>1, EngineTypes
    <3>2. QED
      BY <1>1, <1>4, <3>1 DEF TypeOK
  <2>2. board' \in [Sessions -> BoardSession]
    <3>1. board[s] \in BoardSession
      BY <1>1 DEF TypeOK
    <3>2. OpenAfter(board[s].open_violations, vs) \in SUBSET Nat
      BY <1>5, <3>1, OpenAfterType DEF BoardSession
    <3>3. [board[s] EXCEPT !.open_violations =
             OpenAfter(board[s].open_violations, vs)] \in BoardSession
      BY <3>1, <3>2 DEF BoardSession
    <3>4. board' = [board EXCEPT ![s] =
             [board[s] EXCEPT !.open_violations =
                OpenAfter(board[s].open_violations, vs)]]
      BY <1>1, <1>4, <3>1 DEF TypeOK, Publish
    <3>5. QED
      BY <1>1, <3>3, <3>4 DEF TypeOK
  <2>3. rows' \in [Sessions -> Seq(Violation)]
    BY <1>1, <1>4, <1>5 DEF TypeOK, Publish
  <2>4. evaluated' \in [Sessions -> [0..MaxSeq -> Nat]]
    BY <1>1, <1>6, NoteEvaluationType
  <2>5. kept' \in [Sessions -> SUBSET (0..MaxSeq)]
    BY <1>1, <1>6, FrameParts DEF TypeOK
  <2>6. frames' \in 0..MaxFrames
    BY <1>1, <1>6, Constants DEF TypeOK
  <2>7. up' \in BOOLEAN /\ overlapped' \in [Sessions -> BOOLEAN]
    BY <1>1, <1>6 DEF TypeOK
  <2>8. QED
    BY <1>1, <1>2, <1>3, <1>6, <2>1, <2>2, <2>3, <2>4, <2>5, <2>6, <2>7
       DEF TypeOK
<1>8. Anchored' /\ Untouched'
  BY <1>1, <1>4, <1>6 DEF IInv, TypeOK, Anchored, Untouched, Publish
<1>9. Synchronised'
  <2>1. \A b \in Breach : x.breach_counts[b] >= d.breach_counts[b]
    BY <1>2, <1>3 DEF Session
  <2>2. QED
    BY <1>1, <1>3, <1>6, <2>1 DEF IInv, TypeOK, Synchronised
<1>10. KeptBehind'
  <2>1. sessions[s] \in Session /\ disk[s] \in Session
    BY <1>1 DEF TypeOK
  <2>2. sessions[s].last_seq \in Int /\ x.last_seq \in Int
    BY <1>2, <2>1 DEF Session
  <2>3. disk[s].last_seq = sessions[s].last_seq
    BY <1>1 DEF IInv, Synchronised
  <2>4. \A n \in kept[s] : n \in Int /\ n =< sessions[s].last_seq
    <3>1. kept[s] \subseteq Int
      BY <1>1, Constants DEF TypeOK
    <3>2. QED
      BY <1>1, <2>3, <3>1 DEF IInv, KeptBehind
  <2>5. \A n \in kept'[s] : n =< x.last_seq
    <3>1. CASE f.signed /\ Advances(sessions[s], f)
      <4>1. kept'[s] = kept[s] \cup {f.seq} /\ x.last_seq = f.seq
        BY <1>1, <1>2, <1>6, <3>1 DEF TypeOK
      <4>2. QED
        BY <1>2, <2>2, <2>4, <4>1
    <3>2. CASE ~(f.signed /\ Advances(sessions[s], f))
      BY <1>2, <1>6, <2>2, <2>4, <3>2
    <3>3. QED
      BY <3>1, <3>2
  <2>6. \A t \in Sessions : t # s => kept'[t] = kept[t] /\ disk'[t] = disk[t]
    BY <1>1, <1>6 DEF TypeOK
  <2>7. disk'[s].last_seq = x.last_seq
    BY <1>1, <1>3, <1>6 DEF TypeOK
  <2>8. QED
    BY <2>5, <2>6, <2>7 DEF IInv, KeptBehind
<1>11. Shown'
  <2>1. board'[s].open_violations = OpenAfter(board[s].open_violations, vs)
        /\ rows'[s] = rows[s] \o vs
    BY <1>1, <1>4 DEF TypeOK, BoardSession, Publish
  <2>2. \A t \in Sessions : t # s =>
          board'[t].open_violations = board[t].open_violations
          /\ rows'[t] = rows[t]
    BY <1>1, <1>4 DEF TypeOK, Publish
  <2>3. Shows(board[s].open_violations, rows[s], crashes)
        /\ rows[s] \in Seq(Violation)
    BY <1>1 DEF IInv, TypeOK, Shown
  <2>4. Shows(board'[s].open_violations, rows'[s], crashes)
    BY <1>5, <2>1, <2>3, ShowsOn
  <2>5. QED
    BY <1>1, <1>6, <2>2, <2>4 DEF IInv, Shown
<1>12. BreachLogMatchesCounts'
  BY <1>1, <1>2, <1>3, <1>6 DEF IInv, TypeOK, BreachLogMatchesCounts
<1>13. QED
  BY <1>7, <1>8, <1>9, <1>10, <1>11, <1>12 DEF IInv

\* A frame whose handling the process does not survive preserves the invariant.
LEMMA CrashInFrameIInv ==
  ASSUME IInv, NEW c \in Conns, NEW f \in Frame, CrashInFrame(c, f)
  PROVE  IInv'
<1> DEFINE s == conns[c]
<1>1. TypeOK /\ s \in Sessions /\ s \in created
  BY Constants DEF IInv, TypeOK, Anchored, CrashInFrame
<1>2. PICK vs \in Publications(s, f) : \E n \in 0..Len(vs) :
        rows' = [rows EXCEPT ![s] = @ \o SubSeq(vs, 1, n)]
  BY DEF CrashInFrame
<1>3. vs \in Seq(Violation) /\ Len(vs) \in Nat
  BY <1>1, PublicationsType, LenProperties
<1>4. PICK n \in 0..Len(vs) : rows' = [rows EXCEPT ![s] = @ \o SubSeq(vs, 1, n)]
  BY <1>2
<1>5. SubSeq(vs, 1, n) \in Seq(Violation)
  BY <1>3, <1>4
<1>6. evaluated' \in [Sessions -> [0..MaxSeq -> Nat]]
  BY <1>1, NoteEvaluationType DEF CrashInFrame
<1> HIDE DEF s
<1>7. rows' \in [Sessions -> Seq(Violation)]
      /\ \A t \in Sessions \ created : rows'[t] = rows[t]
  BY <1>1, <1>4, <1>5 DEF TypeOK
<1>8. frames' \in 0..MaxFrames
  BY <1>1, Constants DEF TypeOK, CrashInFrame
<1>9. QED
  BY <1>6, <1>7, <1>8, MemoryLostIInv DEF CrashInFrame

\* The end of a socket preserves the invariant.
LEMMA DisconnectIInv ==
  ASSUME IInv, NEW c \in Conns, Disconnect(c)
  PROVE  IInv'
<1> DEFINE s == conns[c]
           x == [sessions[s] EXCEPT !.connected = FALSE]
           d == ToRecord(x)
           y == IF ~x.ended_cleanly THEN Breached(x, Abandoned, now) ELSE x
           vs == IF ~x.ended_cleanly THEN BreachRows(s, x, Abandoned) ELSE <<>>
           bd == [connected |-> FALSE, ended_cleanly |-> x.ended_cleanly,
                  events_received |-> x.events_received,
                  open_violations |-> OpenAfter(board[s].open_violations, vs)]
<1>1. TypeOK /\ s \in Sessions /\ s \in created /\ up /\ now \in Nat
  BY Constants DEF IInv, TypeOK, Anchored, Disconnect
<1>2. sessions[s] \in Session /\ board[s] \in BoardSession
  BY <1>1 DEF TypeOK
<1>3. /\ x \in Session
      /\ x.last_seq = sessions[s].last_seq
      /\ x.last_monotonic_ms = sessions[s].last_monotonic_ms
      /\ x.ended_cleanly = sessions[s].ended_cleanly
      /\ x.breach_counts = sessions[s].breach_counts
      /\ x.integrity_breaches = sessions[s].integrity_breaches
  BY <1>2 DEF Session
<1>4. /\ disk' = [disk EXCEPT ![s] = d]
      /\ sessions' = [sessions EXCEPT ![s] = y]
      /\ engine' = [engine EXCEPT ![s] = EngineConnected(@, FALSE)]
      /\ rows' = [rows EXCEPT ![s] = @ \o vs]
      /\ board' = [board EXCEPT ![s] = bd]
      /\ conns' = [conns EXCEPT ![c] = NoSession]
      /\ overlapped' = [overlapped EXCEPT ![s] =
                          @ \/ \E e \in Conns \ {c} : conns[e] = s]
      /\ UNCHANGED <<up, created, now, frames, attaches, crashes, kept,
                     evaluated, attached>>
  <2>1. board' = [board EXCEPT ![s] = bd]
    BY <1>1 DEF TypeOK, Disconnect
  <2>2. QED
    BY <2>1 DEF Disconnect
<1> HIDE DEF s, x, d
<1>5. /\ d \in Session
      /\ d.last_seq = x.last_seq /\ d.last_monotonic_ms = x.last_monotonic_ms
      /\ d.ended_cleanly = x.ended_cleanly /\ d.breach_counts = x.breach_counts
      /\ LogMatchesCounts(x) => LogMatchesCounts(d)
  BY <1>3, ToRecordKeeps, ToRecordMatches DEF d
<1>6. x.breach_counts \in [Breach -> Nat]
  BY <1>3 DEF Session
<1>7. /\ y \in Session
      /\ y.last_seq = x.last_seq /\ y.last_monotonic_ms = x.last_monotonic_ms
      /\ y.ended_cleanly = x.ended_cleanly
      /\ \A b \in Breach : y.breach_counts[b] >= x.breach_counts[b]
      /\ LogMatchesCounts(x) => LogMatchesCounts(y)
  <2>1. CASE x.ended_cleanly
    <3>1. y = x
      BY <2>1
    <3>2. \A b \in Breach : x.breach_counts[b] >= x.breach_counts[b]
      BY <1>6
    <3> HIDE DEF y
    <3>3. QED
      BY <1>3, <3>1, <3>2
  <2>2. CASE ~x.ended_cleanly
    <3>1. Abandoned \in Breach
      BY DEF Breach
    <3>2. \A b \in Breach : [x.breach_counts EXCEPT ![Abandoned] = @ + 1][b]
                               >= x.breach_counts[b]
      BY <1>6
    <3>3. /\ y \in Session
          /\ y.last_seq = x.last_seq
          /\ y.last_monotonic_ms = x.last_monotonic_ms
          /\ y.ended_cleanly = x.ended_cleanly
          /\ y.breach_counts = [x.breach_counts EXCEPT ![Abandoned] = @ + 1]
      BY <1>1, <1>3, <2>2, <3>1, BreachedCounts
    <3>4. LogMatchesCounts(x) => LogMatchesCounts(y)
      BY <1>1, <1>3, <2>2, <3>1, BreachedMatches
    <3>5. QED
      BY <3>2, <3>3, <3>4
  <2>3. QED
    BY <2>1, <2>2
<1>8. vs \in Seq(Violation)
  <2>1. Abandoned \in Breach
    BY DEF Breach
  <2>2. BreachRows(s, x, Abandoned) \in Seq(Violation)
    BY <1>1, <2>1, BreachRowsType
  <2>3. QED
    BY <2>2
<1> HIDE DEF y, vs
<1>9. bd \in BoardSession
  <2>1. OpenAfter(board[s].open_violations, vs) \in SUBSET Nat
    BY <1>2, <1>8, OpenAfterType DEF BoardSession, s
  <2>2. x.ended_cleanly \in BOOLEAN /\ x.events_received \in Nat
    BY <1>3 DEF Session
  <2>3. QED
    BY <2>1, <2>2 DEF BoardSession
<1>10. bd.open_violations = OpenAfter(board[s].open_violations, vs)
  OBVIOUS
<1> HIDE DEF bd
<1>11. TypeOK'
  <2>1. EngineConnected(engine[s], FALSE) \in EngineSession
    BY <1>1, EngineTypes
  <2>2. up' \in BOOLEAN
    BY <1>1, <1>4 DEF TypeOK
  <2>3. overlapped' \in [Sessions -> BOOLEAN]
    <3>1. (overlapped[s] \/ \E e \in Conns \ {c} : conns[e] = s) \in BOOLEAN
      OBVIOUS
    <3>2. overlapped \in [Sessions -> BOOLEAN]
      BY <1>1 DEF TypeOK
    <3>3. QED
      BY <1>1, <1>4, <3>1, <3>2
  <2>4. /\ sessions' \in [Sessions -> Session]
        /\ disk' \in [Sessions -> Session]
        /\ engine' \in [Sessions -> EngineSession]
        /\ board' \in [Sessions -> BoardSession]
        /\ rows' \in [Sessions -> Seq(Violation)]
    <3>1. sessions' \in [Sessions -> Session] /\ disk' \in [Sessions -> Session]
      BY <1>1, <1>4, <1>5, <1>7 DEF TypeOK
    <3>2. engine' \in [Sessions -> EngineSession]
      BY <1>1, <1>4, <2>1 DEF TypeOK
    <3>3. board' \in [Sessions -> BoardSession]
      BY <1>1, <1>4, <1>9 DEF TypeOK
    <3>4. rows' \in [Sessions -> Seq(Violation)]
      BY <1>1, <1>4, <1>8 DEF TypeOK
    <3>5. QED
      BY <3>1, <3>2, <3>3, <3>4
  <2>5. conns' \in [Conns -> Sessions \cup {NoSession}]
    BY <1>1, <1>4 DEF TypeOK
  <2>6. QED
    BY <1>1, <1>4, <2>2, <2>3, <2>4, <2>5 DEF TypeOK
<1>12. Anchored' /\ Untouched' /\ KeptBehind'
  <2>1. d.last_seq = disk[s].last_seq
    BY <1>1, <1>3, <1>5 DEF IInv, Synchronised
  <2>2. \A t \in Sessions : disk'[t].last_seq = disk[t].last_seq
    BY <1>1, <1>4, <2>1 DEF TypeOK
  <2>3. KeptBehind'
    BY <1>4, <2>2 DEF IInv, KeptBehind
  <2>4. Anchored' /\ Untouched'
    BY <1>1, <1>4 DEF IInv, TypeOK, Anchored, Untouched
  <2>5. QED
    BY <2>3, <2>4
<1>13. Synchronised'
  BY <1>1, <1>4, <1>5, <1>7 DEF IInv, TypeOK, Synchronised
<1>14. Shown'
  <2>1. Shows(board[s].open_violations, rows[s], crashes)
        /\ rows[s] \in Seq(Violation)
    BY <1>1 DEF IInv, TypeOK, Shown
  <2>2. Shows(bd.open_violations, rows[s] \o vs, crashes)
    BY <1>8, <1>10, <2>1, ShowsOn
  <2>3. QED
    BY <1>1, <1>4, <2>2 DEF IInv, TypeOK, Shown
<1>15. BreachLogMatchesCounts'
  <2>1. LogMatchesCounts(x)
    BY <1>1, <1>3 DEF IInv, BreachLogMatchesCounts, LogMatchesCounts
  <2>2. QED
    BY <1>1, <1>4, <1>5, <1>7, <2>1 DEF IInv, TypeOK, BreachLogMatchesCounts
<1>16. QED
  BY <1>11, <1>12, <1>13, <1>14, <1>15 DEF IInv

\* A tick that raises silences preserves the invariant.
LEMMA TickIInv == IInv /\ Tick => IInv'
<1> SUFFICES ASSUME IInv, Tick PROVE IInv'
  OBVIOUS
<1> DEFINE silent == {s \in Sessions : FallsSilent(s)}
           row(s) == IF s \in silent
                     THEN <<Raised(FreshId(s), StreamSilent, FALSE)>> ELSE <<>>
<1>1. TypeOK /\ up /\ now \in Nat
  BY Constants DEF IInv, TypeOK, Tick
<1>2. /\ engine' = [s \in Sessions |->
           IF s \in silent THEN [engine[s] EXCEPT !.liveness_last_fired_ms = now]
           ELSE engine[s]]
      /\ rows' = [s \in Sessions |-> rows[s] \o row(s)]
      /\ board' = [s \in Sessions |-> [board[s] EXCEPT
           !.open_violations = OpenAfter(board[s].open_violations, row(s))]]
      /\ UNCHANGED <<up, sessions, conns, created, disk, now, frames, attaches,
                     crashes, history>>
  <2>1. board' = [s \in Sessions |-> [board[s] EXCEPT
           !.open_violations = OpenAfter(board[s].open_violations, row(s))]]
    BY <1>1 DEF Tick, TypeOK, BoardSession
  <2>2. QED
    BY <2>1 DEF Tick
<1>3. ASSUME NEW s \in Sessions PROVE row(s) \in Seq(Violation)
  <2>1. Raised(FreshId(s), StreamSilent, FALSE) \in Violation
    BY <1>1, FreshIdType, RaisedType DEF RuleIds
  <2>2. <<Raised(FreshId(s), StreamSilent, FALSE)>> \in Seq(Violation)
    BY <2>1, OneRow
  <2>3. CASE s \in silent
    BY <2>2, <2>3
  <2>4. CASE s \notin silent
    <3>1. row(s) = <<>>
      BY <2>4
    <3> HIDE DEF row
    <3>2. QED
      BY <3>1
  <2>5. QED
    BY <2>3, <2>4
<1>4. ASSUME NEW s \in Sessions, s \notin created PROVE row(s) = <<>>
  BY <1>4 DEF FallsSilent
<1> HIDE DEF row, silent
<1>5. ASSUME NEW s \in Sessions
      PROVE  /\ board[s] \in BoardSession
             /\ board'[s] \in BoardSession
             /\ board'[s].open_violations =
                  OpenAfter(board[s].open_violations, row(s))
  <2>1. board[s] \in BoardSession
    BY <1>1 DEF TypeOK
  <2>2. OpenAfter(board[s].open_violations, row(s)) \in SUBSET Nat
    BY <1>3, <2>1, OpenAfterType DEF BoardSession
  <2>3. board'[s] = [board[s] EXCEPT
           !.open_violations = OpenAfter(board[s].open_violations, row(s))]
    BY <1>2
  <2>4. QED
    BY <2>1, <2>2, <2>3 DEF BoardSession
<1>6. TypeOK'
  <2>1. engine' \in [Sessions -> EngineSession]
    <3>1. ASSUME NEW s \in Sessions
          PROVE  [engine[s] EXCEPT !.liveness_last_fired_ms = now]
                   \in EngineSession
      <4>1. engine[s] \in EngineSession
        BY <1>1 DEF TypeOK
      <4>2. QED
        BY <1>1, <4>1 DEF EngineSession
    <3>2. QED
      BY <1>1, <1>2, <3>1 DEF TypeOK
  <2>2. board' \in [Sessions -> BoardSession]
    <3>1. board' = [s \in Sessions |-> board'[s]]
      BY <1>2
    <3>2. QED
      BY <1>5, <3>1
  <2>3. rows' \in [Sessions -> Seq(Violation)]
    BY <1>1, <1>2, <1>3 DEF TypeOK
  <2>4. up' \in BOOLEAN /\ overlapped' \in [Sessions -> BOOLEAN]
    BY <1>1, <1>2 DEF TypeOK, history
  <2>5. QED
    BY <1>1, <1>2, <2>1, <2>2, <2>3, <2>4 DEF TypeOK, history
<1>7. Untouched'
  <2>1. \A s \in Sessions \ created : rows'[s] = rows[s]
    <3> SUFFICES ASSUME NEW s \in Sessions \ created PROVE rows'[s] = rows[s]
      OBVIOUS
    <3>1. rows'[s] = <<>> \o <<>> /\ rows[s] = <<>>
      BY <1>2, <1>4 DEF IInv, Untouched
    <3>2. QED
      BY <3>1
  <2>2. QED
    BY <1>2, <2>1 DEF IInv, Untouched
<1>8. Anchored' /\ Synchronised' /\ KeptBehind' /\ BreachLogMatchesCounts'
  BY <1>2 DEF IInv, Anchored, Synchronised, KeptBehind,
              BreachLogMatchesCounts, history
<1>9. Shown'
  <2> SUFFICES ASSUME NEW s \in Sessions
               PROVE  Shows(board'[s].open_violations, rows'[s], crashes)
    BY <1>2 DEF Shown
  <2>1. Shows(board[s].open_violations, rows[s], crashes)
        /\ rows[s] \in Seq(Violation)
    BY <1>1 DEF IInv, TypeOK, Shown
  <2>2. rows'[s] = rows[s] \o row(s)
    BY <1>2
  <2>3. QED
    BY <1>3, <1>5, <2>1, <2>2, ShowsOn
<1>10. QED
  BY <1>6, <1>7, <1>8, <1>9 DEF IInv

\* Restoring the sessions, the engine and the board preserves the invariant.
LEMMA RestartIInv == IInv /\ Booted /\ Restart => IInv'
<1> SUFFICES ASSUME IInv, Booted, Restart PROVE IInv'
  OBVIOUS
<1>1. TypeOK /\ now \in Nat
  BY Constants DEF IInv, TypeOK
<1>2. TypeOK'
  <2>1. ASSUME NEW s \in Sessions
        PROVE  [EngineConnected(OpenedEngine(now), FALSE) EXCEPT
                  !.closed = disk[s].ended_cleanly] \in EngineSession
    <3>1. EngineConnected(OpenedEngine(now), FALSE) \in EngineSession
      BY <1>1, EngineTypes
    <3>2. disk[s] \in Session
      BY <1>1 DEF TypeOK
    <3>3. disk[s].ended_cleanly \in BOOLEAN
      BY <3>2 DEF Session
    <3>4. QED
      BY <3>1, <3>3 DEF EngineSession
  <2>2. OpenedEngine(0) \in EngineSession
    BY DEF OpenedEngine, EngineSession, None, NoFlag
  <2>3. engine' \in [Sessions -> EngineSession]
    BY <2>1, <2>2 DEF Restart
  <2>4. board' \in [Sessions -> BoardSession]
    <3>1. NewBoardSession \in BoardSession
      BY DEF NewBoardSession, BoardSession
    <3>2. ASSUME NEW s \in Sessions
          PROVE  [connected |-> FALSE,
                  ended_cleanly |-> disk[s].ended_cleanly,
                  events_received |-> disk[s].events_received,
                  open_violations |-> OpenIn(Newest(rows[s]))] \in BoardSession
      <4>1. disk[s] \in Session /\ rows[s] \in Seq(Violation)
        BY <1>1 DEF TypeOK
      <4>2. disk[s].ended_cleanly \in BOOLEAN /\ disk[s].events_received \in Nat
        BY <4>1 DEF Session
      <4>3. OpenIn(Newest(rows[s])) \in SUBSET Nat
        BY <4>1, NewestRows, OpenAfterType
      <4>4. QED
        BY <4>2, <4>3 DEF BoardSession
    <3>3. QED
      BY <3>1, <3>2 DEF Restart
  <2>5. up' \in BOOLEAN /\ overlapped' \in [Sessions -> BOOLEAN]
    BY <1>1 DEF TypeOK, Restart, history
  <2>6. QED
    BY <1>1, <2>3, <2>4, <2>5 DEF TypeOK, Restart, store, history
<1>3. Anchored' /\ Untouched' /\ KeptBehind'
  BY DEF IInv, Anchored, Untouched, KeptBehind, Restart, store, history
<1>4. Synchronised'
  <2>1. ASSUME NEW s \in Sessions, NEW b \in Breach
        PROVE  disk[s].breach_counts[b] >= disk[s].breach_counts[b]
    <3>1. disk[s] \in Session
      BY <1>1 DEF TypeOK
    <3>2. disk[s].breach_counts[b] \in Nat
      BY <3>1 DEF Session
    <3>3. QED
      BY <3>2
  <2>2. QED
    BY <2>1 DEF Synchronised, Restart, store
<1>5. Shown'
  <2> SUFFICES ASSUME NEW s \in Sessions
               PROVE  Shows(board'[s].open_violations, rows[s], crashes)
    BY DEF Shown, Restart, store
  <2>1. CASE s \in created
    <3>1. \A i \in DOMAIN rows[s] : rows[s][i].boot # crashes
      BY DEF Booted, Restart
    <3>2. board'[s].open_violations = OpenIn(Newest(rows[s]))
      BY <2>1 DEF Restart
    <3>3. rows[s] \in Seq(Violation)
      BY <1>1 DEF TypeOK
    <3>4. QED
      BY <3>1, <3>2, <3>3, ShowsRestored
  <2>2. CASE s \notin created
    BY <2>2, ShowsNothing DEF IInv, Untouched, Restart, NewBoardSession
  <2>3. QED
    BY <2>1, <2>2
<1>6. BreachLogMatchesCounts'
  BY DEF IInv, BreachLogMatchesCounts, Restart, store
<1>7. QED
  BY <1>2, <1>3, <1>4, <1>5, <1>6 DEF IInv

\* Every step preserves the invariant.
LEMMA NextIInv == IInv /\ Booted /\ [Next]_vars => IInv'
<1> SUFFICES ASSUME IInv, Booted, [Next]_vars PROVE IInv'
  OBVIOUS
<1>1. CASE UNCHANGED vars
  <2>1. TypeOK'
    BY <1>1 DEF IInv, TypeOK, vars, memory, store, history
  <2>2. QED
    BY <1>1, <2>1 DEF IInv, vars, memory, store, history, Anchored, Untouched,
       Synchronised, KeptBehind, Shown, BreachLogMatchesCounts
<1>2. ASSUME NEW s \in Sessions, CreateSession(s) PROVE IInv'
  BY <1>2, CreateSessionIInv
<1>3. ASSUME NEW c \in Conns, NEW s \in Sessions, Connect(c, s) PROVE IInv'
  BY <1>3, ConnectIInv
<1>4. ASSUME NEW c \in Conns, NEW f \in Frame, ReceiveFrame(c, f) PROVE IInv'
  BY <1>4, ReceiveFrameIInv
<1>5. ASSUME NEW c \in Conns, NEW f \in Frame, CrashInFrame(c, f) PROVE IInv'
  BY <1>5, CrashInFrameIInv
<1>6. ASSUME NEW c \in Conns, Disconnect(c) PROVE IInv'
  BY <1>6, DisconnectIInv
<1>7. QED
  BY <1>1, <1>2, <1>3, <1>4, <1>5, <1>6, TickIInv, ElapseIInv, CrashIInv,
     RestartIInv DEF Next

\* A row's run of the process is a number.
LEMMA RowsBoot ==
  ASSUME NEW q \in Seq(Violation), NEW i \in DOMAIN q
  PROVE  q[i].boot \in Nat
<1>1. q[i] \in Violation
  BY LenProperties
<1>2. QED
  BY <1>1 DEF Violation

\* One row of a run of the process.
LEMMA OneRowBooted ==
  ASSUME NEW vs, NEW boot, vs = <<>> \/ \E v : vs = <<v>> /\ v.boot = boot
  PROVE  \A i \in DOMAIN vs : vs[i].boot = boot
<1>1. CASE vs = <<>>
  BY <1>1
<1>2. CASE vs # <<>>
  <2>1. PICK v : vs = <<v>> /\ v.boot = boot
    BY <1>2
  <2>2. DOMAIN <<v>> = {1} /\ <<v>>[1] = v
    OBVIOUS
  <2>3. QED
    BY <2>1, <2>2
<1>3. QED
  BY <1>1, <1>2

\* Rows added in this run of the process carry its number.
LEMMA BootedOn ==
  ASSUME TypeOK, Booted, NEW s \in Sessions, NEW vs \in Seq(Violation),
         \A i \in DOMAIN vs : vs[i].boot = crashes, up
  PROVE  \A i \in DOMAIN (rows[s] \o vs) : (rows[s] \o vs)[i].boot =< crashes
<1>1. rows[s] \in Seq(Violation) /\ crashes \in Nat
  BY Constants DEF TypeOK
<1> DEFINE m == Len(rows[s])
           n == Len(vs)
<1>2. /\ m \in Nat /\ n \in Nat
      /\ DOMAIN rows[s] = 1..m /\ DOMAIN vs = 1..n
      /\ DOMAIN (rows[s] \o vs) = 1..(m + n)
      /\ \A i \in 1..m : (rows[s] \o vs)[i] = rows[s][i]
      /\ \A i \in 1..n : (rows[s] \o vs)[m + i] = vs[i]
  BY <1>1, LenProperties, ConcatProperties
<1> HIDE DEF m, n
<1>3. ASSUME NEW i \in 1..(m + n) PROVE (rows[s] \o vs)[i].boot =< crashes
  <2>1. CASE i \in 1..m
    BY <1>2, <2>1 DEF Booted
  <2>2. CASE i \notin 1..m
    <3>1. i - m \in 1..n /\ m + (i - m) = i
      BY <1>2, <2>2
    <3>2. (rows[s] \o vs)[i] = vs[i - m]
      BY <1>2, <3>1
    <3>3. vs[i - m].boot = crashes
      BY <1>2, <3>1
    <3>4. QED
      BY <1>1, <3>2, <3>3
  <2>3. QED
    BY <2>1, <2>2
<1>4. QED
  BY <1>2, <1>3

\* Whatever a frame publishes carries the run of the process.
LEMMA PublicationsBooted ==
  ASSUME TypeOK, NEW s \in Sessions, NEW f, NEW vs \in Publications(s, f)
  PROVE  \A i \in DOMAIN vs : vs[i].boot = crashes
<1>1. PICK p, a : /\ vs = p \o a /\ p = BreachPart(s, f)
                  /\ a \in RuleAnswers(s, f, FreshId(s) + Len(BreachPart(s, f)))
  BY DEF Publications
<1>2. p = <<>> \/ \E b : p = <<Raised(FreshId(s), b, FALSE)>>
  BY <1>1 DEF BreachPart, BreachRows
<1>3. a = <<>> \/ \E id, over : a = <<Raised(id, PolicyRule, over)>>
  BY <1>1 DEF RuleAnswers
<1>4. \A id, rule, over : Raised(id, rule, over).boot = crashes
  BY DEF Raised
<1>5. p = <<>> \/ \E v : p = <<v>> /\ v.boot = crashes
  BY <1>2, <1>4
<1>6. a = <<>> \/ \E v : a = <<v>> /\ v.boot = crashes
  BY <1>3, <1>4
<1>7. QED
  BY <1>1, <1>5, <1>6

\* Every step leaves each row to the run that stored it.
LEMMA NextBooted == IInv /\ Booted /\ [Next]_vars => Booted'
<1> SUFFICES ASSUME IInv, Booted, [Next]_vars PROVE Booted'
  OBVIOUS
<1>0. TypeOK /\ crashes \in Nat
  BY Constants DEF IInv, TypeOK
<1>1. CASE rows' = rows /\ crashes' = crashes /\ (up => up')
  BY <1>1 DEF Booted
<1>2. ASSUME NEW c \in Conns, NEW f \in Frame, ReceiveFrame(c, f) PROVE Booted'
  <2>1. PICK s \in Sessions : s = conns[c]
    BY <1>0, <1>2 DEF TypeOK, ReceiveFrame
  <2>2. PICK vs \in Publications(s, f) : rows' = [rows EXCEPT ![s] = rows[s] \o vs]
    BY <1>2, <2>1 DEF ReceiveFrame, Publish
  <2>3. vs \in Seq(Violation) /\ \A i \in DOMAIN vs : vs[i].boot = crashes
    BY <1>0, PublicationsType, PublicationsBooted
  <2>4. up /\ up' = up /\ crashes' = crashes
    BY <1>2 DEF ReceiveFrame
  <2>5. \A i \in DOMAIN (rows[s] \o vs) : (rows[s] \o vs)[i].boot =< crashes
    BY <1>0, <2>3, <2>4, BootedOn
  <2>6. QED
    BY <1>0, <2>2, <2>4, <2>5 DEF Booted, TypeOK
<1>3. ASSUME NEW c \in Conns, NEW f \in Frame, CrashInFrame(c, f) PROVE Booted'
  <2>1. PICK s \in Sessions : s = conns[c]
    BY <1>0, <1>3 DEF TypeOK, CrashInFrame
  <2>2. PICK vs \in Publications(s, f) : \E n \in 0..Len(vs) :
          rows' = [rows EXCEPT ![s] = rows[s] \o SubSeq(vs, 1, n)]
    BY <1>3, <2>1 DEF CrashInFrame
  <2>3. vs \in Seq(Violation) /\ \A i \in DOMAIN vs : vs[i].boot = crashes
    BY <1>0, PublicationsType, PublicationsBooted
  <2>4. up /\ crashes' = crashes + 1
    BY <1>3 DEF CrashInFrame, MemoryLost
  <2>5. PICK ws \in Seq(Violation) :
          /\ rows' = [rows EXCEPT ![s] = rows[s] \o ws]
          /\ \A i \in DOMAIN ws : ws[i].boot = crashes
    <3>1. PICK n \in 0..Len(vs) : rows' = [rows EXCEPT ![s] = rows[s] \o SubSeq(vs, 1, n)]
      BY <2>2
    <3>2. /\ SubSeq(vs, 1, n) \in Seq(Violation)
          /\ \A i \in DOMAIN SubSeq(vs, 1, n) : SubSeq(vs, 1, n)[i].boot = crashes
      BY <2>3, <3>1
    <3>3. QED
      BY <3>1, <3>2
  <2>6. \A i \in DOMAIN (rows[s] \o ws) : (rows[s] \o ws)[i].boot =< crashes
    BY <1>0, <2>4, <2>5, BootedOn
  <2>7. ASSUME NEW t \in Sessions, NEW i \in DOMAIN rows'[t]
        PROVE  rows'[t][i].boot =< crashes
    BY <1>0, <2>5, <2>6 DEF Booted, TypeOK
  <2>8. ASSUME NEW t \in Sessions, NEW i \in DOMAIN rows'[t]
        PROVE  rows'[t][i].boot =< crashes' /\ rows'[t][i].boot # crashes'
    <3>1. rows'[t] \in Seq(Violation)
      <4>1. rows[s] \o ws \in Seq(Violation) /\ rows[t] \in Seq(Violation)
        BY <1>0, <2>5 DEF TypeOK
      <4>2. QED
        BY <1>0, <2>5, <4>1 DEF TypeOK
    <3>2. rows'[t][i].boot \in Nat
      BY <3>1, RowsBoot
    <3>3. QED
      BY <1>0, <2>4, <2>7, <3>2
  <2>9. QED
    BY <2>8 DEF Booted
<1>4. ASSUME NEW c \in Conns, Disconnect(c) PROVE Booted'
  <2>1. PICK s \in Sessions : s = conns[c]
    BY <1>0, <1>4 DEF TypeOK, Disconnect
  <2>2. PICK x, vs : /\ rows' = [rows EXCEPT ![s] = rows[s] \o vs]
                     /\ vs = <<>> \/ vs = BreachRows(s, x, Abandoned)
    BY <1>4, <2>1 DEF Disconnect
  <2>3. vs \in Seq(Violation) /\ \A i \in DOMAIN vs : vs[i].boot = crashes
    <3>1. Abandoned \in Breach
      BY DEF Breach
    <3>2. BreachRows(s, x, Abandoned) \in Seq(Violation)
      BY <1>0, <3>1, BreachRowsType
    <3>3. CASE vs = <<>>
      BY <3>3
    <3>4. CASE vs = BreachRows(s, x, Abandoned)
      <4>1. vs = <<>> \/ \E v : vs = <<v>> /\ v.boot = crashes
        BY <3>4 DEF BreachRows, Raised
      <4>2. QED
        BY <3>2, <3>4, <4>1, OneRowBooted
    <3>5. QED
      BY <2>2, <3>3, <3>4
  <2>4. up /\ up' = up /\ crashes' = crashes
    BY <1>4 DEF Disconnect
  <2>5. \A i \in DOMAIN (rows[s] \o vs) : (rows[s] \o vs)[i].boot =< crashes
    BY <1>0, <2>3, <2>4, BootedOn
  <2>6. QED
    BY <1>0, <2>2, <2>4, <2>5 DEF Booted, TypeOK
<1>5. CASE Tick
  <2>1. up /\ up' = up /\ crashes' = crashes
    BY <1>5 DEF Tick
  <2>2. ASSUME NEW s \in Sessions
        PROVE  \A i \in DOMAIN rows'[s] : rows'[s][i].boot =< crashes
    <3>1. PICK vs : /\ rows'[s] = rows[s] \o vs
                    /\ vs = <<>> \/ vs = <<Raised(FreshId(s), StreamSilent, FALSE)>>
      BY <1>5 DEF Tick
    <3>2. vs \in Seq(Violation) /\ \A i \in DOMAIN vs : vs[i].boot = crashes
      <4>1. Raised(FreshId(s), StreamSilent, FALSE) \in Violation
        BY <1>0, FreshIdType, RaisedType DEF RuleIds
      <4>2. Raised(FreshId(s), StreamSilent, FALSE).boot = crashes
        BY DEF Raised
      <4>3. vs = <<>> \/ \E v : v \in Violation /\ vs = <<v>> /\ v.boot = crashes
        BY <3>1, <4>1, <4>2
      <4>4. vs \in Seq(Violation)
        <5>1. CASE vs = <<>>
          BY <5>1
        <5>2. CASE vs # <<>>
          BY <4>3, <5>2, OneRow
        <5>3. QED
          BY <5>1, <5>2
      <4>5. vs = <<>> \/ \E v : vs = <<v>> /\ v.boot = crashes
        BY <4>3
      <4>6. QED
        BY <4>4, <4>5, OneRowBooted
    <3>3. QED
      BY <1>0, <2>1, <3>1, <3>2, BootedOn
  <2>3. QED
    BY <2>1, <2>2 DEF Booted
<1>6. CASE Crash
  <2>1. rows' = rows /\ crashes' = crashes + 1
    BY <1>6 DEF Crash, MemoryLost, store
  <2>2. ASSUME NEW s \in Sessions, NEW i \in DOMAIN rows[s]
        PROVE  rows[s][i].boot =< crashes + 1 /\ rows[s][i].boot # crashes + 1
    <3>1. rows[s] \in Seq(Violation)
      BY <1>0 DEF TypeOK
    <3>2. rows[s][i].boot \in Nat
      BY <3>1, RowsBoot
    <3>3. rows[s][i].boot =< crashes
      BY DEF Booted
    <3>4. QED
      BY <1>0, <3>2, <3>3
  <2>3. QED
    BY <2>1, <2>2 DEF Booted
<1>7. CASE UNCHANGED vars \/ Elapse \/ Restart
  <2>1. CASE UNCHANGED vars \/ Elapse
    <3>1. rows' = rows /\ crashes' = crashes /\ up' = up
      BY <2>1 DEF vars, memory, store, Elapse
    <3>2. QED
      BY <1>1, <3>1
  <2>2. CASE Restart
    BY <1>1, <2>2 DEF store, Restart
  <2>3. QED
    BY <1>7, <2>1, <2>2
<1>8. ASSUME NEW s \in Sessions, CreateSession(s) PROVE Booted'
  BY <1>1, <1>8 DEF CreateSession
<1>9. ASSUME NEW c \in Conns, NEW s \in Sessions, Connect(c, s) PROVE Booted'
  BY <1>1, <1>9 DEF Connect, store
<1>10. QED
  BY <1>2, <1>3, <1>4, <1>5, <1>6, <1>7, <1>8, <1>9 DEF Next

\* The invariant holds throughout.
LEMMA GatewayInvariant == Spec => []IInv
<1>1. Init => Booted
  BY DEF Init, Booted
<1>2. QED
  BY <1>1, InitIInv, NextIInv, NextBooted, PTL DEF Spec

(***************************************************************************)
(* The theorems.                                                           *)
(***************************************************************************)

\* Every variable keeps its type, whatever frames come in and wherever the
\* process dies.
THEOREM TypeCorrect == Spec => []TypeOK
<1>1. IInv => TypeOK
  BY DEF IInv
<1>2. QED
  BY <1>1, GatewayInvariant, PTL

\* The flags on the proctors' board are flags replaying the store would open,
\* and of those it lacks only ones an earlier process raised and at least
\* RESTORED_VIOLATIONS_PER_SESSION newer rows are behind (_Broadcast.publish and
\* _restore go through the same TriageBoard.record_violation).
THEOREM BoardSurvivesRestart == Spec => []BoardIsReplayOfStore
<1>1. IInv => BoardIsReplayOfStore
  BY DEF IInv, Shown, Shows, BoardIsReplayOfStore, Seen
<1>2. QED
  BY <1>1, GatewayInvariant, PTL

\* The breach log and the breach counts account for the same breaches, in
\* memory and in the store (record_breach with should_report_breach).
THEOREM BreachLogCorrect == Spec => []BreachLogMatchesCounts
<1>1. IInv => BreachLogMatchesCounts
  BY DEF IInv
<1>2. QED
  BY <1>1, GatewayInvariant, PTL

\* A sequence number the store has checkpointed is behind the position every
\* later run of the process starts from.
LEMMA ReplayOfKept ==
  ASSUME IInv, up, NEW s \in Sessions, NEW n \in kept[s], NEW f \in Frame,
         f.seq = n
  PROVE  ~IsEvaluated(s, f)
<1>1. sessions[s].last_seq = disk[s].last_seq /\ n =< disk[s].last_seq
  BY DEF IInv, Synchronised, KeptBehind
<1>2. IsReplay(sessions[s], f)
  BY <1>1 DEF IsReplay
<1>3. QED
  BY <1>2 DEF IsEvaluated, IsRead

\* No frame with a checkpointed number is evaluated by the step that reads it.
LEMMA KeptIsNotEvaluated ==
  ASSUME IInv, up, NEW s \in Sessions, NEW f \in Frame, NoteEvaluation(s, f),
         NEW t \in Sessions, NEW n \in kept[t]
  PROVE  evaluated'[t][n] = evaluated[t][n]
<1>1. evaluated \in [Sessions -> [0..MaxSeq -> Nat]] /\ n \in 0..MaxSeq
  BY DEF IInv, TypeOK
<1>2. CASE IsEvaluated(s, f)
  <2>1. evaluated' = [evaluated EXCEPT ![s][f.seq] = @ + 1]
    BY <1>2 DEF NoteEvaluation
  <2>2. t = s => f.seq # n
    BY <1>2, ReplayOfKept
  <2>3. QED
    BY <1>1, <2>1, <2>2
<1>3. CASE ~IsEvaluated(s, f)
  BY <1>3 DEF NoteEvaluation
<1>4. QED
  BY <1>2, <1>3

\* "A restart must not be a way to launder a replay": a frame whose sequence
\* number has been checkpointed is not evaluated again, in this run of the
\* process or after any crash (Session.check, save_session, restore).
THEOREM NoReplayLaundered == Spec => NoLaunderedReplay
<1> DEFINE Kept == \A s \in Sessions : \A n \in kept[s] :
                     evaluated'[s][n] = evaluated[s][n]
<1>1. IInv /\ [Next]_vars => [Kept]_vars
  <2> SUFFICES ASSUME IInv, [Next]_vars PROVE Kept
    OBVIOUS
  <2>1. ASSUME NEW c \in Conns, NEW f \in Frame,
               ReceiveFrame(c, f) \/ CrashInFrame(c, f)
        PROVE  Kept
    <3>1. up /\ conns[c] \in Sessions /\ NoteEvaluation(conns[c], f)
      BY <2>1 DEF IInv, TypeOK, ReceiveFrame, CrashInFrame
    <3>2. QED
      BY <3>1, KeptIsNotEvaluated
  <2>2. ASSUME UNCHANGED evaluated PROVE Kept
    BY <2>2
  <2>3. QED
    BY <2>1, <2>2 DEF Next, CreateSession, Connect, Disconnect, Tick, Elapse,
                      Crash, Restart, vars, history
<1>2. QED
  BY <1>1, GatewayInvariant, PTL DEF Spec, NoLaunderedReplay

Ahead(x, o) ==
  /\ x.last_seq >= o.last_seq
  /\ x.last_monotonic_ms >= o.last_monotonic_ms
  /\ \A b \in Breach : x.breach_counts[b] >= o.breach_counts[b]
  /\ o.ended_cleanly => x.ended_cleanly

\* Being at least as far is transitive.
LEMMA AheadTransitive ==
  ASSUME NEW x \in Session, NEW y \in Session, NEW z \in Session,
         Ahead(x, y), Ahead(y, z)
  PROVE  Ahead(x, z)
<1>1. /\ x.last_seq \in Int /\ x.last_monotonic_ms \in Int
      /\ \A b \in Breach : x.breach_counts[b] \in Int
  BY DEF Session
<1>2. /\ y.last_seq \in Int /\ y.last_monotonic_ms \in Int
      /\ \A b \in Breach : y.breach_counts[b] \in Int
  BY DEF Session
<1>3. /\ z.last_seq \in Int /\ z.last_monotonic_ms \in Int
      /\ \A b \in Breach : z.breach_counts[b] \in Int
  BY DEF Session
<1>4. \A b \in Breach : x.breach_counts[b] >= z.breach_counts[b]
  BY <1>1, <1>2, <1>3 DEF Ahead
<1>5. QED
  BY <1>1, <1>2, <1>3, <1>4 DEF Ahead

\* The record of a session never goes back: position, breach counts, end of
\* the exam (every save_session in the gateway).
THEOREM StoreNeverGoesBack == Spec => DurableProgress
<1> DEFINE Forward == \A s \in Sessions : Ahead(disk'[s], disk[s])
<1>1. ASSUME IInv, NEW s \in Sessions
      PROVE  /\ disk[s] \in Session /\ sessions[s] \in Session
             /\ Ahead(disk[s], disk[s])
             /\ up => Ahead(sessions[s], disk[s])
  <2>1. disk[s] \in Session /\ sessions[s] \in Session
    BY <1>1 DEF IInv, TypeOK
  <2>2. /\ disk[s].last_seq \in Int /\ disk[s].last_monotonic_ms \in Int
        /\ \A b \in Breach : disk[s].breach_counts[b] \in Nat
    BY <2>1 DEF Session
  <2>3. Ahead(disk[s], disk[s])
    BY <2>2 DEF Ahead
  <2>4. up => Ahead(sessions[s], disk[s])
    BY <1>1, <2>2 DEF IInv, Synchronised, Ahead
  <2>5. QED
    BY <2>1, <2>3, <2>4
<1>2. ASSUME IInv, NEW s \in Sessions, NEW x \in Session, up,
             disk' = [disk EXCEPT ![s] = ToRecord(x)], Ahead(x, sessions[s])
      PROVE  Forward
  <2>1. Ahead(ToRecord(x), disk[s])
    <3>1. Ahead(ToRecord(x), sessions[s])
      BY <1>2, ToRecordKeeps DEF Ahead
    <3>2. /\ ToRecord(x) \in Session /\ sessions[s] \in Session
          /\ disk[s] \in Session /\ Ahead(sessions[s], disk[s])
      BY <1>1, <1>2, ToRecordKeeps
    <3>3. QED
      BY <3>1, <3>2, AheadTransitive
  <2>2. disk \in [Sessions -> Session]
    BY <1>2 DEF IInv, TypeOK
  <2>3. \A t \in Sessions : Ahead(disk[t], disk[t])
    BY <1>1, <1>2
  <2>4. QED
    BY <1>2, <2>1, <2>2, <2>3
<1>3. IInv /\ [Next]_vars => [Forward]_vars
  <2> SUFFICES ASSUME IInv, [Next]_vars PROVE Forward
    OBVIOUS
  <2>1. ASSUME NEW s \in Sessions, CreateSession(s) PROVE Forward
    <3>1. disk[s] = NewSession /\ disk' = [disk EXCEPT ![s] = NewSession]
      BY <2>1, NewSessionRecord DEF CreateSession, IInv, Untouched
    <3>2. disk' = disk
      BY <3>1 DEF IInv, TypeOK
    <3>3. QED
      BY <1>1, <3>2
  <2>2. ASSUME NEW c \in Conns, NEW f \in Frame, ReceiveFrame(c, f)
        PROVE  Forward
    <3>1. /\ up /\ TypeOK /\ conns[c] \in Sessions
          /\ disk' = [disk EXCEPT ![conns[c]] = ToRecord(SessionAfter(conns[c], f))]
      BY <2>2 DEF IInv, TypeOK, ReceiveFrame
    <3>2. /\ SessionAfter(conns[c], f) \in Session
          /\ Ahead(SessionAfter(conns[c], f), sessions[conns[c]])
      BY <3>1, FrameSession DEF Ahead
    <3> HIDE DEF Forward
    <3>3. QED
      BY <1>2, <3>1, <3>2
  <2>3. ASSUME NEW c \in Conns, Disconnect(c) PROVE Forward
    <3> DEFINE x == [sessions[conns[c]] EXCEPT !.connected = FALSE]
    <3>1. /\ up /\ conns[c] \in Sessions /\ sessions[conns[c]] \in Session
          /\ disk' = [disk EXCEPT ![conns[c]] = ToRecord(x)]
      BY <2>3 DEF IInv, TypeOK, Disconnect
    <3>2. /\ x \in Session
          /\ x.last_seq = sessions[conns[c]].last_seq
          /\ x.last_monotonic_ms = sessions[conns[c]].last_monotonic_ms
          /\ x.breach_counts = sessions[conns[c]].breach_counts
          /\ x.ended_cleanly = sessions[conns[c]].ended_cleanly
      BY <3>1 DEF Session
    <3> HIDE DEF x
    <3>3. Ahead(x, sessions[conns[c]])
      <4>1. /\ x.last_seq \in Int /\ x.last_monotonic_ms \in Int
            /\ \A b \in Breach : x.breach_counts[b] \in Nat
        BY <3>2 DEF Session
      <4>2. QED
        BY <3>2, <4>1 DEF Ahead
    <3> HIDE DEF Forward
    <3>4. QED
      BY <1>2, <3>1, <3>2, <3>3
  <2>4. ASSUME UNCHANGED disk PROVE Forward
    BY <1>1, <2>4
  <2>5. QED
    BY <2>1, <2>2, <2>3, <2>4 DEF Next, Connect, CrashInFrame, Tick, Elapse,
                      Crash, Restart, vars, store
<1>4. QED
  BY <1>3, GatewayInvariant, PTL DEF Spec, DurableProgress, Ahead

(***************************************************************************)
(* The second invariant, on top of the first: what the durable stream      *)
(* state, the count of events, the watch for silence and the end of the    *)
(* exam rest on.                                                           *)
(***************************************************************************)

\* Whatever the check of the next frame reads is the same in y as in x.
SameStream(y, x) ==
  /\ y.last_seq = x.last_seq
  /\ y.last_monotonic_ms = x.last_monotonic_ms
  /\ y.first_client_ms = x.first_client_ms
  /\ y.first_server_ms = x.first_server_ms
  /\ y.events_received = x.events_received
  /\ y.ended_cleanly = x.ended_cleanly

SameFrameCounts(y, x) ==
  \A b \in Breach \ {Abandoned} : y.breach_counts[b] = x.breach_counts[b]

\* Only a session that exists has had a client in this run of the process.
AttachedExists == \A s \in Sessions : attached[s] => up /\ s \in created

\* The engine is closed for a session whose end is stored.
EndedIsClosed ==
  up => \A s \in Sessions : disk[s].ended_cleanly => engine[s].closed

\* What the store keeps is what the process has.
Durable ==
  up => \A s \in Sessions :
    SameStream(disk[s], sessions[s]) /\ SameFrameCounts(disk[s], sessions[s])

WInv ==
  /\ Durable
  /\ EventsAreDistinct
  /\ AttachedExists
  /\ WatchedUnlessOverlapped
  /\ EndedIsClosed

\* The two ways of listing the fields of a stream agree.
LEMMA DurableMeans == Durable => StreamStateDurable
<1> SUFFICES ASSUME Durable, up, NEW s \in Sessions
             PROVE  /\ \A field \in {"last_seq", "last_monotonic_ms",
                           "first_client_ms", "first_server_ms",
                           "events_received", "ended_cleanly"} :
                         disk[s][field] = sessions[s][field]
                    /\ \A b \in Breach \ {Abandoned} :
                         disk[s].breach_counts[b] = sessions[s].breach_counts[b]
  BY DEF StreamStateDurable
<1>1. SameStream(disk[s], sessions[s]) /\ SameFrameCounts(disk[s], sessions[s])
  BY DEF Durable
<1>2. QED
  BY <1>1 DEF SameStream, SameFrameCounts

\* A session has the same stream as itself, and being the same is transitive.
LEMMA SameStreamOrder ==
  /\ \A x : SameStream(x, x) /\ SameFrameCounts(x, x)
  /\ \A x, y, z : SameStream(x, y) /\ SameStream(y, z) => SameStream(x, z)
BY DEF SameStream, SameFrameCounts

\* A record has the stream and the counts of the session it is made of.
LEMMA ToRecordSame ==
  ASSUME NEW x \in Session
  PROVE  SameStream(ToRecord(x), x) /\ SameFrameCounts(ToRecord(x), x)
BY DEF ToRecord, Session, SameStream, SameFrameCounts

\* A breach leaves the stream alone, and the abandonment of a socket leaves
\* the counts that frames raise alone too.
LEMMA BreachedSame ==
  ASSUME NEW x \in Session, NEW b \in Breach, NEW t \in Nat
  PROVE  /\ SameStream(Breached(x, b, t), x)
         /\ b = Abandoned => SameFrameCounts(Breached(x, b, t), x)
<1>1. x.breach_counts \in [Breach -> Nat]
  BY DEF Session
<1>2. SameStream(Breached(x, b, t), x)
  BY DEF Breached, Session, SameStream
<1>3. Breached(x, b, t).breach_counts = [x.breach_counts EXCEPT ![b] = @ + 1]
  BY BreachedCounts
<1>4. QED
  BY <1>1, <1>2, <1>3 DEF SameFrameCounts

\* The check counts the frames that move the position, and those only.
LEMMA CheckedCounts ==
  ASSUME NEW x \in Session, NEW f, f.seq \in Nat, NEW t
  PROVE  /\ Checked(x, f, t).events_received =
              x.events_received + (IF Advances(x, f) THEN 1 ELSE 0)
         /\ Advances(x, f) => f.seq > x.last_seq
<1>1. x.events_received \in Nat /\ x.last_seq \in Int
  BY DEF Session
<1>2. CASE Advances(x, f)
  <2>1. Checked(x, f, t).events_received = x.events_received + 1
    BY <1>2 DEF Checked, Session
  <2>2. QED
    BY <1>1, <1>2, <2>1 DEF Advances, IsReplay
<1>3. CASE ~Advances(x, f)
  BY <1>1, <1>3 DEF Checked
<1>4. QED
  BY <1>2, <1>3

\* What a frame does to the count of events and to the end of the exam.
LEMMA FrameCounts ==
  ASSUME TypeOK, NEW s \in Sessions, NEW f \in Frame
  PROVE  /\ SessionAfter(s, f).events_received =
              sessions[s].events_received
                + (IF f.signed /\ Advances(sessions[s], f) THEN 1 ELSE 0)
         /\ SessionAfter(s, f).ended_cleanly =
              (sessions[s].ended_cleanly \/ Ends(s, f))
<1> DEFINE o == sessions[s]
           y == IF f.signed THEN Checked(o, f, now) ELSE o
           v == Verdicts(o, f)
           z == AfterCheck(s, f)
<1>1. o \in Session /\ now \in Nat
  BY Constants DEF TypeOK
<1>2. /\ y \in Session
      /\ y.ended_cleanly = o.ended_cleanly
      /\ y.events_received =
           o.events_received + (IF f.signed /\ Advances(o, f) THEN 1 ELSE 0)
  <2>1. CASE f.signed
    <3>1. y = Checked(o, f, now)
      BY <2>1
    <3>2. y \in Session /\ y.ended_cleanly = o.ended_cleanly
      BY <1>1, <3>1, FrameParts, CheckedAdvances
    <3>3. y.events_received =
            o.events_received + (IF Advances(o, f) THEN 1 ELSE 0)
      BY <1>1, <3>1, FrameParts, CheckedCounts
    <3> HIDE DEF o, y
    <3>4. QED
      BY <2>1, <3>2, <3>3
  <2>2. CASE ~f.signed
    <3>1. y = o /\ o.events_received \in Nat
      BY <1>1, <2>2 DEF Session
    <3> HIDE DEF o, y
    <3>2. QED
      BY <1>1, <2>2, <3>1
  <2>3. QED
    BY <2>1, <2>2
<1>3. \/ z = y
      \/ \E b \in Breach : z = Breached(y, b, now)
  <2>1. CASE v = {}
    BY <2>1 DEF AfterCheck
  <2>2. CASE v # {}
    <3>1. (CHOOSE b \in v : TRUE) \in Breach
      BY <2>2, VerdictsType
    <3>2. QED
      BY <2>2, <3>1 DEF AfterCheck
  <2>3. QED
    BY <2>1, <2>2
<1> HIDE DEF o, y, v, z
<1>4. z \in Session /\ SameStream(z, y)
  <2>1. \A b \in Breach : /\ Breached(y, b, now) \in Session
                          /\ SameStream(Breached(y, b, now), y)
    BY <1>1, <1>2, BreachedSame, BreachedCounts
  <2>2. y \in Session /\ SameStream(y, y)
    BY <1>2, SameStreamOrder
  <2>3. QED
    BY <1>3, <2>1, <2>2
<1>5. SessionAfter(s, f) =
        [z EXCEPT !.ended_cleanly = z.ended_cleanly \/ Ends(s, f)]
  BY DEF SessionAfter, z
<1>6. /\ SessionAfter(s, f).events_received = z.events_received
      /\ SessionAfter(s, f).ended_cleanly = (z.ended_cleanly \/ Ends(s, f))
  BY <1>4, <1>5 DEF Session
<1>7. QED
  BY <1>2, <1>4, <1>6 DEF SameStream, o

\* The sequence numbers kept for a session are finitely many.
LEMMA KeptFinite ==
  ASSUME TypeOK, NEW s \in Sessions
  PROVE  IsFiniteSet(kept[s]) /\ kept[s] \subseteq Nat
<1>1. MaxSeq \in Nat /\ kept[s] \in SUBSET (0..MaxSeq)
  BY Constants DEF TypeOK
<1>2. IsFiniteSet(0..MaxSeq)
  BY <1>1, FS_Interval
<1>3. IsFiniteSet(kept[s])
  BY <1>1, <1>2, FS_Subset
<1>4. QED
  BY <1>1, <1>3

\* The gateway starts in the second invariant.
LEMMA InitWInv == Init => WInv
<1> SUFFICES ASSUME Init PROVE WInv
  OBVIOUS
<1>1. Durable
  BY SameStreamOrder DEF Init, Durable
<1>2. EventsAreDistinct
  BY FS_EmptySet DEF Init, EventsAreDistinct, NewSession
<1>3. AttachedExists /\ WatchedUnlessOverlapped
  BY DEF Init, AttachedExists, WatchedUnlessOverlapped
<1>4. EndedIsClosed
  BY DEF Init, EndedIsClosed, NewSession
<1>5. QED
  BY <1>1, <1>2, <1>3, <1>4 DEF WInv

\* Creating a session preserves the second invariant.
LEMMA CreateSessionWInv ==
  ASSUME IInv, WInv, NEW s \in Sessions, CreateSession(s)
  PROVE  WInv'
<1>1. /\ disk[s] = NewSession /\ TypeOK /\ up
      /\ sessions' = [sessions EXCEPT ![s] = NewSession]
      /\ disk' = [disk EXCEPT ![s] = NewSession]
      /\ engine' = [engine EXCEPT ![s] = OpenedEngine(now)]
      /\ created' = created \cup {s}
      /\ UNCHANGED <<up, conns, history>>
  BY NewSessionRecord DEF IInv, Untouched, CreateSession
<1>2. disk' = disk
  BY <1>1 DEF TypeOK
<1>3. Durable'
  BY <1>1, SameStreamOrder DEF WInv, TypeOK, Durable
<1>4. EventsAreDistinct'
  BY <1>1, <1>2 DEF WInv, EventsAreDistinct, history
<1>5. AttachedExists'
  BY <1>1 DEF WInv, AttachedExists, history
<1>6. WatchedUnlessOverlapped'
  <2>1. ~attached[s]
    BY DEF WInv, AttachedExists, CreateSession
  <2>2. ~Live(s)
    BY Constants DEF IInv, Anchored, Live, CreateSession
  <2>3. \A t \in Sessions : Live(t)' = Live(t)
    BY <1>1 DEF Live
  <2>4. \A t \in Sessions : t # s => engine'[t] = engine[t]
    BY <1>1 DEF TypeOK
  <2>5. created' = created \cup {s} /\ up' = up
        /\ attached' = attached /\ overlapped' = overlapped
    BY <1>1 DEF history
  <2>6. \A t \in created : /\ Live(t) /\ ~overlapped[t] => engine[t].connected
                           /\ attached[t] /\ engine[t].connected => Live(t)
    BY <1>1 DEF WInv, WatchedUnlessOverlapped
  <2>7. \A t \in created : t \in Sessions /\ t # s
    BY <1>1 DEF TypeOK, CreateSession
  <2>8. QED
    BY <2>1, <2>2, <2>3, <2>4, <2>5, <2>6, <2>7, Zenon
       DEF WatchedUnlessOverlapped
<1>7. EndedIsClosed'
  BY <1>1, <1>2 DEF WInv, TypeOK, EndedIsClosed, NewSession
<1>8. QED
  BY <1>3, <1>4, <1>5, <1>6, <1>7 DEF WInv

\* Accepting a socket preserves the second invariant.
LEMMA ConnectWInv ==
  ASSUME IInv, WInv, NEW c \in Conns, NEW s \in Sessions, Connect(c, s)
  PROVE  WInv'
<1> DEFINE x == [sessions[s] EXCEPT !.connected = TRUE]
           e == EngineConnected(engine[s], TRUE)
<1>1. /\ TypeOK /\ up
      /\ sessions' = [sessions EXCEPT ![s] = x]
      /\ SameStream(x, sessions[s]) /\ SameFrameCounts(x, sessions[s])
  <2>1. sessions[s] \in Session /\ sessions \in [Sessions -> Session]
    BY DEF IInv, TypeOK
  <2>2. sessions' = [sessions EXCEPT ![s] = x]
    BY <2>1 DEF Connect, Session
  <2>3. SameStream(x, sessions[s]) /\ SameFrameCounts(x, sessions[s])
    BY <2>1 DEF Session, SameStream, SameFrameCounts
  <2>4. QED
    BY <2>2, <2>3 DEF IInv, Connect
<1>2. /\ engine' = [engine EXCEPT ![s] = e]
      /\ e.connected = TRUE /\ e.closed = engine[s].closed
  <2>1. engine[s] \in EngineSession /\ engine \in [Sessions -> EngineSession]
    BY <1>1 DEF TypeOK
  <2>2. QED
    BY <2>1 DEF Connect, EngineConnected, EngineSession
<1> HIDE DEF x, e
<1>3. Durable'
  <2>1. disk' = disk /\ up' = up
    BY DEF Connect, store
  <2>2. \A t \in Sessions :
          SameStream(disk[t], sessions[t]) /\ SameFrameCounts(disk[t], sessions[t])
    BY <1>1 DEF WInv, Durable
  <2>3. SameStream(disk[s], x) /\ SameFrameCounts(disk[s], x)
    BY <1>1, <2>2 DEF SameStream, SameFrameCounts
  <2>4. QED
    BY <1>1, <2>1, <2>2, <2>3 DEF TypeOK, Durable
<1>4. EventsAreDistinct'
  BY DEF WInv, EventsAreDistinct, Connect, store
<1>5. AttachedExists'
  BY <1>1 DEF WInv, TypeOK, AttachedExists, Connect, store
<1>6. WatchedUnlessOverlapped'
  <2>1. created' = created /\ up' = up
        /\ conns' = [conns EXCEPT ![c] = s]
        /\ attached' = [attached EXCEPT ![s] = TRUE]
        /\ overlapped' = [overlapped EXCEPT ![s] = FALSE]
    BY DEF Connect, store
  <2>2. Live(s)' /\ \A t \in Sessions : t # s => (Live(t)' <=> Live(t))
    <3>1. conns[c] = NoSession /\ conns \in [Conns -> Sessions \cup {NoSession}]
      BY <1>1 DEF Connect, TypeOK
    <3>2. QED
      BY <2>1, <3>1, Constants DEF Live
  <2>3. /\ engine'[s].connected
        /\ \A t \in Sessions : t # s =>
             /\ engine'[t] = engine[t] /\ attached'[t] = attached[t]
             /\ overlapped'[t] = overlapped[t]
    BY <1>1, <1>2, <2>1 DEF TypeOK
  <2>4. \A t \in created : /\ t \in Sessions
                           /\ Live(t) /\ ~overlapped[t] => engine[t].connected
                           /\ attached[t] /\ engine[t].connected => Live(t)
    BY <1>1 DEF WInv, WatchedUnlessOverlapped, TypeOK
  <2>5. QED
    BY <2>1, <2>2, <2>3, <2>4, Zenon DEF WatchedUnlessOverlapped
<1>7. EndedIsClosed'
  BY <1>1, <1>2 DEF WInv, TypeOK, EndedIsClosed, Connect, store
<1>8. QED
  BY <1>3, <1>4, <1>5, <1>6, <1>7 DEF WInv

\* A frame and its checkpoint preserve the second invariant.
LEMMA ReceiveFrameWInv ==
  ASSUME IInv, WInv, NEW c \in Conns, NEW f \in Frame, ReceiveFrame(c, f)
  PROVE  WInv'
<1> DEFINE s == conns[c]
           x == SessionAfter(s, f)
           d == ToRecord(x)
           counted == f.signed /\ Advances(sessions[s], f)
<1>1. TypeOK /\ s \in Sessions /\ s \in created /\ up
  BY Constants DEF IInv, TypeOK, Anchored, ReceiveFrame
<1>2. /\ x \in Session
      /\ x.events_received =
           sessions[s].events_received + (IF counted THEN 1 ELSE 0)
      /\ x.ended_cleanly = (sessions[s].ended_cleanly \/ Ends(s, f))
  BY <1>1, FrameSession, FrameCounts
<1>3. SameStream(d, x) /\ SameFrameCounts(d, x)
  BY <1>2, ToRecordSame
<1>4. PICK vs \in Publications(s, f) :
        engine' = [engine EXCEPT ![s] = EngineAfter(s, f, AnswerIn(s, f, vs))]
  BY DEF ReceiveFrame
<1> DEFINE e == EngineAfter(s, f, AnswerIn(s, f, vs))
<1>5. e.closed = (engine[s].closed \/ Ends(s, f))
      /\ e.connected = engine[s].connected
  <2>1. engine[s] \in EngineSession
    BY <1>1 DEF TypeOK
  <2>2. QED
    BY <2>1 DEF EngineAfter, EngineSession
<1>6. /\ sessions' = [sessions EXCEPT ![s] = x]
      /\ disk' = [disk EXCEPT ![s] = d]
      /\ engine' = [engine EXCEPT ![s] = e]
      /\ kept' = IF counted THEN [kept EXCEPT ![s] = @ \cup {f.seq}] ELSE kept
      /\ UNCHANGED <<up, conns, created, attached, overlapped>>
  BY <1>4 DEF ReceiveFrame
<1>7. counted => f.seq > sessions[s].last_seq
  BY <1>1, FrameParts, CheckedCounts DEF TypeOK
<1> HIDE DEF s, x, d, e, counted
<1>8. Durable'
  BY <1>1, <1>3, <1>6 DEF WInv, TypeOK, Durable
<1>9. EventsAreDistinct'
  <2>1. \A t \in Sessions : t # s =>
          disk'[t].events_received = Cardinality(kept'[t])
    BY <1>1, <1>6 DEF WInv, TypeOK, EventsAreDistinct
  <2>2. /\ disk[s].events_received = Cardinality(kept[s])
        /\ SameStream(disk[s], sessions[s])
        /\ \A n \in kept[s] : n =< disk[s].last_seq
    BY <1>1 DEF IInv, WInv, EventsAreDistinct, Durable, KeptBehind
  <2>3. disk'[s].events_received =
          Cardinality(kept[s]) + (IF counted THEN 1 ELSE 0)
    BY <1>1, <1>2, <1>3, <1>6, <2>2 DEF SameStream, TypeOK
  <2>4. IsFiniteSet(kept[s]) /\ kept[s] \subseteq Nat
    BY <1>1, KeptFinite
  <2>5. CASE counted
    <3>1. f.seq \notin kept[s]
      <4>1. sessions[s].last_seq \in Int /\ f.seq \in Nat
        BY <1>1, FrameParts DEF TypeOK, Session
      <4>2. f.seq > sessions[s].last_seq
            /\ \A n \in kept[s] : n =< sessions[s].last_seq
        BY <1>7, <2>2, <2>5 DEF SameStream
      <4>3. QED
        BY <4>1, <4>2
    <3>2. kept'[s] = kept[s] \cup {f.seq}
      BY <1>1, <1>6, <2>5 DEF TypeOK
    <3>3. Cardinality(kept'[s]) = Cardinality(kept[s]) + 1
      BY <2>4, <3>1, <3>2, FS_AddElement
    <3>4. disk'[s].events_received = Cardinality(kept'[s])
      BY <2>3, <2>5, <3>3
    <3>5. QED
      BY <2>1, <3>4 DEF EventsAreDistinct
  <2>6. CASE ~counted
    <3>1. kept' = kept /\ Cardinality(kept[s]) \in Nat
      BY <1>6, <2>4, <2>6, FS_CardinalityType
    <3>2. disk'[s].events_received = Cardinality(kept'[s])
      BY <2>3, <2>6, <3>1
    <3>3. QED
      BY <2>1, <3>2 DEF EventsAreDistinct
  <2>7. QED
    BY <2>5, <2>6
<1>10. AttachedExists'
  BY <1>6 DEF WInv, AttachedExists
<1>11. WatchedUnlessOverlapped'
  <2>1. \A t \in Sessions : /\ Live(t)' <=> Live(t)
                            /\ engine'[t].connected = engine[t].connected
    BY <1>1, <1>5, <1>6 DEF Live, TypeOK
  <2>2. \A t \in created : /\ t \in Sessions
                           /\ Live(t) /\ ~overlapped[t] => engine[t].connected
                           /\ attached[t] /\ engine[t].connected => Live(t)
    BY <1>1 DEF WInv, WatchedUnlessOverlapped, TypeOK
  <2>3. QED
    BY <1>6, <2>1, <2>2, Zenon DEF WatchedUnlessOverlapped
<1>12. EndedIsClosed'
  <2>1. /\ \A t \in Sessions : disk[t].ended_cleanly => engine[t].closed
        /\ SameStream(disk[s], sessions[s])
    BY <1>1 DEF WInv, EndedIsClosed, Durable
  <2>2. disk'[s].ended_cleanly => engine'[s].closed
    <3>1. disk'[s] = d /\ engine'[s] = e
      BY <1>1, <1>6 DEF TypeOK
    <3>2. d.ended_cleanly = (disk[s].ended_cleanly \/ Ends(s, f))
      BY <1>2, <1>3, <2>1 DEF SameStream
    <3>3. QED
      BY <1>1, <1>5, <2>1, <3>1, <3>2
  <2>3. \A t \in Sessions : t # s => disk'[t] = disk[t] /\ engine'[t] = engine[t]
    BY <1>1, <1>6 DEF TypeOK
  <2>4. QED
    BY <2>1, <2>2, <2>3 DEF EndedIsClosed
<1>13. QED
  BY <1>8, <1>9, <1>10, <1>11, <1>12 DEF WInv

\* The end of a socket preserves the second invariant: the breach it raises
\* is the one count the store may lack.
LEMMA DisconnectWInv ==
  ASSUME IInv, WInv, NEW c \in Conns, Disconnect(c)
  PROVE  WInv'
<1>0. PICK s \in Sessions : s = conns[c]
  BY DEF IInv, TypeOK, Disconnect
<1> DEFINE x == [sessions[s] EXCEPT !.connected = FALSE]
           d == ToRecord(x)
           y == IF ~x.ended_cleanly THEN Breached(x, Abandoned, now) ELSE x
           e == EngineConnected(engine[s], FALSE)
<1>1. TypeOK /\ s \in created /\ up /\ now \in Nat
  BY <1>0, Constants DEF IInv, TypeOK, Anchored, Disconnect
<1>2. /\ disk' = [disk EXCEPT ![s] = d]
      /\ sessions' = [sessions EXCEPT ![s] = y]
      /\ engine' = [engine EXCEPT ![s] = e]
      /\ conns' = [conns EXCEPT ![c] = NoSession]
      /\ overlapped' = [overlapped EXCEPT ![s] =
                          @ \/ \E k \in Conns \ {c} : conns[k] = s]
      /\ UNCHANGED <<up, created, kept, attached>>
  BY <1>0 DEF Disconnect
<1>3. x \in Session /\ SameStream(x, sessions[s]) /\ SameFrameCounts(x, sessions[s])
  <2>1. sessions[s] \in Session
    BY <1>1 DEF TypeOK
  <2>2. QED
    BY <2>1 DEF Session, SameStream, SameFrameCounts
<1>4. SameStream(y, x) /\ SameFrameCounts(y, x)
  <2>1. Abandoned \in Breach
    BY DEF Breach
  <2>2. SameStream(Breached(x, Abandoned, now), x)
        /\ SameFrameCounts(Breached(x, Abandoned, now), x)
    BY <1>1, <1>3, <2>1, BreachedSame
  <2> HIDE DEF x
  <2>3. QED
    BY <2>2, SameStreamOrder
<1>5. SameStream(d, x) /\ SameFrameCounts(d, x)
  BY <1>3, ToRecordSame
<1>6. e.connected = FALSE /\ e.closed = engine[s].closed
  <2>1. engine[s] \in EngineSession
    BY <1>1 DEF TypeOK
  <2>2. QED
    BY <2>1 DEF EngineConnected, EngineSession
<1> HIDE DEF x, d, y, e
<1>7. SameStream(disk[s], sessions[s])
  BY <1>1 DEF WInv, Durable
<1>8. Durable'
  <2>1. SameStream(d, y) /\ SameFrameCounts(d, y)
    BY <1>4, <1>5 DEF SameStream, SameFrameCounts
  <2>2. QED
    BY <1>1, <1>2, <2>1 DEF WInv, TypeOK, Durable
<1>9. EventsAreDistinct'
  <2>1. d.events_received = disk[s].events_received
    BY <1>3, <1>5, <1>7 DEF SameStream
  <2>2. QED
    BY <1>1, <1>2, <2>1 DEF WInv, TypeOK, EventsAreDistinct
<1>10. AttachedExists'
  BY <1>2 DEF WInv, AttachedExists
<1>11. WatchedUnlessOverlapped'
  <2>1. ~engine'[s].connected
    BY <1>1, <1>2, <1>6 DEF TypeOK
  <2>2. Live(s)' => overlapped'[s]
    <3>1. overlapped'[s] = (overlapped[s] \/ \E k \in Conns \ {c} : conns[k] = s)
      BY <1>1, <1>2 DEF TypeOK
    <3>2. conns'[c] # s /\ \A k \in Conns \ {c} : conns'[k] = conns[k]
      BY <1>1, <1>2, Constants DEF TypeOK
    <3>3. QED
      BY <3>1, <3>2 DEF Live
  <2>3. \A t \in Sessions : t # s =>
          /\ Live(t)' <=> Live(t)
          /\ engine'[t] = engine[t] /\ overlapped'[t] = overlapped[t]
    <3>1. ASSUME NEW t \in Sessions, t # s PROVE Live(t)' <=> Live(t)
      <4>1. conns[c] # t /\ conns'[c] # t
        BY <1>0, <1>1, <1>2, <3>1, Constants DEF TypeOK
      <4>2. \A k \in Conns \ {c} : conns'[k] = conns[k]
        BY <1>1, <1>2 DEF TypeOK
      <4>3. QED
        BY <4>1, <4>2 DEF Live
    <3>2. \A t \in Sessions : t # s =>
            engine'[t] = engine[t] /\ overlapped'[t] = overlapped[t]
      BY <1>1, <1>2 DEF TypeOK
    <3>3. QED
      BY <3>1, <3>2
  <2>4. \A t \in created : /\ t \in Sessions
                           /\ Live(t) /\ ~overlapped[t] => engine[t].connected
                           /\ attached[t] /\ engine[t].connected => Live(t)
    BY <1>1 DEF WInv, WatchedUnlessOverlapped, TypeOK
  <2>5. QED
    BY <1>2, <2>1, <2>2, <2>3, <2>4, Zenon DEF WatchedUnlessOverlapped
<1>12. EndedIsClosed'
  <2>1. d.ended_cleanly = disk[s].ended_cleanly
    BY <1>3, <1>5, <1>7 DEF SameStream
  <2>2. QED
    BY <1>1, <1>2, <1>6, <2>1 DEF WInv, TypeOK, EndedIsClosed
<1>13. QED
  BY <1>8, <1>9, <1>10, <1>11, <1>12 DEF WInv

\* A tick that raises silences preserves the second invariant.
LEMMA TickWInv == IInv /\ WInv /\ Tick => WInv'
<1> SUFFICES ASSUME IInv, WInv, Tick PROVE WInv'
  OBVIOUS
<1>1. TypeOK /\ up
  BY DEF IInv, Tick
<1>2. UNCHANGED <<up, sessions, conns, created, disk, kept, attached, overlapped>>
  BY DEF Tick, history
<1>3. \A s \in Sessions : /\ engine'[s].connected = engine[s].connected
                          /\ engine'[s].closed = engine[s].closed
  <2> SUFFICES ASSUME NEW s \in Sessions
               PROVE  /\ engine'[s].connected = engine[s].connected
                      /\ engine'[s].closed = engine[s].closed
    OBVIOUS
  <2>1. \/ engine'[s] = engine[s]
        \/ engine'[s] = [engine[s] EXCEPT !.liveness_last_fired_ms = now]
    BY DEF Tick
  <2>2. engine[s] \in EngineSession
    BY <1>1 DEF TypeOK
  <2>3. QED
    BY <2>1, <2>2 DEF EngineSession
<1>4. Durable' /\ EventsAreDistinct' /\ AttachedExists'
  BY <1>2 DEF WInv, Durable, EventsAreDistinct, AttachedExists
<1>5. WatchedUnlessOverlapped'
  <2>1. created \subseteq Sessions
    BY <1>1 DEF TypeOK
  <2>2. \A s \in Sessions : Live(s)' <=> Live(s)
    BY <1>2 DEF Live
  <2>3. QED
    BY <1>1, <1>2, <1>3, <2>1, <2>2, Zenon DEF WInv, WatchedUnlessOverlapped
<1>6. EndedIsClosed'
  BY <1>2, <1>3 DEF WInv, EndedIsClosed
<1>7. QED
  BY <1>4, <1>5, <1>6 DEF WInv

\* The passing of time preserves the second invariant.
LEMMA ElapseWInv == WInv /\ Elapse => WInv'
BY DEF WInv, Elapse, memory, store, history, Durable, EventsAreDistinct,
       AttachedExists, WatchedUnlessOverlapped, Live, EndedIsClosed

\* A dying process leaves the second invariant: what is in the store stays.
LEMMA MemoryLostWInv ==
  ASSUME IInv, WInv, MemoryLost, UNCHANGED <<disk, kept>>
  PROVE  WInv'
<1>1. ~up'
  BY DEF MemoryLost
<1>2. EventsAreDistinct'
  BY DEF WInv, EventsAreDistinct
<1>3. AttachedExists'
  BY DEF MemoryLost, AttachedExists
<1>4. QED
  BY <1>1, <1>2, <1>3 DEF WInv, Durable, WatchedUnlessOverlapped, EndedIsClosed

\* Restoring the sessions from the store preserves the second invariant.
LEMMA RestartWInv == IInv /\ WInv /\ Restart => WInv'
<1> SUFFICES ASSUME IInv, WInv, Restart PROVE WInv'
  OBVIOUS
<1>1. /\ ~up /\ up' /\ sessions' = disk
      /\ UNCHANGED <<conns, created, disk, kept, attached, overlapped>>
  BY DEF Restart, store, history
<1>2. \A s \in created : /\ engine'[s].connected = FALSE
                         /\ engine'[s].closed = disk[s].ended_cleanly
  BY DEF Restart, IInv, TypeOK, EngineConnected, OpenedEngine
<1>3. Durable'
  BY <1>1, SameStreamOrder DEF Durable
<1>4. EventsAreDistinct' /\ AttachedExists'
  BY <1>1 DEF WInv, EventsAreDistinct, AttachedExists
<1>5. WatchedUnlessOverlapped'
  <2>1. \A c \in Conns : conns[c] = NoSession
    BY <1>1 DEF IInv, Anchored
  <2>2. \A s \in Sessions : ~Live(s)'
    BY <1>1, <2>1, Constants DEF Live
  <2>3. created \subseteq Sessions
    BY DEF IInv, TypeOK
  <2>4. QED
    BY <1>1, <1>2, <2>2, <2>3, Zenon DEF WatchedUnlessOverlapped
<1>6. EndedIsClosed'
  <2>1. \A s \in Sessions : disk[s].ended_cleanly => s \in created
    BY DEF IInv, Untouched, NewSession
  <2>2. QED
    BY <1>1, <1>2, <2>1 DEF EndedIsClosed
<1>7. QED
  BY <1>3, <1>4, <1>5, <1>6 DEF WInv

\* Every step preserves the second invariant.
LEMMA NextWInv == IInv /\ WInv /\ [Next]_vars => WInv'
<1> SUFFICES ASSUME IInv, WInv, [Next]_vars PROVE WInv'
  OBVIOUS
<1>1. CASE UNCHANGED vars
  BY <1>1 DEF WInv, vars, memory, store, history, Durable, EventsAreDistinct,
     AttachedExists, WatchedUnlessOverlapped, Live, EndedIsClosed
<1>2. ASSUME NEW s \in Sessions, CreateSession(s) PROVE WInv'
  BY <1>2, CreateSessionWInv
<1>3. ASSUME NEW c \in Conns, NEW s \in Sessions, Connect(c, s) PROVE WInv'
  BY <1>3, ConnectWInv
<1>4. ASSUME NEW c \in Conns, NEW f \in Frame, ReceiveFrame(c, f) PROVE WInv'
  BY <1>4, ReceiveFrameWInv
<1>5. ASSUME NEW c \in Conns, NEW f \in Frame, CrashInFrame(c, f) PROVE WInv'
  BY <1>5, MemoryLostWInv DEF CrashInFrame
<1>6. ASSUME NEW c \in Conns, Disconnect(c) PROVE WInv'
  BY <1>6, DisconnectWInv
<1>7. ASSUME Crash PROVE WInv'
  BY <1>7, MemoryLostWInv DEF Crash, store
<1>8. QED
  BY <1>1, <1>2, <1>3, <1>4, <1>5, <1>6, <1>7, TickWInv, ElapseWInv,
     RestartWInv DEF Next

\* Both invariants hold throughout.
LEMMA GatewayInvariants == Spec => [](IInv /\ WInv)
BY GatewayInvariant, InitWInv, NextWInv, PTL DEF Spec

\* Between handlers the store has all that decides on the next frame: where
\* the stream is, when it began by both clocks, how many events it counted,
\* whether the exam has ended, and how many breaches of each kind its frames
\* raised ("Checkpoint on every frame", save_session in the socket's loop).
THEOREM CheckpointIsComplete == Spec => []StreamStateDurable
<1>1. WInv => StreamStateDurable
  BY DurableMeans DEF WInv
<1>2. QED
  BY <1>1, GatewayInvariants, PTL

\* events_received is the number of distinct sequence numbers whose checkpoint
\* reached the store: replays, rewound clocks, crashes and restarts neither
\* add to it nor take from it (Session.check, to_record, restore).
THEOREM EventsCountedOnce == Spec => []EventsAreDistinct
<1>1. WInv => EventsAreDistinct
  BY DEF WInv
<1>2. QED
  BY <1>1, GatewayInvariants, PTL

\* An open socket is watched for silence unless another socket of the same
\* session closed beside it, and a session with no socket is not watched once
\* a client has attached (engine.set_connected in the socket handler).
THEOREM SilenceWatch == Spec => []WatchedUnlessOverlapped
<1>1. WInv => WatchedUnlessOverlapped
  BY DEF WInv
<1>2. QED
  BY <1>1, GatewayInvariants, PTL

\* The rows a handler adds are breaches, and are all it adds to the store.
OnlyBreachesAdded(old, new) ==
  \A i \in DOMAIN new \ DOMAIN old : new[i].rule_id \in Breach

\* Appending breaches adds breaches only.
LEMMA BreachesAppended ==
  ASSUME NEW r \in Seq(Violation), NEW vs \in Seq(Violation),
         \A i \in 1..Len(vs) : vs[i].rule_id \in Breach
  PROVE  OnlyBreachesAdded(r, r \o vs)
<1> DEFINE w == r \o vs
<1>1. /\ Len(r) \in Nat /\ Len(vs) \in Nat
      /\ DOMAIN r = 1..Len(r) /\ DOMAIN w = 1..(Len(r) + Len(vs))
      /\ \A i \in 1..Len(vs) : w[Len(r) + i] = vs[i]
  BY LenProperties, ConcatProperties
<1> HIDE DEF w
<1> SUFFICES ASSUME NEW i \in DOMAIN w \ DOMAIN r PROVE w[i].rule_id \in Breach
  BY DEF OnlyBreachesAdded, w
<1>2. i - Len(r) \in 1..Len(vs) /\ w[i] = vs[i - Len(r)]
  BY <1>1
<1>3. QED
  BY <1>2

\* What a breach publishes is a breach.
LEMMA BreachRowsAreBreaches ==
  ASSUME NEW s, NEW x, NEW b \in Breach,
         NEW i \in DOMAIN BreachRows(s, x, b)
  PROVE  BreachRows(s, x, b)[i].rule_id \in Breach
<1>1. CASE Reportable(x, b, now)
  <2> DEFINE v == Raised(FreshId(s), b, FALSE)
             p == BreachRows(s, x, b)
  <2>1. p = <<v>>
    BY <1>1 DEF BreachRows
  <2>2. v.rule_id = b
    BY DEF Raised
  <2>3. i \in DOMAIN p
    OBVIOUS
  <2> HIDE DEF v, p
  <2>4. i = 1 /\ p[1] = v
    BY <2>1, <2>3
  <2>5. p[i].rule_id \in Breach
    BY <2>2, <2>4
  <2>6. QED
    BY <2>5 DEF p
<1>2. CASE ~Reportable(x, b, now)
  BY <1>2 DEF BreachRows
<1>3. QED
  BY <1>1, <1>2

\* For a session whose engine is closed a frame publishes breaches only:
\* on_event returns at once.
LEMMA ClosedPublishesBreaches ==
  ASSUME TypeOK, NEW s \in Sessions, engine[s].closed, NEW f \in Frame,
         NEW vs \in Publications(s, f)
  PROVE  \A i \in 1..Len(vs) : vs[i].rule_id \in Breach
<1> DEFINE v == Verdicts(sessions[s], f)
           p == BreachPart(s, f)
<1>1. p \in Seq(Violation)
  BY BreachPartType
<1>2. vs = p
  <2>1. ~IsEvaluated(s, f)
    BY DEF IsEvaluated
  <2>2. \A id : RuleAnswers(s, f, id) = {<<>>}
    BY <2>1 DEF RuleAnswers
  <2>3. vs = p \o <<>>
    BY <2>2 DEF Publications
  <2> HIDE DEF p
  <2>4. QED
    BY <1>1, <2>3
<1>3. \A i \in DOMAIN p : p[i].rule_id \in Breach
  <2>1. CASE v = {}
    <3>1. p = <<>>
      BY <2>1 DEF BreachPart
    <3> HIDE DEF p
    <3>2. QED
      BY <3>1
  <2>2. CASE v # {}
    <3>1. (CHOOSE b \in v : TRUE) \in Breach
      BY <2>2, VerdictsType
    <3>2. PICK b \in Breach : p = BreachRows(s, sessions[s], b)
      BY <2>2, <3>1 DEF BreachPart
    <3>3. QED
      BY <3>2, BreachRowsAreBreaches
  <2> HIDE DEF p, v
  <2>3. QED
    BY <2>1, <2>2
<1> HIDE DEF p
<1>4. QED
  BY <1>1, <1>2, <1>3, LenProperties

\* Once the end of the exam is stored the session's record of flags takes
\* breaches only, on any socket and in every later run of the process
\* (close_session, and restore closing what ended_cleanly says has ended).
THEOREM NothingFlaggedAfterTheEnd == Spec => EndIsFinal
<1> DEFINE Final == \A s \in Sessions : disk[s].ended_cleanly =>
                      OnlyBreachesAdded(rows[s], rows'[s])
<1>1. ASSUME IInv, NEW s \in Sessions, rows'[s] = rows[s]
      PROVE  OnlyBreachesAdded(rows[s], rows'[s])
  BY <1>1 DEF OnlyBreachesAdded
<1>2. ASSUME IInv, NEW s \in Sessions, NEW vs \in Seq(Violation),
             rows' = [rows EXCEPT ![s] = @ \o vs],
             disk[s].ended_cleanly => \A i \in 1..Len(vs) : vs[i].rule_id \in Breach
      PROVE  Final
  <2>1. rows \in [Sessions -> Seq(Violation)]
    BY <1>2 DEF IInv, TypeOK
  <2>2. ASSUME NEW t \in Sessions, t # s
        PROVE  OnlyBreachesAdded(rows[t], rows'[t])
    BY <1>1, <1>2, <2>1, <2>2
  <2>3. disk[s].ended_cleanly => OnlyBreachesAdded(rows[s], rows'[s])
    BY <1>2, <2>1, BreachesAppended
  <2>4. QED
    BY <2>2, <2>3
<1>3. IInv /\ WInv /\ [Next]_vars => [Final]_vars
  <2> SUFFICES ASSUME IInv, WInv, [Next]_vars PROVE Final
    OBVIOUS
  <2>1. ASSUME NEW c \in Conns, NEW f \in Frame,
               ReceiveFrame(c, f) \/ CrashInFrame(c, f)
        PROVE  Final
    <3> DEFINE s == conns[c]
    <3>1. up /\ TypeOK /\ s \in Sessions
      BY <2>1 DEF IInv, TypeOK, ReceiveFrame, CrashInFrame
    <3>2. PICK vs \in Publications(s, f) :
            \/ rows' = [rows EXCEPT ![s] = @ \o vs]
            \/ \E n \in 0..Len(vs) :
                 rows' = [rows EXCEPT ![s] = @ \o SubSeq(vs, 1, n)]
      BY <2>1 DEF ReceiveFrame, CrashInFrame, Publish
    <3> HIDE DEF s
    <3>3. vs \in Seq(Violation)
      BY <3>1, PublicationsType
    <3>4. disk[s].ended_cleanly => \A i \in 1..Len(vs) : vs[i].rule_id \in Breach
      BY <3>1, ClosedPublishesBreaches DEF WInv, EndedIsClosed
    <3>5. CASE rows' = [rows EXCEPT ![s] = @ \o vs]
      BY <1>2, <3>1, <3>3, <3>4, <3>5
    <3>6. ASSUME NEW n \in 0..Len(vs),
                 rows' = [rows EXCEPT ![s] = @ \o SubSeq(vs, 1, n)]
          PROVE  Final
      <4> DEFINE w == SubSeq(vs, 1, n)
      <4>1. /\ w \in Seq(Violation) /\ Len(w) = n /\ n =< Len(vs)
            /\ \A i \in 1..n : w[i] = vs[i]
        BY <3>3, SubSeqProperties
      <4>2. disk[s].ended_cleanly => \A i \in 1..Len(w) : w[i].rule_id \in Breach
        BY <3>3, <3>4, <4>1, LenProperties
      <4> HIDE DEF w, Final
      <4>3. rows' = [rows EXCEPT ![s] = @ \o w]
        BY <3>6 DEF w
      <4>4. QED
        BY <1>2, <3>1, <4>1, <4>2, <4>3
    <3>7. QED
      BY <3>2, <3>5, <3>6
  <2>2. ASSUME NEW c \in Conns, Disconnect(c) PROVE Final
    <3> DEFINE s == conns[c]
               x == [sessions[s] EXCEPT !.connected = FALSE]
               vs == IF ~x.ended_cleanly THEN BreachRows(s, x, Abandoned)
                     ELSE <<>>
    <3>1. TypeOK /\ s \in Sessions /\ rows' = [rows EXCEPT ![s] = @ \o vs]
      BY <2>2 DEF IInv, TypeOK, Disconnect
    <3>2. Abandoned \in Breach
      BY DEF Breach
    <3>3. BreachRows(s, x, Abandoned) \in Seq(Violation)
      BY <3>1, <3>2, BreachRowsType
    <3>4. vs \in Seq(Violation)
      BY <3>3
    <3>5. \A i \in DOMAIN vs : vs[i].rule_id \in Breach
      BY <3>2, BreachRowsAreBreaches
    <3> HIDE DEF vs, s, Final
    <3>6. \A i \in 1..Len(vs) : vs[i].rule_id \in Breach
      BY <3>4, <3>5, LenProperties
    <3>7. QED
      BY <1>2, <3>1, <3>4, <3>6
  <2>3. ASSUME Tick PROVE Final
    <3> SUFFICES ASSUME NEW s \in Sessions, disk[s].ended_cleanly
                 PROVE  OnlyBreachesAdded(rows[s], rows'[s])
      OBVIOUS
    <3>1. ~FallsSilent(s)
      BY <2>3 DEF WInv, EndedIsClosed, Tick, FallsSilent
    <3>2. rows'[s] = rows[s] \o <<>> /\ rows[s] \in Seq(Violation)
      BY <2>3, <3>1 DEF Tick, IInv, TypeOK
    <3>3. rows'[s] = rows[s]
      BY <3>2
    <3>4. QED
      BY <1>1, <3>3
  <2>4. ASSUME UNCHANGED rows PROVE Final
    BY <1>1, <2>4
  <2>5. QED
    BY <2>1, <2>2, <2>3, <2>4 DEF Next, CreateSession, Connect, Elapse, Crash,
                      Restart, vars, store
<1>4. QED
  BY <1>3, GatewayInvariants, PTL DEF Spec, EndIsFinal, OnlyBreachesAdded

===========================================================================
