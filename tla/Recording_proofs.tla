------------------------- MODULE Recording_proofs -------------------------
(***************************************************************************)
(* What the store says of recordings, for any number of egresses, handlers *)
(* and crashes, and whatever order webhooks and answers come in.           *)
(***************************************************************************)
EXTENDS Recording, TLAPS

(***************************************************************************)
(* The inductive invariant.  A call that is on its way must already agree  *)
(* with the SFU: its egress exists and is no other call's, the row it will *)
(* write is not there yet; and what a stop will write has no reference,    *)
(* since the row it was read from had none.                                *)
(***************************************************************************)
Holds(h, e) == handler[h].stage = "starting" /\ handler[h].egress = e

StartsAreReal ==
  \A h \in Handlers, e \in Egresses : Holds(h, e) =>
    /\ egress[e] # "none"
    /\ handler[h].kind = "manual" => rows[<<"manual", e>>] = NoRow
    /\ \A g \in Handlers : Holds(g, e) => g = h

StopsAreReal ==
  \A h \in Handlers : handler[h].stage = "stopping" =>
    /\ handler[h].row \in Stored
    /\ handler[h].record = [status |-> Stopping, ref |-> FALSE]

RefsComeLast ==
  \A r \in RowIds : rows[r].ref => rows[r].status \in {Available, Failed}

IInv == TypeOK /\ StatusIsTrue /\ StartsAreReal /\ StopsAreReal /\ RefsComeLast

\* The lifecycle, status by status.
LEMMA TransitionsTable ==
  /\ Transitions[Requested] = {Active, Stopping, Available, Failed}
  /\ Transitions[Active] = {Stopping, Available, Failed}
  /\ Transitions[Stopping] = {Available, Failed}
  /\ Transitions[Available] = {} /\ Transitions[Failed] = {}
BY DEF Transitions, Statuses, Requested, Active, Stopping, Available, Failed

\* The statuses differ.
LEMMA StatusesDiffer ==
  /\ Requested # Active /\ Requested # Stopping /\ Requested # Available
  /\ Requested # Failed /\ Active # Stopping /\ Active # Available
  /\ Active # Failed /\ Stopping # Available /\ Stopping # Failed
  /\ Available # Failed
  /\ \A s \in Statuses : s # "none"
BY DEF Statuses, Requested, Active, Stopping, Available, Failed

\* A row is there exactly when it has a status of the lifecycle.
LEMMA StoredRows ==
  ASSUME TypeOK, NEW r \in RowIds
  PROVE  /\ r \in Stored <=> rows[r] \in Record
         /\ r \notin Stored <=> rows[r] = NoRow
         /\ r \in Stored => rows[r].status \in Statuses /\ rows[r].ref \in BOOLEAN
<1>1. rows[r] \in Record \cup {NoRow}
  BY DEF TypeOK
<1>2. NoRow \notin Record
  BY StatusesDiffer DEF NoRow, Record
<1>3. QED
  BY <1>1, <1>2 DEF Stored, Record

\* An event moves a row along the lifecycle or leaves it; what it makes of a
\* true row is true, and the end of an egress leaves it settled.
LEMMA AppliedIsTrue ==
  ASSUME NEW x \in Record, NEW e, NEW event \in {Started, Ended},
         Deliverable(e, event), x.ref => x.status \in {Available, Failed},
         x.status = Available => egress[e] = "complete",
         x.status = Failed => egress[e] = "aborted",
         x.status \in {Available, Failed} => (x.ref <=> e \in Files)
  PROVE  LET y == Applied(x, e, event) IN
         /\ y \in Record
         /\ y.ref => y.status \in {Available, Failed}
         /\ y.status = Available => egress[e] = "complete"
         /\ y.status = Failed => egress[e] = "aborted"
         /\ y.status \in {Available, Failed} => (y.ref <=> e \in Files)
         /\ event = Ended => y.status \in {Available, Failed}
         /\ y = x \/ Rank[y.status] > Rank[x.status]
<1> DEFINE t == Target(e, event)
<1>1. t \in {Active, Available, Failed}
  BY DEF Target
<1>2. x.status \in Statuses /\ x.ref \in BOOLEAN
  BY DEF Record
<1>3. \/ x.status = Requested \/ x.status = Active \/ x.status = Stopping
      \/ x.status = Available \/ x.status = Failed
  BY <1>2 DEF Statuses
<1>4. CASE t \notin Transitions[x.status]
  <2>1. Applied(x, e, event) = x
    BY <1>4 DEF Applied
  <2>2. event = Ended => t \in {Available, Failed}
    BY DEF Target, Started, Ended
  <2>3. event = Ended => x.status \in {Available, Failed}
    BY <1>3, <1>4, <2>2, TransitionsTable
  <2>4. QED
    BY <2>1, <2>3
<1>5. CASE t \in Transitions[x.status]
  <2> DEFINE y == Applied(x, e, event)
             file == event = Ended /\ e \in Files
  <2>1. /\ y = [status |-> t, ref |-> x.ref \/ file]
        /\ x.status \in {Requested, Active, Stopping}
        /\ ~x.ref
    BY <1>2, <1>3, <1>5, TransitionsTable, StatusesDiffer DEF Applied
  <2>2. y.status = t /\ y.ref = file
    BY <2>1
  <2>3. y \in Record
    BY <1>1, <2>1 DEF Record, Statuses
  <2>4. /\ file => t \in {Available, Failed}
        /\ t \in {Available, Failed} => (file <=> e \in Files)
        /\ t = Available => egress[e] = "complete"
        /\ t = Failed => egress[e] = "aborted"
        /\ event = Ended => t \in {Available, Failed}
    BY StatusesDiffer DEF Target, Deliverable, Started, Ended
  <2>5. Rank[t] > Rank[x.status]
    BY <1>1, <1>5, <2>1, TransitionsTable
       DEF Rank, Statuses, Requested, Active, Stopping, Available, Failed
  <2> HIDE DEF t, y
  <2>6. QED
    BY <2>2, <2>3, <2>4, <2>5 DEF y
<1>6. QED
  BY <1>4, <1>5

(***************************************************************************)
(* The steps.                                                              *)
(***************************************************************************)
\* Nothing is recorded and nothing is asked for at the start.
LEMMA InitIInv == Init => IInv
<1> SUFFICES ASSUME Init PROVE IInv
  OBVIOUS
<1>1. TypeOK
  BY RecordingAssumption DEF Init, TypeOK, Handler, RecordingAssumption
<1>2. Stored = {} /\ \A h \in Handlers : handler[h] = Idle
  BY DEF Init, Stored
<1>3. Idle.stage = "idle"
  BY DEF Idle
<1>4. StatusIsTrue /\ StartsAreReal /\ StopsAreReal
  BY <1>2, <1>3 DEF StatusIsTrue, StartsAreReal, StopsAreReal, Holds
<1>5. RefsComeLast
  BY DEF Init, RefsComeLast, NoRow
<1>6. QED
  BY <1>1, <1>4, <1>5 DEF IInv

\* A handler that changes alone, to a state that asks nothing of the rows.
LEMMA HandlerIInv ==
  ASSUME IInv, NEW h \in Handlers, NEW x \in Handler,
         handler' = [handler EXCEPT ![h] = x], UNCHANGED <<rows, egress>>,
         crashes' \in 0..MaxCrashes,
         x.stage = "stopping" => /\ x.row \in Stored
                                 /\ x.record = [status |-> Stopping, ref |-> FALSE],
         x.stage = "starting" => x.egress = NoEgress
  PROVE  IInv'
<1>1. TypeOK /\ NoEgress \notin Egresses
  BY RecordingAssumption DEF IInv, RecordingAssumption
<1>2. /\ handler'[h] = x
      /\ \A g \in Handlers : g # h => handler'[g] = handler[g]
  BY <1>1 DEF TypeOK
<1>3. TypeOK'
  BY <1>1 DEF TypeOK
<1>4. StatusIsTrue' /\ RefsComeLast'
  BY DEF IInv, StatusIsTrue, RefsComeLast, Stored
<1>5. StopsAreReal'
  BY <1>2 DEF IInv, StopsAreReal, Stored
<1>6. \A g \in Handlers, e \in Egresses : Holds(g, e)' => Holds(g, e) /\ g # h
  BY <1>1, <1>2 DEF Holds
<1>7. StartsAreReal'
  BY <1>2, <1>6 DEF IInv, StartsAreReal
<1>8. QED
  BY <1>3, <1>4, <1>5, <1>7 DEF IInv

\* The end of a request asks nothing of the rows.
LEMMA IdleIInv ==
  ASSUME IInv, NEW h \in Handlers, handler' = [handler EXCEPT ![h] = Idle],
         UNCHANGED <<rows, egress, crashes>>
  PROVE  IInv'
<1>1. Idle \in Handler /\ Idle.stage = "idle"
  BY DEF Handler, Idle
<1>2. QED
  BY <1>1, HandlerIInv DEF IInv, TypeOK

\* The SFU gives a call an egress nothing is known of yet.
LEMMA EgressStartsIInv ==
  ASSUME IInv, NEW h \in Handlers, NEW e \in Egresses, EgressStarts(h, e)
  PROVE  IInv'
<1>1. TypeOK /\ NoEgress \notin Egresses
  BY RecordingAssumption DEF IInv, RecordingAssumption
<1> DEFINE x == [handler[h] EXCEPT !.egress = e]
<1>2. /\ handler[h].stage = "starting" /\ handler[h].egress = NoEgress
      /\ egress[e] = "none" /\ egress' = [egress EXCEPT ![e] = "active"]
      /\ handler' = [handler EXCEPT ![h] = x]
      /\ UNCHANGED <<rows, crashes>>
  BY DEF EgressStarts
<1>3. handler[h] \in
        [stage : {"starting"}, kind : Kinds, egress : Egresses \cup {NoEgress}]
  BY <1>1, <1>2 DEF TypeOK, Handler, Idle
<1>4. /\ x \in Handler /\ x.stage = "starting" /\ x.egress = e
      /\ x.kind = handler[h].kind
  BY <1>3 DEF Handler
<1> HIDE DEF x
<1>5. /\ handler'[h] = x
      /\ \A g \in Handlers : g # h => handler'[g] = handler[g]
      /\ egress'[e] = "active"
      /\ \A d \in Egresses : d # e => egress'[d] = egress[d]
  BY <1>1, <1>2 DEF TypeOK
<1>6. TypeOK'
  BY <1>1, <1>2, <1>4 DEF TypeOK
<1>7. \A r \in Stored : EgressOf(r) # e /\ EgressOf(r) \in Egresses
  BY <1>2 DEF IInv, StatusIsTrue, Stored, RowIds, EgressOf
<1>8. StatusIsTrue' /\ RefsComeLast' /\ StopsAreReal'
  <2>1. Stored' = Stored
    BY <1>2 DEF Stored
  <2>2. StatusIsTrue'
    BY <1>2, <1>5, <1>7, <2>1 DEF IInv, StatusIsTrue
  <2>3. RefsComeLast'
    BY <1>2 DEF IInv, RefsComeLast
  <2>4. StopsAreReal'
    BY <1>4, <1>5, <2>1 DEF IInv, StopsAreReal
  <2>5. QED
    BY <2>2, <2>3, <2>4
<1>9. StartsAreReal'
  <2>1. rows[<<"manual", e>>] = NoRow
    <3>1. <<"manual", e>> \in RowIds /\ EgressOf(<<"manual", e>>) = e
      BY DEF RowIds, Kinds, EgressOf
    <3>2. QED
      BY <1>7, <3>1 DEF Stored
  <2>2. \A g \in Handlers : ~Holds(g, e)
    BY <1>2 DEF IInv, StartsAreReal
  <2>3. \A g \in Handlers, d \in Egresses :
          Holds(g, d)' <=> IF g = h THEN d = e ELSE Holds(g, d)
    BY <1>4, <1>5 DEF Holds
  <2>4. QED
    BY <1>1, <1>2, <1>5, <2>1, <2>2, <2>3 DEF IInv, StartsAreReal, Holds
<1>10. QED
  BY <1>6, <1>8, <1>9 DEF IInv

\* The row of a call that returns: its egress runs or ran, and nobody else
\* writes it.
LEMMA StartReturnsIInv ==
  ASSUME IInv, NEW h \in Handlers, StartReturns(h)
  PROVE  IInv'
<1> DEFINE k == handler[h].kind
           e == handler[h].egress
           row == [status |-> Requested, ref |-> FALSE]
<1>1. TypeOK /\ NoEgress \notin Egresses
  BY RecordingAssumption DEF IInv, RecordingAssumption
<1>2. /\ handler[h].stage = "starting" /\ e # NoEgress
      /\ handler' = [handler EXCEPT ![h] = Idle]
      /\ UNCHANGED <<egress, crashes>>
  BY DEF StartReturns
<1>3. handler[h] \in
        [stage : {"starting"}, kind : Kinds, egress : Egresses \cup {NoEgress}]
  BY <1>1, <1>2 DEF TypeOK, Handler, Idle
<1>4. k \in Kinds /\ e \in Egresses /\ <<k, e>> \in RowIds
  BY <1>2, <1>3 DEF RowIds
<1>5. CASE ~WritesRow(k, e)
  BY <1>2, <1>5, IdleIInv DEF StartReturns
<1>6. CASE WritesRow(k, e)
  <2>1. rows' = [rows EXCEPT ![<<k, e>>] = row]
    BY <1>6 DEF StartReturns
  <2>2. row \in Record /\ row # NoRow
    BY StatusesDiffer DEF Record, Statuses, NoRow
  <2>3. /\ row.status = Requested /\ ~row.ref
    OBVIOUS
  <2> HIDE DEF row
  <2>4. /\ rows'[<<k, e>>] = row
        /\ \A r \in RowIds : r # <<k, e>> => rows'[r] = rows[r]
        /\ \A g \in Handlers : g # h => handler'[g] = handler[g]
        /\ handler'[h] = Idle /\ Idle.stage = "idle"
    <3>1. rows \in [RowIds -> Record \cup {NoRow}] /\ handler \in [Handlers -> Handler]
      BY <1>1 DEF TypeOK
    <3> HIDE DEF k, e
    <3>2. rows'[<<k, e>>] = row /\ \A r \in RowIds : r # <<k, e>> => rows'[r] = rows[r]
      BY <1>4, <2>1, <3>1
    <3>3. handler'[h] = Idle /\ \A g \in Handlers : g # h => handler'[g] = handler[g]
      BY <1>2, <3>1
    <3>4. QED
      BY <3>2, <3>3 DEF Idle
  <2>5. TypeOK'
    <3>1. Idle \in Handler
      BY DEF Handler
    <3>2. QED
      BY <1>1, <1>2, <1>4, <2>1, <2>2, <3>1 DEF TypeOK
  <2>6. Holds(h, e) /\ egress[e] # "none"
    BY <1>2, <1>4 DEF IInv, StartsAreReal, Holds
  <2>7. Stored' = Stored \cup {<<k, e>>}
    BY <1>4, <2>2, <2>4 DEF Stored
  <2>8. StatusIsTrue' /\ RefsComeLast'
    <3>1. EgressOf(<<k, e>>) = e
      BY DEF EgressOf
    <3>2. QED
      BY <1>2, <2>3, <2>4, <2>6, <2>7, <3>1, StatusesDiffer
         DEF IInv, StatusIsTrue, RefsComeLast, Stored
  <2>9. StopsAreReal'
    BY <2>4, <2>7 DEF IInv, StopsAreReal
  <2>10. StartsAreReal'
    <3>1. \A g \in Handlers, d \in Egresses : Holds(g, d)' => g # h /\ Holds(g, d)
      BY <2>4 DEF Holds
    <3>2. \A g \in Handlers : g # h => ~Holds(g, e)
      BY <1>4, <2>6 DEF IInv, StartsAreReal
    <3>3. \A d \in Egresses : d # e => <<"manual", d>> # <<k, e>>
      OBVIOUS
    <3>4. \A d \in Egresses : <<"manual", d>> \in RowIds
      BY DEF RowIds, Kinds
    <3>5. SUFFICES ASSUME NEW g \in Handlers, NEW d \in Egresses, Holds(g, d)'
                   PROVE  /\ egress'[d] # "none"
                          /\ handler'[g].kind = "manual" =>
                               rows'[<<"manual", d>>] = NoRow
                          /\ \A f \in Handlers : Holds(f, d)' => f = g
      BY DEF StartsAreReal
    <3>6. g # h /\ Holds(g, d) /\ d # e /\ handler'[g] = handler[g]
      BY <2>4, <3>1, <3>2, <3>5
    <3>7. QED
      BY <1>2, <2>4, <3>1, <3>3, <3>4, <3>6 DEF IInv, StartsAreReal
  <2>11. QED
    BY <2>5, <2>8, <2>9, <2>10 DEF IInv
<1>7. QED
  BY <1>5, <1>6

\* The answer to a stop writes a status that says nothing of the end.
LEMMA StopReturnsIInv ==
  ASSUME IInv, NEW h \in Handlers, StopReturns(h)
  PROVE  IInv'
<1> DEFINE r == handler[h].row
           row == [status |-> Stopping, ref |-> FALSE]
<1>1. TypeOK /\ r \in Stored /\ r \in RowIds
  BY DEF IInv, StopReturns, StopsAreReal, Stored
<1>2. /\ rows' = [rows EXCEPT ![r] = row]
      /\ handler' = [handler EXCEPT ![h] = Idle]
      /\ UNCHANGED <<egress, crashes>>
  BY DEF IInv, StopReturns, StopsAreReal
<1>3. row \in Record /\ row # NoRow /\ row.status = Stopping /\ ~row.ref
  BY StatusesDiffer DEF Record, Statuses, NoRow
<1> HIDE DEF r, row
<1>4. /\ rows'[r] = row /\ \A q \in RowIds : q # r => rows'[q] = rows[q]
      /\ handler'[h] = Idle /\ \A g \in Handlers : g # h => handler'[g] = handler[g]
  BY <1>1, <1>2 DEF TypeOK
<1>5. TypeOK'
  <2>1. Idle \in Handler
    BY DEF Handler
  <2>2. QED
    BY <1>1, <1>2, <1>3, <2>1 DEF TypeOK
<1>6. Stored' = Stored
  BY <1>1, <1>3, <1>4 DEF Stored
<1>7. StatusIsTrue' /\ RefsComeLast'
  BY <1>1, <1>2, <1>3, <1>4, <1>6, StatusesDiffer
     DEF IInv, StatusIsTrue, RefsComeLast, Stored
<1>8. StopsAreReal'
  <2>1. \A g \in Handlers : handler'[g].stage = "stopping" =>
          g # h /\ handler'[g] = handler[g]
    BY <1>4 DEF Idle
  <2>2. QED
    BY <1>6, <2>1 DEF IInv, StopsAreReal
<1>9. StartsAreReal'
  <2>1. \A g \in Handlers, e \in Egresses : Holds(g, e)' => g # h /\ Holds(g, e)
    BY <1>4 DEF Holds, Idle
  <2>2. \A e \in Egresses : rows[<<"manual", e>>] = NoRow =>
          rows'[<<"manual", e>>] = NoRow
    <3>1. \A e \in Egresses : <<"manual", e>> \in RowIds
      BY DEF RowIds, Kinds
    <3>2. rows[r] # NoRow
      BY <1>1 DEF Stored
    <3>3. QED
      BY <1>4, <3>1, <3>2
  <2>3. SUFFICES ASSUME NEW g \in Handlers, NEW e \in Egresses, Holds(g, e)'
                 PROVE  /\ egress'[e] # "none"
                        /\ handler'[g].kind = "manual" =>
                             rows'[<<"manual", e>>] = NoRow
                        /\ \A f \in Handlers : Holds(f, e)' => f = g
    BY DEF StartsAreReal
  <2>4. Holds(g, e) /\ handler'[g] = handler[g]
    BY <1>4, <2>1, <2>3
  <2>5. QED
    BY <1>2, <2>1, <2>2, <2>4 DEF IInv, StartsAreReal
<1>10. QED
  BY <1>5, <1>7, <1>8, <1>9 DEF IInv

\* An egress that runs has no row that says how it ended.
LEMMA EgressEndsIInv ==
  ASSUME IInv, NEW e \in Egresses, EgressEnds(e)
  PROVE  IInv'
<1>1. PICK how \in {"complete", "aborted"} :
        /\ egress[e] = "active" /\ egress' = [egress EXCEPT ![e] = how]
        /\ UNCHANGED <<rows, handler, crashes>>
  BY DEF EgressEnds
<1>2. egress'[e] = how /\ \A d \in Egresses : d # e => egress'[d] = egress[d]
  BY <1>1 DEF IInv, TypeOK
<1>3. TypeOK'
  BY <1>1 DEF IInv, TypeOK
<1>4. Stored' = Stored /\ \A r \in Stored : EgressOf(r) \in Egresses
  BY <1>1 DEF Stored, RowIds, EgressOf
<1>5. StatusIsTrue'
  BY <1>1, <1>2, <1>4 DEF IInv, StatusIsTrue
<1>6. StartsAreReal' /\ StopsAreReal' /\ RefsComeLast'
  BY <1>1, <1>2, <1>4 DEF IInv, StartsAreReal, StopsAreReal, RefsComeLast, Holds
<1>7. QED
  BY <1>3, <1>5, <1>6 DEF IInv

\* Rows that move along with what the SFU did.
LEMMA RowsIInv ==
  ASSUME IInv, NEW e \in Egresses, egress[e] # "none",
         NEW r \in RowIds, EgressOf(r) = e, NEW y \in Record,
         r \in Stored \/ r = <<"room", e>>,
         y.ref => y.status \in {Available, Failed},
         y.status = Available => egress[e] = "complete",
         y.status = Failed => egress[e] = "aborted",
         y.status \in {Available, Failed} => (y.ref <=> e \in Files),
         rows' = [rows EXCEPT ![r] = y], UNCHANGED <<handler, egress, crashes>>
  PROVE  IInv'
<1>1. TypeOK /\ y # NoRow
  BY StatusesDiffer DEF IInv, Record, NoRow
<1>2. rows'[r] = y /\ \A q \in RowIds : q # r => rows'[q] = rows[q]
  BY <1>1 DEF TypeOK
<1>3. TypeOK' /\ Stored' = Stored \cup {r}
  BY <1>1, <1>2 DEF TypeOK, Stored
<1>4. StatusIsTrue' /\ RefsComeLast'
  BY <1>2, <1>3 DEF IInv, StatusIsTrue, RefsComeLast, Stored
<1>5. StopsAreReal'
  BY <1>3 DEF IInv, StopsAreReal
<1>6. StartsAreReal'
  <2>1. \A d \in Egresses : rows[<<"manual", d>>] = NoRow =>
          rows'[<<"manual", d>>] = NoRow
    <3>1. \A d \in Egresses : <<"manual", d>> \in RowIds
      BY DEF RowIds, Kinds
    <3>2. \A d \in Egresses : <<"manual", d>> # <<"room", e>>
      OBVIOUS
    <3>3. QED
      BY <1>2, <3>1, <3>2 DEF Stored
  <2>2. QED
    BY <2>1 DEF IInv, StartsAreReal, Holds
<1>7. QED
  BY <1>3, <1>4, <1>5, <1>6 DEF IInv

\* The row a webhook finds or makes, before the event is applied to it.
LEMMA WebhookRow ==
  ASSUME IInv, NEW e \in Egresses, NEW event \in {Started, Ended}, Webhook(e, event)
  PROVE  \E r \in RowIds, x \in Record :
           /\ EgressOf(r) = e /\ (r \in Stored \/ r = <<"room", e>>)
           /\ rows' = [rows EXCEPT ![r] = Applied(x, e, event)]
           /\ x.ref => x.status \in {Available, Failed}
           /\ x.status = Available => egress[e] = "complete"
           /\ x.status = Failed => egress[e] = "aborted"
           /\ x.status \in {Available, Failed} => (x.ref <=> e \in Files)
           /\ rows[r] = x \/ (rows[r] = NoRow /\ x.status = Requested)
<1>1. TypeOK
  BY DEF IInv
<1>2. CASE RowsOf(e) = {}
  <2> DEFINE r == <<"room", e>>
             x == [status |-> Requested, ref |-> FALSE]
  <2>1. r \in RowIds /\ EgressOf(r) = e
    BY DEF RowIds, Kinds, EgressOf
  <2>2. x \in Record /\ x.status = Requested /\ ~x.ref
    BY DEF Record, Statuses
  <2>3. rows[r] = NoRow
    BY <1>2, <2>1 DEF RowsOf, Stored
  <2>4. rows' = [[rows EXCEPT ![r] = x] EXCEPT ![r] = Applied(@, e, event)]
    BY <1>2 DEF Webhook, NewRow
  <2>5. rows' = [rows EXCEPT ![r] = Applied(x, e, event)]
    <3>1. [rows EXCEPT ![r] = x][r] = x
      BY <1>1, <2>1 DEF TypeOK
    <3>2. QED
      BY <1>1, <2>1, <2>4, <3>1 DEF TypeOK
  <2>6. QED
    BY <2>1, <2>2, <2>3, <2>5, StatusesDiffer
<1>3. CASE RowsOf(e) # {}
  <2>1. PICK r \in RowsOf(e) : rows' = [rows EXCEPT ![r] = Applied(@, e, event)]
    BY <1>3 DEF Webhook
  <2>2. /\ r \in RowIds /\ r \in Stored /\ EgressOf(r) = e /\ rows[r] \in Record
    BY <1>1, <2>1, StoredRows DEF RowsOf, Stored
  <2>3. rows' = [rows EXCEPT ![r] = Applied(rows[r], e, event)]
    BY <2>1
  <2>4. QED
    BY <2>2, <2>3 DEF IInv, StatusIsTrue, RefsComeLast
<1>4. QED
  BY <1>2, <1>3

\* A delivered event is about an egress that started.
LEMMA WebhookIInv ==
  ASSUME IInv, NEW e \in Egresses, NEW event \in {Started, Ended}, Webhook(e, event)
  PROVE  IInv'
<1>1. PICK r \in RowIds, x \in Record :
           /\ EgressOf(r) = e /\ (r \in Stored \/ r = <<"room", e>>)
           /\ rows' = [rows EXCEPT ![r] = Applied(x, e, event)]
           /\ x.ref => x.status \in {Available, Failed}
           /\ x.status = Available => egress[e] = "complete"
           /\ x.status = Failed => egress[e] = "aborted"
           /\ x.status \in {Available, Failed} => (x.ref <=> e \in Files)
  BY WebhookRow
<1>2. Deliverable(e, event) /\ UNCHANGED <<handler, egress, crashes>>
  BY DEF Webhook
<1>3. egress[e] # "none"
  BY <1>2 DEF Deliverable
<1> DEFINE y == Applied(x, e, event)
<1>4. /\ y \in Record
      /\ y.ref => y.status \in {Available, Failed}
      /\ y.status = Available => egress[e] = "complete"
      /\ y.status = Failed => egress[e] = "aborted"
      /\ y.status \in {Available, Failed} => (y.ref <=> e \in Files)
  BY <1>1, <1>2, AppliedIsTrue
<1> HIDE DEF y
<1>5. rows' = [rows EXCEPT ![r] = y]
  BY <1>1 DEF y
<1>6. EgressOf(r) = e /\ (r \in Stored \/ r = <<"room", e>>)
  BY <1>1
<1>7. QED
  BY <1>2, <1>3, <1>4, <1>5, <1>6, RowsIInv, Zenon

\* A crash takes the requests with it and nothing else.
LEMMA CrashIInv ==
  ASSUME IInv, handler' = [h \in Handlers |-> Idle], UNCHANGED <<rows, egress>>,
         crashes < MaxCrashes, crashes' = crashes + 1
  PROVE  IInv'
<1>1. TypeOK'
  BY RecordingAssumption DEF IInv, TypeOK, Handler, RecordingAssumption
<1>2. \A h \in Handlers : handler'[h].stage = "idle"
  BY DEF Idle
<1>3. StartsAreReal' /\ StopsAreReal'
  BY <1>2 DEF StartsAreReal, StopsAreReal, Holds
<1>4. StatusIsTrue' /\ RefsComeLast'
  BY DEF IInv, StatusIsTrue, RefsComeLast, Stored
<1>5. QED
  BY <1>1, <1>3, <1>4 DEF IInv

\* ... also between the two writes of a webhook.
LEMMA CrashInWebhookIInv ==
  ASSUME IInv, NEW e \in Egresses, NEW event \in {Started, Ended},
         CrashInWebhook(e, event)
  PROVE  IInv'
<1> DEFINE r == <<"room", e>>
           row == [status |-> Requested, ref |-> FALSE]
<1>1. /\ rows' = [rows EXCEPT ![r] = row]
      /\ handler' = [h \in Handlers |-> Idle] /\ UNCHANGED egress
      /\ crashes < MaxCrashes /\ crashes' = crashes + 1
  BY DEF CrashInWebhook, NewRow
<1>2. /\ r \in RowIds /\ EgressOf(r) = e
      /\ row \in Record /\ row.status = Requested /\ ~row.ref /\ row # NoRow
  BY StatusesDiffer DEF RowIds, Kinds, EgressOf, Record, Statuses, NoRow
<1>3. egress[e] # "none"
  BY DEF CrashInWebhook, Deliverable
<1> HIDE DEF r, row
<1>4. rows'[r] = row /\ \A q \in RowIds : q # r => rows'[q] = rows[q]
  BY <1>1, <1>2 DEF IInv, TypeOK
<1>5. TypeOK' /\ Stored' = Stored \cup {r}
  <2>1. TypeOK'
    BY <1>1, <1>2, RecordingAssumption DEF IInv, TypeOK, Handler, RecordingAssumption
  <2>2. QED
    BY <1>2, <1>4, <2>1 DEF Stored
<1>6. StatusIsTrue' /\ RefsComeLast'
  BY <1>1, <1>2, <1>3, <1>4, <1>5, StatusesDiffer
     DEF IInv, StatusIsTrue, RefsComeLast, Stored
<1>7. \A h \in Handlers : handler'[h].stage = "idle"
  BY <1>1 DEF Idle
<1>8. StartsAreReal' /\ StopsAreReal'
  BY <1>7 DEF StartsAreReal, StopsAreReal, Holds
<1>9. QED
  BY <1>5, <1>6, <1>8 DEF IInv

\* Every step preserves the invariant.
LEMMA NextIInv == IInv /\ [Next]_vars => IInv'
<1> SUFFICES ASSUME IInv, [Next]_vars PROVE IInv'
  OBVIOUS
<1>1. CASE UNCHANGED vars
  <2>1. Stored' = Stored /\ UNCHANGED <<rows, handler, egress, crashes>>
    BY <1>1 DEF vars, Stored
  <2>2. TypeOK' /\ StatusIsTrue'
    BY <2>1 DEF IInv, TypeOK, StatusIsTrue
  <2>3. StartsAreReal'
    BY <2>1 DEF IInv, StartsAreReal, Holds
  <2>4. StopsAreReal' /\ RefsComeLast'
    BY <2>1 DEF IInv, StopsAreReal, RefsComeLast
  <2>5. QED
    BY <2>2, <2>3, <2>4 DEF IInv
<1>2. ASSUME NEW h \in Handlers, RoomStarted(h) \/ StartClicked(h) PROVE IInv'
  <2>1. PICK k \in Kinds :
          /\ handler' = [handler EXCEPT ![h] =
               [stage |-> "starting", kind |-> k, egress |-> NoEgress]]
          /\ UNCHANGED <<rows, egress, crashes>>
    BY <1>2 DEF RoomStarted, StartClicked, Kinds
  <2>2. [stage |-> "starting", kind |-> k, egress |-> NoEgress] \in Handler
    BY DEF Handler
  <2>3. QED
    BY <2>1, <2>2, HandlerIInv DEF IInv, TypeOK
<1>3. ASSUME NEW h \in Handlers, StartFails(h) \/ StopFails(h) PROVE IInv'
  BY <1>3, IdleIInv DEF StartFails, StopFails
<1>4. ASSUME NEW h \in Handlers, NEW r \in RowIds, StopClicked(h, r) PROVE IInv'
  <2> DEFINE x == [stage |-> "stopping", row |-> r,
                   record |-> [rows[r] EXCEPT !.status = Stopping],
                   accepted |-> FALSE]
  <2>1. /\ r \in Stored /\ Stopping \in Transitions[rows[r].status]
        /\ handler' = [handler EXCEPT ![h] = x]
        /\ UNCHANGED <<rows, egress, crashes>>
    BY <1>4 DEF StopClicked
  <2>2. rows[r] \in Record /\ rows[r].status \in Statuses /\ rows[r].ref \in BOOLEAN
    BY <2>1, StoredRows DEF IInv
  <2>3. rows[r].status \notin {Available, Failed}
    BY <2>1, TransitionsTable
  <2>4. rows[r].ref = FALSE
    BY <2>2, <2>3 DEF IInv, RefsComeLast
  <2>5. x.record = [status |-> Stopping, ref |-> FALSE]
    BY <2>2, <2>4 DEF Record
  <2>6. x \in Handler /\ x.stage = "stopping" /\ x.row = r
    BY <2>5 DEF Handler, Record, Statuses
  <2> HIDE DEF x
  <2>7. QED
    BY <2>1, <2>5, <2>6, HandlerIInv DEF IInv, TypeOK
<1>5. ASSUME NEW h \in Handlers, StopAccepted(h) PROVE IInv'
  <2> DEFINE x == [handler[h] EXCEPT !.accepted = TRUE]
  <2>1. /\ handler[h].stage = "stopping"
        /\ handler' = [handler EXCEPT ![h] = x]
        /\ UNCHANGED <<rows, egress, crashes>>
    BY <1>5 DEF StopAccepted
  <2>2. handler[h] \in
          [stage : {"stopping"}, row : RowIds, record : Record, accepted : BOOLEAN]
    BY <2>1 DEF IInv, TypeOK, Handler, Idle
  <2>3. /\ x \in Handler /\ x.stage = "stopping"
        /\ x.row = handler[h].row /\ x.record = handler[h].record
    BY <2>2 DEF Handler
  <2>4. x.row \in Stored /\ x.record = [status |-> Stopping, ref |-> FALSE]
    BY <2>1, <2>3 DEF IInv, StopsAreReal
  <2> HIDE DEF x
  <2>5. QED
    BY <2>1, <2>3, <2>4, HandlerIInv DEF IInv, TypeOK
<1>6. CASE Crash
  BY <1>6, CrashIInv DEF Crash
<1>7. QED
  BY <1>1, <1>2, <1>3, <1>4, <1>5, <1>6, EgressStartsIInv, StartReturnsIInv,
     StopReturnsIInv, EgressEndsIInv, WebhookIInv, CrashInWebhookIInv DEF Next

(***************************************************************************)
(* The theorems.                                                           *)
(***************************************************************************)
\* The invariant holds throughout.
LEMMA RecordingInvariant == Spec => []IInv
BY InitIInv, NextIInv, PTL DEF Spec

\* What the store says of a recording happened: it is never called available
\* without a file, nor failed with one, in whatever order webhooks and answers
\* come in and wherever the process dies (_apply_webhook_event and the two
\* handlers that call the SFU).
THEOREM StoreTellsTheTruth == Spec => []StatusIsTrue
<1>1. IInv => StatusIsTrue
  BY DEF IInv
<1>2. QED
  BY <1>1, RecordingInvariant, PTL

\* A row does not go back in a step that is not the answer to a stop: what a
\* start writes was not there, and a webhook moves rows along the lifecycle.
LEMMA StepsMoveOn ==
  ASSUME IInv, [Next]_vars, NEW r \in RowIds
  PROVE  \/ Rank[rows'[r].status] > Rank[rows[r].status]
         \/ rows'[r] = rows[r]
         \/ \E h \in Handlers : /\ handler[h].stage = "stopping"
                                /\ handler[h].row = r
                                /\ handler'[h] = Idle
<1>1. TypeOK /\ IInv' /\ NoEgress \notin Egresses
  BY NextIInv, RecordingAssumption DEF IInv, RecordingAssumption
<1>2. /\ Rank[NoRow.status] = 0
      /\ \A s \in Statuses : Rank[s] > 0
  BY DEF Rank, NoRow, Statuses, Requested, Active, Stopping, Available, Failed
<1>3. CASE UNCHANGED rows
  BY <1>3
<1>4. ASSUME NEW h \in Handlers, StartReturns(h)
      PROVE  Rank[rows'[r].status] > Rank[rows[r].status] \/ rows'[r] = rows[r]
  <2> DEFINE k == handler[h].kind
             e == handler[h].egress
             row == [status |-> Requested, ref |-> FALSE]
  <2>1. handler[h] \in
          [stage : {"starting"}, kind : Kinds, egress : Egresses \cup {NoEgress}]
    BY <1>1, <1>4 DEF TypeOK, Handler, Idle, StartReturns
  <2>2. k \in Kinds /\ e \in Egresses /\ <<k, e>> \in RowIds /\ Holds(h, e)
    BY <2>1, <1>4 DEF RowIds, StartReturns, Holds
  <2>3. CASE WritesRow(k, e)
    <3>1. rows' = [rows EXCEPT ![<<k, e>>] = row]
      BY <1>4, <2>3 DEF StartReturns
    <3>2. rows[<<k, e>>] = NoRow
      <4>1. CASE k = "room"
        BY <2>2, <2>3, <4>1 DEF WritesRow, RowsOf, Stored, EgressOf
      <4>2. CASE k = "manual"
        BY <2>2, <4>2 DEF IInv, StartsAreReal
      <4>3. QED
        BY <2>2, <4>1, <4>2 DEF Kinds
    <3>3. row.status = Requested /\ Requested \in Statuses
      BY DEF Statuses
    <3> HIDE DEF row, k, e
    <3>4. rows'[<<k, e>>] = row /\ (r # <<k, e>> => rows'[r] = rows[r])
      BY <1>1, <2>2, <3>1 DEF TypeOK
    <3>5. QED
      BY <1>2, <3>2, <3>3, <3>4
  <2>4. CASE ~WritesRow(k, e)
    BY <1>4, <2>4 DEF StartReturns
  <2>5. QED
    BY <2>3, <2>4
<1>5. ASSUME NEW h \in Handlers, StopReturns(h)
      PROVE  \/ rows'[r] = rows[r]
             \/ /\ handler[h].stage = "stopping" /\ handler[h].row = r
                /\ handler'[h] = Idle
  <2>1. /\ handler[h].stage = "stopping" /\ handler'[h] = Idle
        /\ rows' = [rows EXCEPT ![handler[h].row] = handler[h].record]
    BY <1>1, <1>5 DEF StopReturns, TypeOK
  <2>2. QED
    BY <1>1, <2>1 DEF TypeOK
<1>6. ASSUME NEW e \in Egresses, NEW event \in {Started, Ended}, Webhook(e, event)
      PROVE  Rank[rows'[r].status] > Rank[rows[r].status] \/ rows'[r] = rows[r]
  <2>1. PICK q \in RowIds, x \in Record :
           /\ rows' = [rows EXCEPT ![q] = Applied(x, e, event)]
           /\ x.ref => x.status \in {Available, Failed}
           /\ x.status = Available => egress[e] = "complete"
           /\ x.status = Failed => egress[e] = "aborted"
           /\ x.status \in {Available, Failed} => (x.ref <=> e \in Files)
           /\ rows[q] = x \/ (rows[q] = NoRow /\ x.status = Requested)
    BY <1>6, WebhookRow
  <2> DEFINE y == Applied(x, e, event)
  <2>2. /\ y \in Record
        /\ y = x \/ Rank[y.status] > Rank[x.status]
    BY <1>6, <2>1, AppliedIsTrue DEF Webhook
  <2> HIDE DEF y
  <2>3. rows'[q] = y /\ (r # q => rows'[r] = rows[r])
    BY <1>1, <2>1 DEF TypeOK, y
  <2>4. y.status \in Statuses
    BY <2>2 DEF Record
  <2>5. QED
    BY <1>2, <2>1, <2>2, <2>3, <2>4
<1>7. ASSUME NEW e \in Egresses, NEW event \in {Started, Ended},
             CrashInWebhook(e, event)
      PROVE  Rank[rows'[r].status] > Rank[rows[r].status] \/ rows'[r] = rows[r]
  <2> DEFINE q == <<"room", e>>
             row == [status |-> Requested, ref |-> FALSE]
  <2>1. rows' = [rows EXCEPT ![q] = row] /\ RowsOf(e) = {}
    BY <1>7 DEF CrashInWebhook, NewRow
  <2>2. q \in RowIds /\ EgressOf(q) = e
    BY DEF RowIds, Kinds, EgressOf
  <2>3. rows[q] = NoRow
    BY <2>1, <2>2 DEF RowsOf, Stored
  <2>4. row.status = Requested /\ Requested \in Statuses
    BY DEF Statuses
  <2> HIDE DEF q, row
  <2>5. rows'[q] = row /\ (r # q => rows'[r] = rows[r])
    BY <1>1, <2>1, <2>2 DEF TypeOK
  <2>6. QED
    BY <1>2, <2>3, <2>4, <2>5
<1>8. QED
  BY <1>3, <1>4, <1>5, <1>6, <1>7
     DEF Next, vars, RoomStarted, StartClicked, EgressStarts, StartFails,
         StopClicked, StopAccepted, StopFails, EgressEnds, Crash

\* Only the late answer to a stop walks a recording back (the record it made
\* before it waited): no webhook does, once or again, and no other call.
THEOREM NothingElseWalksBack == Spec => OnlyStopsWalkBack
<1>1. IInv /\ [Next]_vars =>
        [\A r \in RowIds :
           \/ Rank[rows'[r].status] > Rank[rows[r].status]
           \/ rows'[r] = rows[r]
           \/ \E h \in Handlers : /\ handler[h].stage = "stopping"
                                  /\ handler[h].row = r
                                  /\ handler'[h] = Idle]_vars
  BY StepsMoveOn
<1>2. QED
  BY <1>1, RecordingInvariant, PTL DEF Spec, OnlyStopsWalkBack

\* The end of an egress settles a row whenever it is delivered: there is one
\* to settle or one is made, and every status it can have may end.
THEOREM EveryEndSettles == Spec => EndSettles
<1> DEFINE Settles(e) == \E r \in RowsOf(e)' : rows'[r].status \in {Available, Failed}
<1>1. IInv /\ [Next]_vars =>
        [\A e \in Egresses : Webhook(e, Ended) => Settles(e)]_vars
  <2> SUFFICES ASSUME IInv, NEW e \in Egresses, Webhook(e, Ended)
               PROVE  Settles(e)
    OBVIOUS
  <2>1. PICK r \in RowIds, x \in Record :
           /\ EgressOf(r) = e
           /\ rows' = [rows EXCEPT ![r] = Applied(x, e, Ended)]
           /\ x.ref => x.status \in {Available, Failed}
           /\ x.status = Available => egress[e] = "complete"
           /\ x.status = Failed => egress[e] = "aborted"
           /\ x.status \in {Available, Failed} => (x.ref <=> e \in Files)
    BY WebhookRow
  <2> DEFINE y == Applied(x, e, Ended)
  <2>2. y \in Record /\ y.status \in {Available, Failed}
    BY <2>1, AppliedIsTrue DEF Webhook
  <2> HIDE DEF y
  <2>3. rows'[r] = y
    BY <2>1 DEF IInv, TypeOK, y
  <2>4. r \in RowsOf(e)'
    BY <2>1, <2>2, <2>3, StatusesDiffer DEF RowsOf, Stored, NoRow, Record
  <2>5. QED
    BY <2>2, <2>3, <2>4
<1>2. QED
  BY <1>1, RecordingInvariant, PTL DEF Spec, EndSettles

===========================================================================
