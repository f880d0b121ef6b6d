------------------------------- MODULE Store -------------------------------
(***************************************************************************)
(* The durable store (store.py): its tables as a record, one operator per  *)
(* method.  A table with a primary key is a function, one with an          *)
(* autoincremented id the sequence of its rows; of a row the columns are   *)
(* kept that something depends on.  Every method commits before it         *)
(* returns, so what a method does is one step.                             *)
(***************************************************************************)
EXTENDS Integers, SequencesExt

\* _SCHEMA
EmptyStore ==
  [sessions           |-> <<>>,
   violations         |-> <<>>,
   identity_templates |-> <<>>,
   identity_checks    |-> <<>>,
   audio_transcripts  |-> <<>>,
   audio_checks       |-> <<>>]

\* INSERT ... ON CONFLICT DO UPDATE
Upsert(table, key, row) ==
  [k \in DOMAIN table \cup {key} |-> IF k = key THEN row ELSE table[k]]

---------------------------------------------------------------------------
(* Sessions and violations.                                                *)

SaveSession(db, s, now) ==
  [db EXCEPT !.sessions = Upsert(@, s, [updated_ms |-> now])]

LoadSessions(db) == DOMAIN db.sessions

AppendViolation(db, v, now) ==
  [db EXCEPT !.violations = Append(@,
     [session_id |-> v.session_id, id |-> v.id, rule_id |-> v.rule_id,
      resolved |-> v.resolved, opened_at_ms |-> v.opened_at_ms,
      transcript_ref |-> v.transcript_ref, recorded_ms |-> now])]

\* ORDER BY recorded_ms, id
RecordedBefore(rows, i, j) ==
  \/ rows[i].recorded_ms < rows[j].recorded_ms
  \/ rows[i].recorded_ms = rows[j].recorded_ms /\ i < j

RowsOf(rows, s) == {i \in DOMAIN rows : rows[i].session_id = s}

\* The `limit` newest rows of s, by the time they were recorded.
NewestOf(rows, s, limit) ==
  {i \in RowsOf(rows, s) :
     Cardinality({j \in RowsOf(rows, s) : RecordedBefore(rows, i, j)}) < limit}

\* ORDER BY, over positions: each has as many before it as its place says.
Sorted(S, Before(_, _)) ==
  [k \in 1 .. Cardinality(S) |->
     CHOOSE i \in S : Cardinality({j \in S : Before(j, i)}) = k - 1]

\* Mutated form of LoadViolations: newest first.
LoadViolationsNewestFirst(db, s, limit) ==
  LET After(i, j) == RecordedBefore(db.violations, j, i)
      order == Sorted(NewestOf(db.violations, s, limit), After)
  IN [k \in DOMAIN order |-> db.violations[order[k]]]

\* One session's group, oldest first.
LoadViolations(db, s, limit) ==
  LET Before(i, j) == RecordedBefore(db.violations, i, j)
      order == Sorted(NewestOf(db.violations, s, limit), Before)
  IN [k \in DOMAIN order |-> db.violations[order[k]]]

\* The earliest row of an id, which is its firing while that is kept.
LoadViolation(db, id) ==
  db.violations[Min({i \in DOMAIN db.violations : db.violations[i].id = id})]

---------------------------------------------------------------------------
(* Identity.                                                               *)

SaveTemplate(db, s, embedder, reference, now) ==
  [db EXCEPT !.identity_templates =
     Upsert(@, s, [embedder |-> embedder, reference |-> reference,
                   created_ms |-> now])]

LoadTemplates(db) == db.identity_templates

AppendIdentityCheck(db, s, outcome, now) ==
  [db EXCEPT !.identity_checks =
     Append(@, [session_id |-> s, outcome |-> outcome, recorded_ms |-> now])]

\* Newest first.
NewestFirst(rows, s, limit) ==
  LET After(i, j) == RecordedBefore(rows, j, i)
      order == Sorted(NewestOf(rows, s, limit), After)
  IN [k \in DOMAIN order |-> rows[order[k]]]

LoadIdentityChecks(db, s, limit) == NewestFirst(db.identity_checks, s, limit)

---------------------------------------------------------------------------
(* Audio.                                                                  *)

SaveTranscript(db, id, s, now) ==
  [db EXCEPT !.audio_transcripts =
     Upsert(@, id, [session_id |-> s, recorded_ms |-> now])]

LoadTranscript(db, id) == db.audio_transcripts[id]

AppendAudioCheck(db, s, id, label, now) ==
  [db EXCEPT !.audio_checks =
     Append(@, [session_id |-> s, transcript_id |-> id, label |-> label,
                recorded_ms |-> now])]

LoadAudioChecks(db, s, limit) == NewestFirst(db.audio_checks, s, limit)

---------------------------------------------------------------------------
(* Retention.                                                              *)

\* DELETE ... WHERE column < cutoff, for either kind of table.
Younger(rows, cutoff) ==
  LET order == Sorted({i \in DOMAIN rows : rows[i].recorded_ms >= cutoff}, <)
  IN [k \in DOMAIN order |-> rows[order[k]]]

RestrictTo(table, keys) == [k \in keys |-> table[k]]

PurgeTemplatesOlderThan(db, cutoff) ==
  [db EXCEPT !.identity_templates =
     RestrictTo(@, {s \in DOMAIN @ : @[s].created_ms >= cutoff})]

\* Mutated form of PurgeTranscriptsOlderThan: the whole table.
PurgeTranscriptsAll(db, cutoff) == [db EXCEPT !.audio_transcripts = <<>>]

PurgeTranscriptsOlderThan(db, cutoff) ==
  [db EXCEPT !.audio_transcripts =
     RestrictTo(@, {id \in DOMAIN @ : @[id].recorded_ms >= cutoff})]

PurgeOlderThan(db, cutoff) ==
  [db EXCEPT
     !.violations      = Younger(@, cutoff),
     !.identity_checks = Younger(@, cutoff),
     !.audio_checks    = Younger(@, cutoff),
     !.sessions        = RestrictTo(@, {s \in DOMAIN @ : @[s].updated_ms >= cutoff})]

============================================================================
