---------------------------- MODULE WorkerChecks ----------------------------
(***************************************************************************)
(* The Worker's checks that keep no state: whether the history of          *)
(* migrations fits the release (schema.rs), and how much of a request's    *)
(* body is read and what becomes of the inbox (api.rs).                    *)
(***************************************************************************)
EXTENDS Integers, Sequences

-----------------------------------------------------------------------------
(* Schema readiness.  The name n stands for the file name of the n-th      *)
(* migration this release knows of.                                        *)

RELEASE_SCHEMA_REQUIREMENT == [migration_id |-> 7, migration_name |-> 7]
KNOWN_MIGRATIONS == 7
COMPATIBLE_FUTURE_MIGRATIONS == {[migration_id |-> 8, migration_name |-> 8]}
EmptyName == 0

\* What is wrong with the i-th record, if anything is.
RecordFault(history, i) ==
  IF history[i].migration_id # i \/ history[i].migration_name = EmptyName
    THEN "history_incomplete"
  ELSE IF \/ i <= KNOWN_MIGRATIONS /\ history[i].migration_name # i
          \/ i > KNOWN_MIGRATIONS /\ history[i] \notin COMPATIBLE_FUTURE_MIGRATIONS
    THEN "name_mismatch"
    ELSE "none"

\* assess_migration_history, "none" for a database that is ready.
Assess(history, requirement) ==
  LET faulty == {i \in DOMAIN history : RecordFault(history, i) # "none"}
      required == {i \in DOMAIN history : history[i].migration_id = requirement.migration_id}
  IN  CASE history = <<>> -> "missing_history"
        [] faulty # {} -> RecordFault(history, CHOOSE i \in faulty : \A j \in faulty : i <= j)
        [] faulty = {} /\ history # <<>> /\ required = {} -> "schema_outdated"
        [] OTHER -> IF \E i \in required : history[i].migration_name = requirement.migration_name
                      THEN "none" ELSE "name_mismatch"

\* inspect: an identifier D1 may hold and the release cannot is no history.
Inspect(rows) ==
  IF \E i \in DOMAIN rows : rows[i].migration_id < 0
    THEN "history_incomplete"
    ELSE Assess(rows, RELEASE_SCHEMA_REQUIREMENT)

\* The Worker is ready exactly on the histories it was built for: all of its own
\* migrations in order, and after them none, or those reviewed beforehand.  An
\* older database is told apart from a foreign one (readiness, schema.rs:164).
ReadinessIsSound(rows) ==
  LET original == [i \in DOMAIN rows |-> [migration_id |-> i, migration_name |-> i]]
      reviewed == Len(rows) <= 8
  IN  /\ Inspect(rows) = "none" <=> rows = original /\ reviewed /\ Len(rows) >= 7
      /\ Inspect(rows) = "schema_outdated" <=> rows = original /\ Len(rows) \in 1 .. 6

-----------------------------------------------------------------------------
(* Request bodies.  A chunk is its size, or Broken where reading fails.    *)

Broken == -1
NotDeclared == -1
Garbled == -2

\* check_content_length
LengthFault(declared, limit) ==
  CASE declared = NotDeclared -> "none"
    [] declared = Garbled -> "invalid"
    [] OTHER -> IF declared > limit THEN "too_large" ELSE "none"

\* append_body_chunk, in the loop of read_limited_body: the first fault ends it.
AppendChunk(body, chunk, limit) ==
  IF body.fault # "none" THEN body
  ELSE IF chunk = Broken THEN [body EXCEPT !.fault = "invalid"]
  ELSE IF body.kept + chunk > limit THEN [body EXCEPT !.fault = "too_large"]
  ELSE [body EXCEPT !.kept = @ + chunk]

ReadBody(declared, chunks, limit) ==
  LET fault == LengthFault(declared, limit)
      body[n \in 0 .. Len(chunks)] ==
        IF n = 0 THEN [kept |-> 0, fault |-> "none"]
        ELSE AppendChunk(body[n - 1], chunks[n], limit)
  IN  IF fault # "none" THEN [kept |-> 0, fault |-> fault] ELSE body[Len(chunks)]

\* push_bundle_inner: what a body does to the inbox.
PushEffect(declared, chunks, limit) ==
  CASE ReadBody(declared, chunks, limit).fault = "none" -> "pushed"
    [] ReadBody(declared, chunks, limit).fault = "too_large" -> "cleared"
    [] ReadBody(declared, chunks, limit).fault = "invalid" -> "kept"

Sizes(chunks) == [n \in DOMAIN chunks |-> IF chunks[n] = Broken THEN 0 ELSE chunks[n]]
Total(sizes) ==
  LET sum[n \in 0 .. Len(sizes)] == IF n = 0 THEN 0 ELSE sum[n - 1] + sizes[n]
  IN  sum[Len(sizes)]

\* No more than the limit is ever held, whatever length was declared; a body
\* that is pushed is whole and within the limit; and the inbox is cleared only
\* for a body that was declared, or turned out, to be too large.
BodyIsSound(declared, chunks, limit) ==
  LET body == ReadBody(declared, chunks, limit)
      whole == \A n \in DOMAIN chunks : chunks[n] # Broken
      sizes == Sizes(chunks)
  IN  /\ body.kept <= limit
      /\ PushEffect(declared, chunks, limit) = "pushed" =>
           whole /\ body.kept = Total(sizes) /\ Total(sizes) <= limit
      /\ PushEffect(declared, chunks, limit) = "cleared" =>
           declared > limit \/ \E n \in DOMAIN chunks : Total(SubSeq(sizes, 1, n)) > limit

=============================================================================
