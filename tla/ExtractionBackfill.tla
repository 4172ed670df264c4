------------------------- MODULE ExtractionBackfill -------------------------
(***************************************************************************)
(* The outcomes stored on attachment rows: written by the ingest, which    *)
(* reuses the newest outcome of the same bytes under the same declared     *)
(* type (imap/services/email_ingest_service.py), and rewritten by the      *)
(* backfill (scripts/backfill_attachment_extraction.py), which may requeue *)
(* what an older extractor wrote.  Runs of the script, ingests and deploys *)
(* of a new extractor interleave; a run may die at any point.              *)
(***************************************************************************)
EXTENDS Integers, FiniteSets, FiniteSetsExt

CONSTANTS
  Rows,         \* row ids, in the order of created_at: 1..n
  Hashes,       \* content hashes
  OnDisk,       \* the hashes whose payload the walk of the corpus finds
  Types,        \* declared content types
  OwnTypes,     \* those read by the extractor whose versions are integers
  Ingests,      \* emails being ingested
  Runs,         \* runs of the script
  Null,         \* NULL
  CommitBatch,  \* _COMMIT_BATCH_ROWS
  MaxVersion    \* bound on the versions deployed and asked for

ASSUME BackfillAssumption ==
  /\ IsFiniteSet(Rows) /\ Rows = 1..Cardinality(Rows)
  /\ OnDisk \subseteq Hashes /\ OwnTypes \subseteq Types
  /\ Null \notin [hash : Hashes, type : Types, status : {"pending", "done"},
                 outcome : {Null} \union [hash : Hashes, type : Types, version : Nat]]

VARIABLES row,      \* the committed rows
          engine,   \* the version of the extractors in the deployed code
          ingest,   \* per ingest: the row it will insert
          run       \* per run of the script: its progress and its open transaction

backfill_vars == <<row, engine, ingest, run>>

\* What extract_text returns for these bytes under this type in this version.
Outcome(hash, type, version) == [hash |-> hash, type |-> type, version |-> version]

Row(hash, type, status, outcome) ==
  [hash |-> hash, type |-> type, status |-> status, outcome |-> outcome]

NoRun == [pc |-> "idle"]
NothingStaged == [i \in {} |-> Null]

\* Rows from before extraction had a status: still pending, or with a text
\* whose extractor nobody recorded (version 0).
BackfillInit ==
  /\ \E h \in Hashes, t \in Types :
       row \in [Rows -> {Null}] \union
               {[i \in Rows |-> IF i = 1 THEN first ELSE Null] :
                  first \in {Row(h, t, "pending", Null), Row(h, t, "done", Outcome(h, t, 0))}}
  /\ engine = 1
  /\ ingest = [w \in Ingests |-> Null]
  /\ run = [r \in Runs |-> NoRun]

Stored(i) == row[i] # Null
Pending(i) == Stored(i) /\ row[i].status = "pending"

\* The release of a better extractor.
Deploy ==
  /\ engine < MaxVersion
  /\ engine' = engine + 1
  /\ UNCHANGED <<row, ingest, run>>

-----------------------------------------------------------------------------
\* The ingest

\* Attempted rows of the same bytes and type; the newest is reused.
get_prior_extraction(hash, type) ==
  LET prior == {i \in Rows : Stored(i) /\ row[i].hash = hash /\ row[i].type = type
                             /\ row[i].status # "pending"}
  IN IF prior = {} THEN Null ELSE Max(prior)

_reuse_or_extract(hash, type) ==
  LET prior == get_prior_extraction(hash, type)
  IN IF prior = Null THEN Outcome(hash, type, engine) ELSE row[prior].outcome

Free(i) == row[i] = Null /\ \A w \in Ingests : ingest[w] # Null => ingest[w].id # i

IngestAttachment(w, h, t) ==
  /\ ingest[w] = Null
  /\ \E i \in Rows :
       /\ Free(i) /\ \A j \in Rows : Free(j) => i <= j
       /\ ingest' = [ingest EXCEPT ![w] =
                       [id |-> i, row |-> Row(h, t, "done", _reuse_or_extract(h, t))]]
  /\ UNCHANGED <<row, engine, run>>

\* The transaction of the email commits, or is rolled back.
EndIngest(w) ==
  /\ ingest[w] # Null
  /\ \/ row' = [row EXCEPT ![ingest[w].id] = ingest[w].row]
     \/ UNCHANGED row
  /\ ingest' = [ingest EXCEPT ![w] = Null]
  /\ UNCHANGED <<engine, run>>

-----------------------------------------------------------------------------
\* The backfill

Active(r) == run[r].pc \notin {"idle", "done"}

\* Rows of our own extractor with a recorded version below the given one; the
\* version of another engine is not an integer and never matches.
Stale(i, below) ==
  /\ Stored(i) /\ row[i].outcome # Null /\ row[i].type \in OwnTypes
  /\ row[i].outcome.version > 0 /\ row[i].outcome.version < below

\* Rows another run has updated and not committed.
LockedRows(r) == UNION {DOMAIN run[q].staged : q \in {q \in Runs \ {r} : Active(q)}}

\* What extracting a row again makes of a version asked for.
Attainable(below) == IF below < engine THEN below ELSE engine

\* _requeue_stale_rows and its commit, or nothing; the operator may give any
\* version, one later than the release installed too.  `stale`, `reach` and
\* `overtakes` remember for the properties what was requeued, the version that
\* extracting it again is to give it at least, and whether a run of older code
\* was still going.
StartRun(r, below) ==
  LET stale == IF below = Null THEN {} ELSE {i \in Rows : Stale(i, below)}
  IN /\ ~Active(r)
     /\ stale \cap LockedRows(r) = {}
     /\ row' = [i \in Rows |-> IF i \in stale THEN [row[i] EXCEPT !.status = "pending"] ELSE row[i]]
     /\ run' = [run EXCEPT ![r] =
                  [pc |-> "load", version |-> engine,
                   reach |-> IF stale = {} THEN Null ELSE Attainable(below), queue |-> {},
                   outcomes |-> {}, staged |-> NothingStaged, stale |-> stale,
                   overtakes |-> \E q \in Runs : Active(q) /\ run[q].version < engine]]
     /\ UNCHANGED <<engine, ingest>>

_load_pending_rows(r) ==
  /\ run[r].pc = "load"
  /\ run' = [run EXCEPT ![r] = [run[r] EXCEPT !.pc = "update",
                                               !.queue = {i \in Rows : Pending(i)}]]
  /\ UNCHANGED <<row, engine, ingest>>

_row_extraction_ByHash(memo, hash, type, version) ==
  LET known == {o \in memo : o.hash = hash}
  IN IF known = {} THEN Outcome(hash, type, version) ELSE CHOOSE o \in known : TRUE
\* Memoized per hash and type.
_row_extraction(memo, hash, type, version) ==
  LET known == {o \in memo : o.hash = hash /\ o.type = type}
  IN IF known = {} THEN Outcome(hash, type, version) ELSE CHOOSE o \in known : TRUE

Filled(staged) ==
  [i \in Rows |-> IF i \in DOMAIN staged
                  THEN [row[i] EXCEPT !.status = "done", !.outcome = staged[i]] ELSE row[i]]

SkipRow_Settles(r, i) ==
  /\ run[r].pc = "update" /\ i \in run[r].queue
  /\ row[i].hash \notin OnDisk
  /\ row' = [row EXCEPT ![i].status = "done"]
  /\ run' = [run EXCEPT ![r].queue = run[r].queue \ {i}]
  /\ UNCHANGED <<engine, ingest>>
\* The row is skipped: its payload is not on disk.
SkipRow(r, i) ==
  /\ run[r].pc = "update" /\ i \in run[r].queue
  /\ row[i].hash \notin OnDisk
  /\ run' = [run EXCEPT ![r].queue = run[r].queue \ {i}]
  /\ UNCHANGED <<row, engine, ingest>>

_update_pending_row_Unchecked(r, i) ==
  LET outcome == _row_extraction(run[r].outcomes, row[i].hash, row[i].type, run[r].version)
      staged  == [j \in DOMAIN run[r].staged \union {i} |->
                    IF j = i THEN outcome ELSE run[r].staged[j]]
      flushed == Cardinality(DOMAIN staged) >= CommitBatch
  IN /\ run[r].pc = "update" /\ i \in run[r].queue /\ row[i].hash \in OnDisk
     /\ i \notin LockedRows(r)
     /\ row' = IF flushed THEN Filled(staged) ELSE row
     /\ run' = [run EXCEPT ![r] =
                  [run[r] EXCEPT !.queue = run[r].queue \ {i},
                                 !.outcomes = run[r].outcomes \union {outcome},
                                 !.staged = IF flushed THEN NothingStaged ELSE staged]]
     /\ UNCHANGED <<engine, ingest>>
\* One row: extracted, and updated if it is still pending once its lock is free;
\* a full batch is committed.
_update_pending_row(r, i) ==
  LET outcome == _row_extraction(run[r].outcomes, row[i].hash, row[i].type, run[r].version)
      staged  == [j \in DOMAIN run[r].staged \union (IF Pending(i) THEN {i} ELSE {}) |->
                    IF j = i THEN outcome ELSE run[r].staged[j]]
      flushed == Cardinality(DOMAIN staged) >= CommitBatch
  IN /\ run[r].pc = "update" /\ i \in run[r].queue /\ row[i].hash \in OnDisk
     /\ i \notin LockedRows(r)
     /\ row' = IF flushed THEN Filled(staged) ELSE row
     /\ run' = [run EXCEPT ![r] =
                  [run[r] EXCEPT !.queue = run[r].queue \ {i},
                                 !.outcomes = run[r].outcomes \union {outcome},
                                 !.staged = IF flushed THEN NothingStaged ELSE staged]]
     /\ UNCHANGED <<engine, ingest>>

\* The savepoint of the row is rolled back on a database error (a grid JSONB
\* refuses, a deadlock): the row is left out and the run goes on.
RowFails(r, i) ==
  LET outcome == _row_extraction(run[r].outcomes, row[i].hash, row[i].type, run[r].version)
  IN /\ run[r].pc = "update" /\ i \in run[r].queue /\ row[i].hash \in OnDisk
     /\ run' = [run EXCEPT ![r].queue = run[r].queue \ {i},
                           ![r].outcomes = run[r].outcomes \union {outcome}]
     /\ UNCHANGED <<row, engine, ingest>>

\* The last commit; a run that requeued rows is remembered for the property.
FinishRun(r) ==
  /\ run[r].pc = "update" /\ run[r].queue = {}
  /\ row' = Filled(run[r].staged)
  /\ run' = [run EXCEPT ![r] = IF run[r].stale = {} \/ run[r].overtakes THEN NoRun
                                ELSE [pc |-> "done", reach |-> run[r].reach, stale |-> run[r].stale]]
  /\ UNCHANGED <<engine, ingest>>

\* The process dies: what it had not committed is gone.
RunDies(r) ==
  /\ Active(r)
  /\ run' = [run EXCEPT ![r] = NoRun]
  /\ UNCHANGED <<row, engine, ingest>>

BackfillNext ==
  \/ Deploy
  \/ \E w \in Ingests : \/ \E h \in Hashes, t \in Types : IngestAttachment(w, h, t)
                        \/ EndIngest(w)
  \/ \E r \in Runs :
       \/ \E below \in {Null} \union 1..MaxVersion : StartRun(r, below)
       \/ _load_pending_rows(r)
       \/ \E i \in Rows : SkipRow(r, i) \/ _update_pending_row(r, i) \/ RowFails(r, i)
       \/ FinishRun(r)
       \/ RunDies(r)

BackfillSpec == BackfillInit /\ [][BackfillNext]_backfill_vars

-----------------------------------------------------------------------------

\* "PER-ROW DISPATCH" (backfill_attachment_extraction.py:20): whatever was
\* reused, memoized or requeued, the outcome on a row is that of its own bytes
\* under its own declared type, never one stamped across from another row.
OutcomeIsOwn ==
  \A i \in Rows : Stored(i) /\ row[i].outcome # Null =>
    row[i].outcome.hash = row[i].hash /\ row[i].outcome.type = row[i].type

\* "never overwrites" (backfill_attachment_extraction.py:26): the outcome of a
\* row that has one stays, whichever run listed the row as pending before another
\* filled it; only a requeue opens it again, and keeps the outcome until then.
FilledIsKept ==
  [][\A i \in Rows : Stored(i) /\ ~Pending(i) => row'[i].outcome = row[i].outcome]_backfill_vars

\* "This is how engine-upgrade backfills target stale rows"
\* (backfill_attachment_extraction.py:31): when a run with a requeue is done, none
\* of the rows it found stale keeps a stale outcome as if it were settled, unless
\* a run of older code was still going when it began.
RequeueReachesStale ==
  \A r \in Runs : run[r].pc = "done" =>
    \A i \in run[r].stale : Pending(i) \/ row[i].outcome.version >= run[r].reach
=============================================================================
