---------------------------- MODULE ConnectorSync ----------------------------
(***************************************************************************)
(* One mailbox connection and the background runs that sync it:            *)
(*   - SyncService.start_sync: the single-runner claim and the run ledger; *)
(*   - ConnectorSyncRunner: load, count, stream batches, ingest, finalize, *)
(*     with the heartbeat ticker on a second session;                      *)
(*   - ImapIncrementalFetcher against an IMAP server that gains, loses and *)
(*     renumbers mail while a run is under way;                            *)
(*   - ConnectorService disable / enable / delete of the connection.       *)
(* A database transaction is one step, taken at its commit: the fenced     *)
(* UPDATE holds the connection row's lock up to the commit, and what the   *)
(* transaction wrote before is invisible to everybody else.  Everything    *)
(* that happens between two transactions of a run (network calls, other    *)
(* runs, admins, crashes) interleaves.                                     *)
(***************************************************************************)
EXTENDS Integers, FiniteSets, FetchPlanner

CONSTANTS
  Run,          \* run ids (uuid4); an id no live task or row refers to is fresh
  NoRun,        \* sync_run_id IS NULL
  Folder,       \* the mailbox's ingestible folders
  NoFolder,     \* no folder selected
  Msg,          \* message identities (dedup keys)
  Poison,       \* messages whose ingest always fails
  MessageAt(_, _, _),  \* the message at (folder, UIDVALIDITY, UID)
  MaxUid,       \* bound: highest UID a folder reaches
  MaxGen,       \* bound: highest UIDVALIDITY a folder reaches
  MaxFailed     \* MAX_FAILED_UIDS

Uid == 1..MaxUid
Gen == 1..MaxGen

ASSUME ConstantsAssumption ==
  /\ MaxUid \in Nat
  /\ MaxGen \in Nat \ {0}
  /\ MaxFailed \in Nat
  /\ NoRun \notin Run
  /\ NoFolder \notin Folder
  /\ Poison \subseteq Msg
  /\ \A f \in Folder, g \in Gen, u \in Uid : MessageAt(f, g, u) \in Msg

VARIABLES
  conn,    \* the connector_connection row
  ledger,  \* connector_sync_run: status per run id
  cursor,  \* connector_sync_cursor: per folder, gen 0 = no row
  stored,  \* the dedup keys with an email_message row of this connection
  box,     \* the IMAP server: per folder UIDVALIDITY, highest UID, expunged UIDs
  task,    \* the in-memory state of each run's background task
  late     \* history: batches committed since the connection was disabled

vars == <<conn, ledger, cursor, stored, box, task, late>>

-----------------------------------------------------------------------------
(* State shapes *)

Cursor   == [gen : 0..MaxGen, last : 0..MaxUid, failed : SUBSET Uid]
NoCursor == [gen |-> 0, last |-> 0, failed |-> {}]

PC == {"off", "claimed", "counting", "fetching", "checking", "ingesting",
       "finishing", "failing"}

Task == [pc     : PC,
         seed   : [Folder -> Cursor],      \* loaded cursors of the todo folders
         todo   : SUBSET Folder,           \* folders not visited yet
         folder : Folder \cup {NoFolder},  \* the selected folder
         gen    : 0..MaxGen,               \* its UIDVALIDITY when selected
         plan   : SUBSET Uid,              \* searched UIDs not fetched yet
         batch  : SUBSET Uid,              \* requested_uids of the batch
         got    : SUBSET Uid,              \* UIDs the server returned
         floor  : 0..MaxUid,               \* _FolderTracker.floor
         cand   : SUBSET Uid,              \* _FolderTracker.candidates
         acc    : SUBSET Uid,              \* .accounted, above the floor
         failed : SUBSET Uid]              \* _FolderTracker.failed

\* A task with nothing in hand; pc tells what is left for it to do.
Rest(pc) == [pc |-> pc, seed |-> [f \in Folder |-> NoCursor],
             todo |-> {}, folder |-> NoFolder, gen |-> 0, plan |-> {},
             batch |-> {}, got |-> {}, floor |-> 0, cand |-> {}, acc |-> {},
             failed |-> {}]

NewRow  == [exists |-> TRUE, disabled |-> FALSE, status |-> "idle",
            run |-> NoRun, stale |-> FALSE]
GoneRow == [NewRow EXCEPT !.exists = FALSE]

Conn    == [exists : BOOLEAN, disabled : BOOLEAN,
            status : {"idle", "running", "error"},
            run : Run \cup {NoRun}, stale : BOOLEAN]

\* Types: rows, ledger, cursors, mailboxes and runner tasks hold the values the
\* columns and the code's own variables admit.
TypeOK ==
  /\ conn \in Conn
  /\ ledger \in [Run -> {"none", "running", "succeeded", "failed", "abandoned"}]
  /\ cursor \in [Folder -> Cursor]
  /\ stored \subseteq Msg
  /\ box \in [Folder -> [gen : Gen, top : 0..MaxUid, gone : SUBSET Uid]]
  /\ task \in [Run -> Task]
  /\ late \in 0..2

Init ==
  /\ conn = NewRow
  /\ ledger = [r \in Run |-> "none"]
  /\ cursor = [f \in Folder |-> NoCursor]
  /\ stored = {}
  /\ box = [f \in Folder |-> [gen |-> 1, top |-> 0, gone |-> {}]]
  /\ task = [r \in Run |-> Rest("off")]
  /\ late = 0

-----------------------------------------------------------------------------
(* Helpers *)

\* UIDs a SEARCH of the folder lists.
Present(f) == (1..box[f].top) \ box[f].gone

\* Mutant of Owns: the fence lets a deleted connection's run through.
OwnsPassesDeleted(r) == conn.exists => conn.run = r

\* The fence: the WHERE clause of _fenced_update.
Owns(r) == conn.exists /\ conn.run = r

\* Keep the n lowest elements: sorted(tracker.failed)[:MAX_FAILED_UIDS].
Lowest(S, n) == {u \in S : Cardinality({v \in S : v < u}) < n}

Become(r, t) == task' = [task EXCEPT ![r] = t]

Stop(r, pc) == Become(r, Rest(pc))

-----------------------------------------------------------------------------
(* SyncService.start_sync *)

\* Mutant of Claimable: a stale claim is never reclaimed.
ClaimableIfIdle == conn.exists /\ ~conn.disabled /\ conn.status # "running"

\* The WHERE clause of claim_for_sync.
Claimable ==
  /\ conn.exists
  /\ ~conn.disabled
  /\ conn.status # "running" \/ conn.stale

\* claim_for_sync's SET list: the row is reset for the new run.
ClaimedBy(r) == [conn EXCEPT !.status = "running", !.run = r, !.stale = FALSE]

\* Mutant of OpenLedger: the run taken over is not marked abandoned.
OpenLedgerOnly(r) == [ledger EXCEPT ![r] = "running"]

\* start_run, then mark_stale_running_abandoned(keep_run_id = r).
OpenLedger(r) ==
  [q \in Run |-> CASE q = r -> "running"
                   [] q # r /\ ledger[q] = "running" -> "abandoned"
                   [] OTHER -> ledger[q]]

\* Claim, open the ledger, commit, spawn.  r is a fresh uuid4: no task runs
\* under it and the connection row does not name it.
StartSync(r) ==
  /\ task[r].pc = "off" /\ conn.run # r
  /\ Claimable
  /\ conn' = ClaimedBy(r)
  /\ ledger' = OpenLedger(r)
  /\ Stop(r, "claimed")
  /\ UNCHANGED <<cursor, stored, box, late>>

-----------------------------------------------------------------------------
(* ConnectorSyncRunner._sync up to the batch loop *)

\* Load the connection and its cursors.
Load(r) ==
  /\ task[r].pc = "claimed"
  /\ IF conn.exists
       THEN Become(r, [Rest("counting") EXCEPT !.seed = cursor, !.todo = Folder])
       ELSE Stop(r, "off")
  /\ UNCHANGED <<conn, ledger, cursor, stored, box, late>>

\* count_pending over the network, then the fenced set_total.
SetTotal(r) ==
  /\ task[r].pc = "counting"
  /\ IF Owns(r) THEN Become(r, [task[r] EXCEPT !.pc = "fetching"])
                ELSE Stop(r, "off")
  /\ UNCHANGED <<conn, ledger, cursor, stored, box, late>>

-----------------------------------------------------------------------------
(* ImapIncrementalFetcher.fetch_incremental *)

\* SELECT and SEARCH the next folder.  The tracker the first batch of the
\* folder will use is the seeded one, or a fresh one at floor 0 when the
\* UIDVALIDITY is not the cursor's.
SelectFolder(r, f) ==
  LET t    == task[r]
      gen  == box[f].gen
      same == t.seed[f].gen = gen
  IN /\ t.pc = "fetching" /\ t.plan = {} /\ f \in t.todo
     /\ Become(r, [t EXCEPT
          !.todo = t.todo \ {f}, !.seed[f] = NoCursor,
          !.folder = f, !.gen = gen,
          !.plan = {u \in Present(f) : u >= MinUid(t.seed[f], gen)},
          !.floor = IF same THEN t.seed[f].last ELSE 0,
          !.cand = {}, !.acc = {},
          !.failed = IF same THEN t.seed[f].failed ELSE {}])
     /\ UNCHANGED <<conn, ledger, cursor, stored, box, late>>

\* SELECT or SEARCH refused by the server: the folder is skipped this run.
SkipFolder(r, f) ==
  /\ task[r].pc = "fetching" /\ task[r].plan = {} /\ f \in task[r].todo
  /\ Become(r, [task[r] EXCEPT !.todo = task[r].todo \ {f}])
  /\ UNCHANGED <<conn, ledger, cursor, stored, box, late>>

\* The UIDs of the batch the server can still return: none once the folder
\* was renumbered under the session.
Returnable(r, batch) ==
  IF box[task[r].folder].gen = task[r].gen
    THEN batch \cap Present(task[r].folder) ELSE {}

\* Fetch one batch of batch_by_bytes: a nonempty run of the lowest planned
\* UIDs, of which the server returns some.
FetchBatch(r, batch, got) ==
  /\ task[r].pc = "fetching"
  /\ batch \subseteq task[r].plan /\ batch # {}
  /\ \A u \in batch, v \in task[r].plan \ batch : u < v
  /\ got \subseteq Returnable(r, batch)
  /\ Become(r, [task[r] EXCEPT !.pc = "checking", !.batch = batch, !.got = got,
                               !.plan = task[r].plan \ batch])
  /\ UNCHANGED <<conn, ledger, cursor, stored, box, late>>

\* The stream is exhausted: leave the loop.
EndOfStream(r) ==
  /\ task[r].pc = "fetching" /\ task[r].plan = {} /\ task[r].todo = {}
  /\ Stop(r, "finishing")
  /\ UNCHANGED <<conn, ledger, cursor, stored, box, late>>

-----------------------------------------------------------------------------
(* The batch loop *)

\* Mutant of CheckDisabled: the flag is not re-read before a batch.
CheckDisabledNever(r) ==
  /\ task[r].pc = "checking"
  /\ Become(r, [task[r] EXCEPT !.pc = "ingesting"])
  /\ UNCHANGED <<conn, ledger, cursor, stored, box, late>>

\* is_disabled before each batch: a disabled connection ends the run cleanly
\* (a deleted one reads as not disabled).
CheckDisabled(r) ==
  /\ task[r].pc = "checking"
  /\ IF conn.exists /\ conn.disabled
       THEN Stop(r, "finishing")
       ELSE Become(r, [task[r] EXCEPT !.pc = "ingesting"])
  /\ UNCHANGED <<conn, ledger, cursor, stored, box, late>>

\* Messages of UIDs us in the folder the task has selected.
Messages(r, us) == {MessageAt(task[r].folder, task[r].gen, u) : u \in us}

\* _ingest_batch, won: ok are the STORED or SKIPPED messages, the rest of
\* the returned ones failed.  Mail, cursor and progress commit together.
\* acked = FALSE: the commit took effect but its answer was lost, so the
\* task only sees an exception.
CommitBatch(r, ok, adv, acked) ==
  LET t       == task[r]
      cand    == t.cand \cup t.batch
      acc     == t.acc \cup ok
      failed  == (t.failed \ ok) \cup (t.got \ ok)
  IN /\ t.pc = "ingesting" /\ Owns(r)
     /\ ok \subseteq t.got /\ Messages(r, ok) \cap Poison = {}
     /\ IsHighestContiguous(cand, acc, t.floor, adv)
     /\ stored' = stored \cup Messages(r, ok)
     /\ cursor' = [cursor EXCEPT ![t.folder] =
                     [gen |-> t.gen, last |-> adv,
                      failed |-> Lowest(failed, MaxFailed)]]
     /\ conn' = [conn EXCEPT !.stale = FALSE]
     /\ late' = IF conn.disabled /\ late < 2 THEN late + 1 ELSE late
     /\ IF acked
          THEN Become(r, [t EXCEPT
                 !.pc = "fetching", !.batch = {}, !.got = {}, !.floor = adv,
                 !.cand = {u \in cand : u > adv},
                 !.acc = {u \in acc : u > adv}, !.failed = failed])
          ELSE Stop(r, "failing")
     /\ UNCHANGED <<ledger, box>>

\* _ingest_batch, fence lost: set_synced_count hits no row, roll back, return.
BatchStolen(r) ==
  /\ task[r].pc = "ingesting" /\ conn.exists /\ conn.run # r
  /\ Stop(r, "off")
  /\ UNCHANGED <<conn, ledger, cursor, stored, box, late>>

\* _ingest_batch, connection deleted: the cursor UPSERT violates its foreign
\* key before the fence is reached, and the exception ends the run.
BatchOrphaned(r) ==
  /\ task[r].pc = "ingesting" /\ ~conn.exists
  /\ Stop(r, "failing")
  /\ UNCHANGED <<conn, ledger, cursor, stored, box, late>>

-----------------------------------------------------------------------------
(* Finalizing *)

\* Mutant of Finalize: the ledger outcome is recorded although the fence was
\* lost.
FinalizeLedgerFirst(r, status, outcome, next) ==
  /\ ledger' = [ledger EXCEPT ![r] = outcome]
  /\ conn' = IF Owns(r) THEN [conn EXCEPT !.status = status, !.stale = FALSE]
                        ELSE conn
  /\ Stop(r, IF Owns(r) THEN next ELSE "off")
  /\ UNCHANGED <<cursor, stored, box, late>>

\* _finalize: fenced status, ledger outcome and audit row in one commit; a
\* lost fence rolls back and records nothing.
Finalize(r, status, outcome, next) ==
  /\ IF Owns(r)
       THEN /\ conn' = [conn EXCEPT !.status = status, !.stale = FALSE]
            /\ ledger' = [ledger EXCEPT ![r] = outcome]
            /\ Stop(r, next)
       ELSE /\ Stop(r, "off")
            /\ UNCHANGED <<conn, ledger>>
  /\ UNCHANGED <<cursor, stored, box, late>>

\* End of _sync.  When the commit's answer is lost the task goes on to the
\* failure path although the outcome is already durable.
FinalizeOk(r, next) ==
  /\ task[r].pc = "finishing" /\ next \in {"off", "failing"}
  /\ Finalize(r, "idle", "succeeded", next)

\* _finalize_failure on a fresh session.
FinalizeFailure(r) ==
  /\ task[r].pc = "failing"
  /\ Finalize(r, "error", "failed", "off")

\* Any other exception of _sync (network, database, decryption, a connector
\* that cannot fetch): run() catches it and finalizes as failed.
Raise(r) ==
  /\ task[r].pc \notin {"off", "failing"}
  /\ Stop(r, "failing")
  /\ UNCHANGED <<conn, ledger, cursor, stored, box, late>>

\* The process dies, the task is cancelled, or _finalize_failure itself
\* fails: the task is gone and the row is left as it was.
Crash(r) ==
  /\ task[r].pc # "off"
  /\ Stop(r, "off")
  /\ UNCHANGED <<conn, ledger, cursor, stored, box, late>>

-----------------------------------------------------------------------------
(* The heartbeat *)

\* One fenced beat of _heartbeat_loop, which runs on a session of its own
\* while the task loads nothing and finalizes nothing.  Nothing makes it
\* beat: a ticker that died in an exception is one that beats no more.
Heartbeat(r) ==
  /\ task[r].pc \in {"counting", "fetching", "checking", "ingesting"}
  /\ Owns(r)
  /\ conn' = [conn EXCEPT !.stale = FALSE]
  /\ UNCHANGED <<ledger, cursor, stored, box, task, late>>

\* STALE_SECONDS pass without a heartbeat: a crashed run, a dead ticker, or
\* an event loop blocked for that long.
Expire ==
  /\ conn.status = "running" /\ ~conn.stale
  /\ conn' = [conn EXCEPT !.stale = TRUE]
  /\ UNCHANGED <<ledger, cursor, stored, box, task, late>>

-----------------------------------------------------------------------------
(* ConnectorService: the connection's lifecycle *)

Disable ==
  /\ conn.exists /\ ~conn.disabled
  /\ conn' = [conn EXCEPT !.disabled = TRUE]
  /\ late' = 0
  /\ UNCHANGED <<ledger, cursor, stored, box, task>>

Enable ==
  /\ conn.exists /\ conn.disabled
  /\ conn' = [conn EXCEPT !.disabled = FALSE]
  /\ late' = 0
  /\ UNCHANGED <<ledger, cursor, stored, box, task>>

\* The DELETE cascades to the mail, the cursors and the ledger.
Delete ==
  /\ conn.exists
  /\ conn' = GoneRow
  /\ ledger' = [r \in Run |-> "none"]
  /\ cursor' = [f \in Folder |-> NoCursor]
  /\ stored' = {}
  /\ late' = 0
  /\ UNCHANGED <<box, task>>

-----------------------------------------------------------------------------
(* The IMAP server *)

NewMail(f) ==
  /\ box[f].top < MaxUid
  /\ box' = [box EXCEPT ![f].top = @ + 1]
  /\ UNCHANGED <<conn, ledger, cursor, stored, task, late>>

Expunge(f, u) ==
  /\ u \in Present(f)
  /\ box' = [box EXCEPT ![f].gone = @ \cup {u}]
  /\ UNCHANGED <<conn, ledger, cursor, stored, task, late>>

\* The server renumbers the folder: a new UIDVALIDITY, the surviving
\* messages at UIDs 1..k.
ResetUids(f) ==
  /\ box[f].gen < MaxGen
  /\ \E k \in 0..box[f].top :
       box' = [box EXCEPT ![f] = [gen |-> @.gen + 1, top |-> k, gone |-> {}]]
  /\ UNCHANGED <<conn, ledger, cursor, stored, task, late>>

-----------------------------------------------------------------------------

\* The returned messages whose ingest can succeed.
Ingestible(r) == {u \in task[r].got : Messages(r, {u}) \cap Poison = {}}

FetchWhole(r) ==
  \E batch \in (SUBSET task[r].plan) \ {{}} : FetchBatch(r, batch, Returnable(r, batch))

\* A chunk of the FETCH was refused: some UIDs are requested, not returned.
FetchPartial(r) ==
  \E batch \in (SUBSET task[r].plan) \ {{}} : \E got \in SUBSET batch :
    got # Returnable(r, batch) /\ FetchBatch(r, batch, got)

IngestWhole(r) ==
  \E adv \in 0..MaxUid : CommitBatch(r, Ingestible(r), adv, TRUE)

\* A healthy message fails to ingest this time, or the commit's answer is lost.
IngestPartial(r) ==
  \E ok \in SUBSET Ingestible(r), adv \in 0..MaxUid, acked \in BOOLEAN :
    (ok # Ingestible(r) \/ ~acked) /\ CommitBatch(r, ok, adv, acked)

\* What a run does when nothing goes wrong.
Progress(r) ==
  \/ Load(r) \/ SetTotal(r)
  \/ \E f \in Folder : SelectFolder(r, f)
  \/ FetchWhole(r) \/ EndOfStream(r)
  \/ CheckDisabled(r) \/ IngestWhole(r) \/ BatchStolen(r) \/ BatchOrphaned(r)
  \/ FinalizeOk(r, "off") \/ FinalizeFailure(r)

\* What may go wrong in a run.
Fault(r) ==
  \/ \E f \in Folder : SkipFolder(r, f)
  \/ FetchPartial(r) \/ IngestPartial(r)
  \/ FinalizeOk(r, "failing")
  \/ Raise(r) \/ Crash(r)

Server == \E f \in Folder : \/ NewMail(f)
                            \/ \E u \in Uid : Expunge(f, u)
                            \/ ResetUids(f)

Admin == Disable \/ Enable \/ Delete

Next ==
  \/ \E r \in Run : StartSync(r) \/ Progress(r) \/ Heartbeat(r) \/ Fault(r)
  \/ Expire
  \/ Admin
  \/ Server

Spec == Init /\ [][Next]_vars

\* The event loop runs every task that can run; a dead run's heartbeat does
\* age; and the user keeps asking for a sync.
OwnerDead == conn.run \in Run /\ task[conn.run].pc = "off"

Fairness ==
  /\ \A r \in Run : WF_vars(Progress(r))
  /\ WF_vars(Expire /\ OwnerDead)
  /\ WF_vars(\E r \in Run : StartSync(r))

FairSpec == Spec /\ Fairness

-----------------------------------------------------------------------------
(* Properties *)

\* NEVER-LOSE-MAIL (connector_sync_runner.py:19, 118): a folder's committed
\* cursor never stands at or past a message that the server still holds and
\* that has no row, whatever was fetched partially, failed, crashed, was
\* renumbered or was taken over by another run.
NeverLoseMail ==
  \A f \in Folder : cursor[f].gen = box[f].gen =>
    \A u \in Present(f) :
      u <= cursor[f].last => MessageAt(f, box[f].gen, u) \in stored

\* The ledger and the live claim agree (connector_sync_run.py:13): at most
\* one run of the connection is 'running' in the ledger, and it is the one
\* the row names, exactly while the row says 'running'.
LedgerAgrees ==
  {r \in Run : ledger[r] = "running"} =
    IF conn.exists /\ conn.status = "running" THEN {conn.run} ELSE {}

\* Disabling a connection stops its sync (connector_sync_runner.py:244):
\* between two switches of the flag at most the one batch that was already
\* past its check is committed.
DisableStopsIngest == late <= 1

\* A deleted connection stays erased (connector_service.py:221): no run that
\* was under way writes mail, a cursor or a ledger row back.
DeletedLeavesNothing ==
  ~conn.exists => /\ stored = {}
                  /\ \A f \in Folder : cursor[f] = NoCursor
                  /\ \A r \in Run : ledger[r] = "none"

\* The archive that the connection, its cursors and its mail are.
Archive == INSTANCE MailboxArchive WITH
  exists <- conn.exists,
  cursor <- [f \in Folder |-> [gen |-> cursor[f].gen, last |-> cursor[f].last]]

\* Whatever runs, claims, takeovers, failures and crashes are under way, what is
\* committed behaves as the archive of MailboxArchive: mail and cursor appear
\* together, cursors leave nothing behind, and a run that was under way writes
\* nothing back into a deleted connection (connector_sync_runner.py:19,
\* connector_service.py:221).
ArchiveSpec == Archive!Spec

\* A folder's cursor never goes back (fetch_planner.py:9), not even when a
\* run that loaded an old cursor is overtaken by a newer one: the UIDVALIDITY
\* never decreases, and under one UIDVALIDITY the last UID never does.
CursorNeverRegresses ==
  [][conn'.exists =>
       \A f \in Folder :
         \/ cursor[f].gen < cursor'[f].gen
         \/ /\ cursor[f].gen = cursor'[f].gen
            /\ cursor[f].last <= cursor'[f].last]_vars

\* A superseded run never reports an outcome (connector_sync_runner.py:403):
\* its ledger row stays 'abandoned' until it is deleted (or, in this model,
\* its id stands for a new run).
AbandonedStaysAbandoned ==
  [][\A r \in Run : ledger[r] = "abandoned" =>
       ledger'[r] \notin {"succeeded", "failed"}]_vars

-----------------------------------------------------------------------------
(* The inductive strengthenings *)

\* What a task has in hand fits its place in the program.
TaskOK(t) ==
  /\ t.pc \in {"counting", "fetching"} => t.batch = {}
  /\ t.pc \in {"checking", "ingesting"} => t.folder # NoFolder
  /\ t.folder = NoFolder => t.plan = {}
  /\ t.folder # NoFolder => t.gen \in Gen

TaskInv == \A r \in Run : TaskOK(task[r])

\* A run that holds the claim and is between loading and its last batch.
Live(r) ==
  Owns(r) /\ task[r].pc \in {"counting", "fetching", "checking", "ingesting"}

\* UIDs of the selected folder the run still has to settle.
Ahead(t) == t.cand \cup t.batch \cup t.plan

\* What a live run knows of the folder it has selected.  Its floor is the
\* committed cursor (or 0 in a new UIDVALIDITY); what it accounted is stored;
\* candidates, batch and plan follow each other in UID order; and they miss no
\* message above the floor except mail newer than all of them.
FolderOK(t) ==
  LET f == t.folder IN
  /\ f \notin t.todo
  /\ cursor[f].gen <= t.gen /\ t.gen <= box[f].gen
  /\ t.floor = IF cursor[f].gen = t.gen THEN cursor[f].last ELSE 0
  /\ \A u \in t.acc : MessageAt(f, t.gen, u) \in stored
  /\ \A u \in t.cand : \A v \in t.batch \cup t.plan : u < v
  /\ \A u \in t.batch : \A v \in t.plan : u < v
  /\ t.gen = box[f].gen =>
       /\ \A u \in Ahead(t) : u <= box[f].top
       /\ \A u \in Present(f) :
            u > t.floor => u \in Ahead(t) \/ \A v \in Ahead(t) : v < u

RunOK(t) ==
  /\ \A f \in t.todo : t.seed[f] = cursor[f]
  /\ t.folder # NoFolder => FolderOK(t)

\* What a run that holds the claim has in memory about the folder it is in (its
\* seed, floor, candidates and accounted UIDs) is true of the committed rows
\* and of the server, whatever other runs and admins did meanwhile.
RunInv == \A r \in Run : Live(r) => RunOK(task[r])

\* A committed cursor is never of a future UIDVALIDITY, nor beyond the
\* folder's highest UID.
CursorInv ==
  \A f \in Folder :
    /\ cursor[f].gen <= box[f].gen
    /\ cursor[f].gen = box[f].gen => cursor[f].last <= box[f].top

\* The inductive form of DisableStopsIngest: once a batch was committed under
\* the disabled connection, its owner is not between check and commit.
LateInv ==
  /\ late <= 1
  /\ late = 1 => /\ conn.exists /\ conn.disabled
                 /\ \A r \in Run : Owns(r) => task[r].pc # "ingesting"

\* The fence and the ledger: the run the row names was not superseded.
OwnerInv == \A r \in Run : Owns(r) => ledger[r] # "abandoned"

\* The inductive invariant of the proofs.
SyncInv == TypeOK /\ TaskInv /\ RunInv /\ CursorInv /\ NeverLoseMail

-----------------------------------------------------------------------------
(* Liveness *)

\* Faults: those of a run, and a live run whose heartbeat expires.
AnyFault == (\E r \in Run : Fault(r)) \/ (Expire /\ ~OwnerDead)

\* From some point on nothing fails and the connection is left enabled.
Settles ==
  /\ <>[][~AnyFault]_vars
  /\ <>[](conn.exists /\ ~conn.disabled)

\* Once things settle every message that stays on the server and can be
\* ingested is stored (connector_sync_runner.py:20-25): a crashed run's claim
\* is taken over, gaps are fetched again, and a poison message stalls the
\* cursor but not the mail above it.
MailEventuallyStored ==
  Settles => \A f \in Folder, u \in Uid :
    <>[](u \in Present(f) => MessageAt(f, box[f].gen, u) \in stored \cup Poison)
=============================================================================
