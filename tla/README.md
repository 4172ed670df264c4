# One AI: a verification project in TLA+

One AI is a multi-tenant FastAPI/PostgreSQL backend with a React frontend.  Companies
(organizations) have users and administrators; their mailboxes are connected over IMAP,
synced incrementally into PostgreSQL, resolved to people and companies, and made readable
under per-row grants.  A platform plane creates, suspends and erases organizations.

This directory holds TLA+ models of the parts that carry state across concurrent requests,
background tasks and crashes, TLC configurations that check them on small instances, and
TLAPS proofs for every size of the constants.  All paths below are relative to
`src/backend/app/`.

## 1. Inventory

| Component | State | Operations | What is hard | What makes it correct |
|---|---|---|---|---|
| Mailbox sync (`connectors/sync`, its repositories) | claim columns of `connector_connection`, `connector_sync_cursor`, `connector_sync_run`, `email_message`, per-run trackers in memory | `start_sync`, the transactions of `ConnectorSyncRunner`, heartbeat, finalize | a stale run racing its successor, crashes, lost commit answers, disable and delete in mid-run, partial batches, poison mail | no mail lost, cursors monotone, one running ledger row, a superseded run is silent, mail above a poison message still arrives |
| IMAP fetch (`connectors/imap/sync`, `fetch_session.py`) | a held session; the folder's UIDs | select, search, sizes, fetch; packing into batches and sequence sets | renumbering (UIDVALIDITY), expunges, refused folders and chunks, size boundaries | the plan names every UID once and in order, batches within the target, the advance stops at the first gap |
| Email ingest and entity resolution (`connectors/imap/services`, `entities/services`) | mail, recipient, attachment, person and company rows; a cache per session | ingest a mail; resolve, mint, widen, link | the same people in two sessions and opposite orders, savepoints rolled back under a cache, a deadlock victim | a stored mail is whole, the graph says what the mail says, the cache claims nothing that is not there |
| Attachment extraction (`connectors/extraction`), backfill script | none; the outcome columns of `email_attachment` | extract by type; reuse, requeue, refill | two engines that fail on different files, many bounds in one file, runs of two releases at once | NULL is honest, what was cut is said, an outcome is its row's own |
| Connection lifecycle, governance, consent, entitlement (`connectors/services`) | connections, plan, policy, overrides, consents | create, connect, test, sync, disable, enable, disconnect, delete; set plan, policy, override | a network await between read and write, check-then-act across requests | late writes respect the admin, use is allowed or overtaken, consent follows the mailboxes |
| Sessions (`identity/services/auth_service.py`, `token_*`) | refresh-token rows, one in-process denylist per worker | login, refresh, logout, the check of every request | one token presented twice, revocation before commit, a slow password hash between read and issue | a refresh token is used once, a revoked token is rejected |
| Rate limiter (`identity/security/rate_limit.py`) | windows and lockouts per key in memory | check, register failure | asked before and told after an await, window edges | a key over its limit is locked |
| Users and the last-admin guard (`identity/services/user_service.py`) | user rows | create, update, deactivate | the target is read without a lock, row locks in two orders | a removal the guard lets through keeps an active admin |
| Organizations, erasure, break-glass support (`platform_org_service.py`, `erasure_service.py`, `*_support_service.py`) | the organization and what hangs on it, support grants, the hook registry | onboard, set status, hold, erase; request, approve, deny, revoke, expire | erasure against writers in flight, cascades, two deciders at once | nothing inserted before an erasure remains, a hold blocks it, the certificate is honest, grants move forward |
| Access grants and promotion (`access`), tenant binding (`core/database.py`) | ACL rows, scopes, promotion rows; settings of pooled connections | derive, reconcile, promote; bind, read | identities withdrawn meanwhile, a pooled connection reused, the wrong database role | nobody is served a row without a right to it |
| Migrations (`db/migrations`) | schema, roles, privileges, policies | upgrade, downgrade | row-level security during a migration, rights of later tables, rows older than a guard | every revision is the same whichever way it was reached |
| Audit (`identity/services/audit_service.py`) | append-only rows | record | the same transaction as the change | part of the actions above |
| Mail parsing, cipher, egress guard, frontend | none or presentation | | | not modelled, see section 7 |

Interaction: routes call services on a request-scoped session (one transaction per
request); `SyncService.start_sync` commits its claim and spawns a runner task, which opens
sessions of its own and calls the ingest once per mail inside a savepoint; the ingest calls
the resolver, the extractors and the grant writer.  Requests, runs and scripts meet only in
rows of the database, under row locks, unique keys and conditional updates, and in two
in-process singletons (the throttle and the denylist).  The IMAP server is reached through
a held session on a worker thread.

`PROJECT.json` lists every component, the hazards of this code at their lines, and the
properties that cover them.

## 2. Plan

Written, most important first: `FetchPlanner`, `ConnectorSync` and the abstract
`MailboxArchive` it implements; `UserAdmin`; `Sessions`; `ConnectorGovernance`;
`OrgLifecycle`; `EmailIngest`; `ContentAccess`; `Migrations`; `AttachmentExtraction`,
`ExtractionBackfill`, `LoginThrottle`.

Proofs followed in the same order; section 6 has them.  Left to model: the
browser's single-flight refresh as a client of the rotation, and a timed heartbeat lease.

## 3. Modules

**`FetchPlanner`** - `batch_by_bytes`, `highest_contiguous_uid`, `_min_uid`,
`_compress_uid_ranges` and `_chunk_uid_set` as functions over sequences, and
`IsHighestContiguous`, what the advance means on a set of candidates.  `ConnectorSync`
advances cursors by the latter; the run `standalone` shows, and section 6 proves, that the
loop computes it.

**`ConnectorSync`** - one connection, any number of runs.  A database transaction is one
step taken at its commit: the fenced UPDATE (`_fenced_update`) keeps the row locked from
the check to the commit, and what the transaction wrote before is not visible elsewhere.
Everything between two transactions of a run interleaves.

| Variable | Code |
|---|---|
| `conn` | the `connector_connection` row: existence, `disabled_at`, `sync_status`, `sync_run_id`, and whether `sync_heartbeat_at` is older than `STALE_SECONDS` |
| `ledger` | `connector_sync_run.status` per run id |
| `cursor` | `connector_sync_cursor` per folder; `gen` 0 is "no row" |
| `stored` | dedup keys that have an `email_message` row |
| `box` | the IMAP server: UIDVALIDITY, highest UID and expunged UIDs of each folder (external) |
| `task` | the local state of each runner task: where it is, the cursors it loaded, the folder, the plan, the batch and its `_FolderTracker` |
| `late` | history: batches committed since the last switch of the disabled flag |

| Action | Code |
|---|---|
| `StartSync` | `SyncService.start_sync`: claim, ledger, abandon the others, commit, spawn |
| `Load`, `SetTotal` | `_sync` up to the batch loop |
| `SelectFolder`, `SkipFolder`, `FetchBatch`, `EndOfStream` | `fetch_incremental` over the session |
| `CheckDisabled`, `CommitBatch`, `BatchStolen`, `BatchOrphaned` | the loop body and `_ingest_batch`; `acked = FALSE` is a commit whose answer is lost |
| `FinalizeOk`, `FinalizeFailure`, `Raise`, `Crash` | `_finalize`, `_finalize_failure`, `run`'s handler, the death of the process |
| `Heartbeat`, `Expire` | `_heartbeat_loop` and the staleness test of `claim_for_sync` |
| `Disable`, `Enable`, `Delete` | `ConnectorService` |
| `NewMail`, `Expunge`, `ResetUids` | the server (external) |

A run id is a fresh uuid4; the model recycles an id once no task runs under it and the row
does not name it, so a small set of ids stands for unboundedly many runs.  `Next` splits a
batch and an ingest into the whole and the partial case only so that fairness can speak of
the whole one.

**`UserAdmin`** - `UserService` and `UserRepository` for one organization (every query is
scoped to the caller's).  A request is one READ COMMITTED transaction, and a step is one
statement: `Load` (`get_in_org`, no lock), `SnapshotAdmins` and `LockAdmin`
(`lock_active_admin_ids`: PostgreSQL picks the rows from the statement's snapshot, then
locks them one by one in id order and looks at each again), `PassGuard` or
`RejectLastAdmin`, `Write` (the flush, which takes the target's row lock if a column is
dirty) and `Commit`; `Abort` is a lost connection or the deadlock detector.
`CheckEmail`, `Insert` and `InsertDuplicate` are `create_user`.  `user` holds the committed
rows, `lock` the row locks, `req` what each request has read and decided.  A change of
the name alone, which locks the row and changes nothing else here, is left out.

**`Sessions`** - `AuthService`, `PlatformAuthService`, `TokenIssuer`, `TokenRotator`, the
`refresh_tokens` table, `InProcessTokenDenylist` and the check in `dependencies.py`.

| Variable | Code |
|---|---|
| `now` | whole seconds, the unit of `iat`, `exp` and the cutoffs |
| `account`, `orgStatus` | committed `users` / `platform_admins` rows and `organizations.status` |
| `refresh` | `refresh_tokens`; `holder` is the request with an uncommitted write on the row, `parent` and `ended` are ghosts |
| `access` | every access token encoded so far: clients keep them |
| `cutoff` | the two cutoff dicts of the denylist, per worker process |
| `req` | where each request is and what it has read |
| `killed` | ghost: tokens a revocation on each worker covered since the worker started |

| Action | Code |
|---|---|
| `LoginCredentials` | `login` up to the verdict of the awaited bcrypt check |
| `RefreshLookup`, `RefreshConsume`, `RefreshReused` | `TokenRotator.consume`: the lookup, and the conditional UPDATE, which waits for another writer of the row |
| `RefreshAccount`, `CheckOrg` | the reads of the account and of the organization |
| `IssuePair`, `CommitPair` | `issue_pair` and the commit of the unit of work |
| `Logout`, `CommitLogout` | `revoke`, `revoke_subject`, commit |
| `ChangeAccount`, `CommitAccount` | `update_user`, `deactivate_user` as far as sessions see them (the stale reads are in `UserAdmin`) |
| `SetStatus`, `CommitStatus` | `PlatformOrgService.set_status` |
| `Fail`, `Restart`, `Tick` | a request that is turned away or dies; a worker that restarts with an empty denylist; time |

The denylist is written at once, in memory, and the row changes at the commit: the order
of the two is the code's.  Each worker has a denylist of its own, so what a revocation
promises, and what is checked and proved, is the answer of the worker that made it; the
production image starts four (`src/backend/Dockerfile`, last line), and the other three
accept the token until it expires.

**`MailboxArchive`** - what a reader of the archive may rely on: whole batches together with
their cursor, cursors that move forward within a numbering and only over mail that is
archived or gone, and an erasure that is final.  No run, claim or failure occurs in it.

**`ConnectorGovernance`** - the three tiers that decide who may connect a mailbox and the
handlers behind them, for one company.  A handler is a Read action and a committing action:
`CreateConnection`/`SelfConnect` then `InsertConnection`/`InsertDuplicate`, `DisconnectRead`
then `DisconnectWrite`, `DeleteRead`, `DisableRead`, `EnableRead` and their writes,
`TestConnection`/`TestMyConnection` (which give their transaction back and await the
network) then `TestWrite`, `SyncConnection`/`SyncMyConnection` then `StartSync` or
`ClaimFails`; `SetEntitlement`, `SetOrgWide`, `SetOverride`, `ClearOverride` are one commit
each.  `Flush` is the unit of work: it writes only what differs from what was loaded.
`overtaken` (the permission changed since a request's check) and `raced` are history.

**`OrgLifecycle`** - a company from onboarding to erasure and the support grants that
target it. `rows[o][t]` says whether a table has rows of the company, and whether one of
them was inserted, committed or not, when an erasure ran ("survivor"). A handler that adds
a row has three steps: `BeginInsert` is its checks, after which it awaits with no lock
held (a password hash in `create_user`); `InsertRows` is the INSERT, whose foreign keys
wait for the company's row and look for the rows it refers to (`RefersTo`) but do not read
the company's status; `InsertCommits` or `InsertFails` ends it. The checks ask for an
access token, which outlives its user, so a request may also begin after an erasure.
`EraseLoad` takes the row lock and awaits the password, `EraseOrganization` runs the
registered hooks in order, counts and deletes table by table with the cascades, scrubs and
certifies in one commit; `EraseRefused` is every early return. `HoldsOrg`, `HoldsKeyShare`
and `HoldsGrant` are the row locks of FOR UPDATE and of a foreign key's insert.
`RegisterErasureHook` is a process that has imported only some modules.

**`EmailIngest`** - several sessions ingest mails of one organization.  `db` is what is
committed, `tx[r]` what session `r` has written, `mark[r]` its savepoint, `cache[r]` the
`ResolutionCache` with staged and confirmed entries and its savepoint depth.  A step is one
statement: `BeginMail` (exists check and reconcile), `LookupCompany`, `InsertCompany`,
`RecordObservedHost`, `LookupPerson`, `InsertPerson`, `BackfillDisplayName`, `AddAlias`,
`ExtendSeenWindow`, `LinkPersonCompany`, `InsertMessage`, `AddRecipient`, `Finish`.
An insert waits while another open transaction holds its key; `FailMail` is an error at any
statement, a deadlock victim included, `CommitBatch` and `Abandon` end the transaction.
Rolling back one mail's savepoint also drops what earlier mails of the batch staged, as in
the code: that costs lookups, never truth.

**`ContentAccess`** - `Derive`, `InsertLiveGrants`, `ReconcileCommits` (`GrantWriter`), `Locate`
and `Promote` under the message's row lock (`PromotionService`), and the reader:
`ResolvePerson` on a first session, `BeginRead` (binds the settings and asserts the role),
`Read` (the policies of 0019), `EndRead`.  `pool[k]` carries role and settings from one
session to the next.  Identities are verified and withdrawn from outside at any time.

**`Migrations`** - each of the 19 revisions, up and down, is the sequence of its statements;
`Apply` is PostgreSQL: it refuses to create what exists, to drop what is missing or depended
on, and to add a guard that rows break, and row-level security hides rows from a migration
role it binds.  One command is one transaction (`env.py`).  Between commands the program
connects mailboxes, stores and promotes mail and breaks the rules no guard enforces yet.

**`AttachmentExtraction`** - every extractor, the dispatch and the redaction as functions of a
payload whose fields are what each engine reads.  A text is a sequence of seven tokens; one
is a letter that markup escapes under a code page it wrongly declares, which
`redecode_single_byte_text` repairs when the text goes back to single bytes.
**`PureFunctions`** holds the inputs and the properties of these and of the planner.

**`ExtractionBackfill`** - attachment rows, ingests that reuse outcomes, runs of the
script (`StartRun` with its requeue of the rows below any version the operator gives,
`_load_pending_rows`, `_update_pending_row`, `SkipRow`, `RowFails`, `FinishRun`,
`RunDies`) and `Deploy`.

**`LoginThrottle`** - `check` and `register_failure` around the awaited password check, for
both planes: `Admit`, `LoginFails`, `LoginPasses`, `Tick`, `Restart`.

**`ConnectorSyncProofs`**, **`UserAdminProofs`**, **`SessionsProofs`**,
**`OrgLifecycleProofs`**, **`ConnectorGovernanceProofs`**, **`EmailIngestProofs`**,
**`ContentAccessProofs`** and **`StandaloneProofs`** (`LoginThrottle`,
`ExtractionBackfill` and the planner) - the theorems of section 6.
The `MC...` modules hold the instances; `MCStandalone` puts the parts that share no state
with anything else into one run.

## 4. Runs

| Run | Shows | Bounds |
|---|---|---|
| `sync` | no lost mail, ledger and claim agree, disable stops, superseded runs are silent, and the whole implements `MailboxArchive` | two runs, one folder, UIDs 1..2, two UIDVALIDITYs |
| `sync_liveness` | once faults stop, every ingestible message that stays is stored, a poison message below it included | two runs, UIDs 1..2, the first message poison |
| `user_admin` | an administrator a guard counted stays one until that request ends; no guarded removal leaves the organization without an administrator | three users, two requests |
| `user_admin_lockout` (violation) | a request that read its target before it was promoted removes the last administrator unguarded | two users, two requests |
| `sessions` | a rotated token has one successor, any other has none; a worker never accepts again what it revoked | a user and a platform admin, three refresh tokens, two requests, one worker that may restart, access lifetime 2, clock to 3 |
| `governance` | consent follows the mailboxes, late writes respect the admin, use is allowed, changes are audited | one user, two mailboxes, two connections ever, two requests |
| `org_lifecycle` | onboarding whole, erasure complete, grants forward, hold respected, certificate honest, status audit true | two companies asking for one slug, one grant, two row-adding requests, two requests at a time |
| `scrub_race` (violation) | an approval in flight during an erasure leaves the decider's email behind | the same |
| `email_ingest` | the cache is true, mail is whole, the graph matches the mail | a sync run and a disk ingest, three mails, four addresses, five entity ids |
| `content_access` | nobody is served what they may not see, promotions are on record, a lone reconciliation settles | two organizations, three users, two messages, two writers, one reader on one pooled connection |
| `migrations` | a downgrade restores, roles are confined, guards hold for old rows, the backfill queue is exact, nothing widens | 19 revisions, two connections to one address, two owners, at most two kinds of row at once |
| `standalone` | the pure functions on every bounded input; the throttle's budget; the backfill's outcomes | see below |

**Sync.** Two runs are enough for a takeover and its late loser; with recycled ids a third
and later run follow.  Two UIDs give a gap below a stored message, a batch split and an
expunge of either; two UIDVALIDITYs give a renumbering in mid-run and between runs.
`MaxFailed` (`MAX_FAILED_UIDS`) is 0: the failed signal is written and never read by the
advance.  The proofs lift all these bounds, the number of folders included.  Deadlock is
not checked: a deleted connection with a full mailbox has nothing left to do.

**Users.** Two requests are the two parties of every race on a row, and one that ends is
followed by another; three users give the guard a target, a counted administrator and one
more, and two lock orders.  A request can always be aborted, as PostgreSQL aborts one side
of a lock cycle, so deadlock is checked.

**Sessions.** Three refresh tokens are a token and the two successors a wrong rotation
would give it, or a chain.  The constraint `Bounded` keeps two regions of the product: many
revocations over time with one rotation (the clock passes the access lifetime by one, so a
cutoff is evicted, at the boundary included, while tokens of another subject live), and
many rotations within a tick.  The proofs of section 6 have neither bound nor constraint.

**Governance and organizations.** Every property is about one company or connection and two
requests that interleave, so two request slots, reused without limit, reach every pair of
handlers.  The audit row of the last commit is left out of the state's fingerprint (VIEW):
no action reads it, and TLC checks the action properties on every transition.

**Ingest.** The mails name the same people in opposite orders, so two sessions wait for
each other's keys; there is a subdomain, a free-mail host, an IDN host, a role mailbox, an
automated mail with a person in a routing header and no usable date, whose sender gets no
window, and an attachment in two mails.  Five ids
leave room for the rows that are rolled back.

**Access.** One pooled connection is used by readers of both organizations in turn; the
pool connects as the reader role or, by a wrong URL, as one that row-level security does
not bind.

**Migrations.** The chain itself is not bounded.  The rows of different tables never meet
in a migration, so at most two are followed at a time (`FewRows`).

**Standalone.** The initial state picks one part.  Pure functions: four UIDs, sizes 0..2 or
unknown, targets 1..3; sequence sets over UIDs of one and two digits up to `TopUid`, limits 1..9;
payloads of up to three pages, two sheets more than fit, three embedded files, with every
bound of the extractors set so that inputs lie below, at and above it.  Throttle: two
addresses and two accounts with limits 3 and 2, two attempts in flight, window and base
lockout 2, clock to 5.  Backfill: three rows, two payloads of which one is on disk, two
declared types, two runs of the script, one ingest, two releases, commits of two rows; a
requeue may ask for a version the installed release does not reach yet.  `FewAtOnce` bounds
the combinations: one run at a time that has requeued, one row of a type other engines read,
one row whose payload is not on disk.  The proofs have none of these bounds.

Every property of a passing run has a mutant: a definition whose name extends or paraphrases
the one below it, wrong in the way a plausible mistake in the code would be wrong, under
which TLC finds the property violated.  They are used for nothing else.

### What the code does not keep

Two violations have a run and a finding in `PROJECT.json`.  Writing the models showed more
behaviours that a comment or a reader might exclude; they follow from the actions named.

* *Lock cycle* (`UserAdmin`): the guard locks its snapshot in id order but the flushed
  UPDATE locks the target in no order, so two removals can wait for each other, against
  `user_repository.py:89-91`.  PostgreSQL aborts one: the modelled `Abort`.
* *Stale authority* (`Sessions`): login reads the account, awaits bcrypt and issues a token
  with a later `iat`; a deactivation in between does not cover it (`user_service.py:174-175`).
* *Consent race* (`ConnectorGovernance`): a disconnect that listed its mailboxes before a
  self-connect committed withdraws the consent the new mailbox rests on
  (`me_connector_service.py:239`).  `ConsentFollowsMailboxes` is therefore stated for users
  whose connect and disconnect requests never overlapped.
* *Lost hold* (`OrgLifecycle`): a hold assigned to a row that already showed the same value
  when it was loaded writes nothing, also when another request cleared it meanwhile; the
  audit row says it was set (`platform_org_service.py:107`).  Likewise `StatusAuditIsTrue`
  speaks of changes no other commit overtook.
* *Rows after an erasure* (`OrgLifecycle`): an erasure keeps the company's row, and nothing that
  adds rows reads its status again before the INSERT.  `create_user` checks the email, awaits
  bcrypt and inserts (`user_service.py:84-95`): when the company is erased in between, the
  foreign key still holds and the erased company has a user, whom no certificate counts,
  against "COMPLETE across tenant PII" (`erasure_service.py:19-24`): `BeginInsert`,
  `EraseLoad`, `EraseOrganization`, `InsertRows`, `InsertCommits`.  An administrator's access
  token does the same until it expires.  `ErasureIsComplete` therefore speaks of the rows
  that were inserted when the erasure took its lock.
* *Sync*: nothing dead-letters a message that keeps failing, against
  `connector_sync_runner.py:347-348`; `failed_uids` may name a UID that was expunged and
  stalls nothing, against lines 79-80.
* *Extraction*: the decoded text, HTML and RTF path has no character cap, against
  `extraction/common.py:25-26` and `redact.py:61-62`, so a credential past the scan cap is
  stored unmasked; a sheet whose cells all lie outside the render window is `extracted` with
  only its marker (so is a PDF page with only unstorable characters); the byte and scan
  bounds of a workbook end a sheet, not the workbook.
* *Backfill*: a run of an older release may refill rows a newer one requeued, an ingest in
  flight may commit a reused outcome after the requeue, and a requeued row whose payload is
  not on disk stays pending.  `RequeueReachesStale` excludes the first and looks only at
  the rows that were requeued.
* *Throttle*: with base lockout and window equal (the defaults of `core/config.py`), the
  failures that armed a lockout have left the window when it ends, so sequential attempts
  never escalate it; the per-key dict is never evicted, against `dependencies.py:98`; an
  expired lockout is not "cleared in passing" (`rate_limit.py:143`) but ignored.
* *Migrations*: the `container_id` backfill of 0019 has no NO FORCE bracket, so it sees no
  row for a migration role under row-level security; the downgrade of 0019 leaves the
  reader's SELECT on `audit_log` (hence `DowngradesRestore` compares the other roles); the
  downgrade of 0018 turns owned connections into shared ones and aborts on duplicates; 0019
  says 0009 keeps its roles, 0009 drops them.
* *Access*: between the withdrawal of an identity and the next reconciliation a grant stays
  live: `tombstone_grants_for_person` has no caller in the application.  `NothingLeaks`
  counts an identity verified at some time as a right.

## 5. Fairness

`FairSpec` assumes that the event loop runs every task that can run (`WF` of each run's
`Progress`), that a dead run's heartbeat grows old (`WF` of `Expire` with a dead owner:
time passes), and that somebody keeps asking for a sync (`WF` of `StartSync`: the user's
button; the repository has no scheduler).  `MailEventuallyStored` assumes in addition that
from some point on nothing fails, no live run loses its heartbeat, and the connection stays
enabled (`Settles`).  Nothing is assumed about the heartbeat ticker.

The other specifications state safety only and assume no fairness.

## 6. Proofs

### Sync

From `ConstantsAssumption` alone (bounds are naturals, `NoRun` and `NoFolder` are not
members, messages are messages), TLAPS proves for every number of runs, folders, messages
and UIDs:

* `TypeCorrect`, `MailIsNeverLost`, `CursorsOnlyAdvance`, from `SyncInvariant`;
* `LedgerMatchesClaim` and `DeletionIsFinal`, inductive together with the types;
* `DisableStopsSync` from `LateInv` (after a late batch the owner is not between its check
  and its commit) and `SupersededStaysSilent` from `OwnerInv` (the run the row names is not
  abandoned).

`NeverLoseMail` is not inductive: a commit writes what the run has in memory.  `SyncInv`
adds `RunInv`, what a live run (one that holds the claim, past its load) knows: its seeds
are the committed cursors of the folders it has not visited, its floor is the committed
cursor of the selected folder, everything accounted is stored, candidates, batch and plan
are in UID order, and they miss no message above the floor except mail newer than all of
them.  The advance then passes only accounted candidates (`CommitRun`).  `CursorInv` (a
cursor is never beyond the mailbox) is what new mail needs (`ServerRun`).  A run that lost
the claim is not live and `RunInv` says nothing of it: the fence keeps it from writing.

`SyncImplementsArchive` is the refinement `Spec => ArchiveSpec`.  `ConnectorSync` instantiates
`MailboxArchive` with the existence of the row for `exists` and its own `cursor`, `stored`
and `box`: claims, runs, ledger and heartbeats disappear.  `ArchiveInit` maps the initial
states; `ArchiveStep` maps every action: `CommitBatch` to `Archive(f)` (`ArchiveBatch`,
which needs `RunInv` for the mail below the new cursor and the fence for `exists`), `Delete`
to `Erase`, the server's actions to `Serve(f)` (`ArchiveServer`), everything else to a
stutter (`ArchiveStutter`).

### User management

From `UserAdminAssumption` (ids are numbers, `NoOne` is not a request): `UserAdminTypes`,
`CountedStay` and `GuardedRemovals`, for any users and requests, from `GuardInv`.
`CountedAdminsStay` is not inductive: it adds who holds which row lock (`LocksHeld`), that
a guard which let a change through counted another administrator (`GuardFoundAnother`),
and that written columns were provided (`WritesWereProvided`).  A commit needs the lock of
its target, a counted administrator is locked by the request that counted it, so only that
request can change it, and it counted one that is not its target.

### Sessions

From `SessionsAssumption` (lifetimes are positive, the subjects of the two planes are
distinct): `SessionTypes`, `RevokedStaysRejected` and `Rotation`, for any subjects,
workers, requests, tokens, lifetimes and restarts.

* `SessionTypeInv` adds to the types what a request knows at each position (`RequestShape`)
  and that an issued row has a subject (`RowsHaveSubjects`).
* `DenylistInv`: no token is from the future, and a revoked one has expired or lies under a
  cutoff.  Eviction (`RevokeCovers`) drops only cutoffs older than the lifetime, whose
  tokens have all expired, and a later cutoff covers more.
* `RotationInv`: a row has one holder, the request that consumed it or staged it
  (`RowsHeld`), and is revoked for one reason (`EndedIsRevoked`).  A commit gives a
  successor to a row that is held, hence valid, hence had none.

### Organizations

From `OrgAssumption` (the bounds are naturals), every property of the run `org_lifecycle`
for any number of companies, grants, inserts and requests, from `OrgInv`.  None of them is
inductive alone; what is added is what a request still knows when it commits:

* `ErasersHold`: under its row lock an erasure's hold value stays current and its registry
  complete.  A hold can only be written when no erasure has the row (`HeldIsNotErased`).
* `LocksExclude`: an erasure and an insert with a foreign key never hold the same company,
  and a grant has one decider.  So no insert is open when an erasure commits, and with
  `NoneOutlives` (a handler still to insert or to commit has no row from before an erasure)
  and the deletes this gives `ErasedWhole`: of what was inserted when the erasure took its
  lock nothing is left.  What a handler inserts afterwards it does not speak of (section 4).
* `DecidersHold`: the grant a decision loaded FOR UPDATE still has the status it was
  loaded with, which gives `GrantsForward`.
* `StatusIsFresh`: a status change no commit overtook still knows the status
  (`TrueStatusAudit`).

`EraseTablesResult` computes the deletes in the order of the code: each (`DeleteResult`)
empties its table, reports it if it had rows, and cascades only into tables that were
counted before; `HonestCertificate` follows.

### Governance

From `GovernanceAssumption` (the company's mailboxes have no user as owner, there is an id),
every property of the run `governance` for any users, mailboxes, connections and requests,
from `GovInv`, which adds what a request knows at its commit:

* `TargetsAreScoped`: the id it loaded is used, and if the row is still there it is its
  owner's.  Ids are used once (`RowsAreUsed`), so a late write finds its row or none.
* `OneAtATime` and `LastIsLast`: a user whose requests never overlapped has one that
  connects or disconnects, and the mailbox it took for the last still is.  This makes
  `ConsentFollowsMailboxes` inductive: an admin's delete reaches only rows without an owner.
* `GatedOrOvertaken`: whoever passed the gate is allowed, or was overtaken.

### Access

From `AccessAssumption` (an identity names one person per organization, a mailbox's owner
is of its organization, NULL is nobody), `AccessTypes` and every property of the run
`content_access`, for any number of organizations, people, messages, requests and pooled
connections, from `AccessInv`:

* `GrantsAreRightful`, `DerivationsAreRightful`, `InsertsAreDerived`: a grant, live or still
  to be inserted, is of a person some verified identity once made a principal.
* `PoolIsBound`: a connection in a transaction is the reader role's and carries the scope
  of the one session that uses it; outside it carries none.  With the policies of `Read`
  this gives `NoCallerIsServedMore`.
* `ScopesAgree`: the row lock of `Promote` keeps the scopes of a message and its children
  together (`WideningIsOnRecord`).
* `AloneIsCurrent`: nothing moved under a reconciliation that is alone
  (`ReconciliationSettles`).

### Ingest

From `IngestAssumption` (NULL is no key, name, mail, id or time; a mail has a time or NULL for
one; a host's registrable domain is its own; a mail has a sender first and names nobody twice
in one role), every property of the run
`email_ingest` for any sessions, mails, participants, hosts and ids.  The three invariants
rest on each other, and each is written over rows given as arguments: `d` what is committed,
`L` what a session has written, so that the same formula speaks of the transaction, of its
savepoint and of the database, and a commit or a rollback is a lemma about rows.

* `IngestInv` gives `CacheIsTrue`.  The unique keys hold across all open transactions
  together (`KeysUnique`: a match key names one entity, whoever inserted it and whether or
  not it is committed), because an insert waits for the transaction that holds its key.
  What a session sees is closed (`Layer`: no person without an address, no company without
  its key, windows only wider than the committed ones), and so is its savepoint, which is
  what a rollback leaves.  `CachesInv` is the property with one fact more, which makes
  it inductive: what is staged carries the tag of the savepoint that is open, so a rollback
  drops all of it.  `Standing` is what a session's local variables name at each statement:
  the company and the person it settled are rows it sees.
* `MailsInv` gives `MailIsWhole`.  For the database, every transaction and every savepoint, a
  mail is complete or absent (`Settled`), but for the mail its session is at, of which
  exactly the parts up to the current one are stored (`InProgress`).  Two sessions at one mail
  are told apart by the unique dedup key: whoever inserts the message second fails, and has
  stored nothing else.
* `GraphInv` gives `GraphMatchesMail`.  A sighting is one participant of one mail, and a
  duty what the resolver owes it: the person, the name, the alias, the window
  (of a mail with a time), the link to the company.  `Passed` is the set of sightings whose duty a session is past.  Every
  sighting passed is `Covered` by the rows (nothing is missing), and every row is the trace of a
  passed sighting (`Sound`: nothing is there that no mail said).  The cases where the resolver
  skips a statement are where the cache is used, and there `CachesInv` says that the row is
  in sight; after a rollback the savepoint's own conjunct says the same of what is left.

### Throttle and backfill

From `ThrottleAssumption`, `BudgetsAreKept` for any clients, accounts, limits and requests in
flight.  `Budget` strengthens the property per key: a key at its limit is locked for a window
after its last failure, one past its limit for longer; and for every suffix of the deque that
the next failure may keep, what it holds and what is in flight stay within the bound.  The
second part needs the longest lockout to exceed the window: with `MaxLockout = Window` a key
past its limit is let in at the instant its lockout ends, when the failures that armed it
are still in the deque, and what is then in flight comes on top of them.  The attempt to
prove the bound showed it, and TLC finds the behaviour when the conjunct is dropped; the
defaults (60 s, 60 s, 15 min) satisfy it and the assumption says so.  How long the
lockouts are rests on `Doubled`, a recursive function: its values exist and grow
(`DoublingsExist`, `DoubledGrows`) because a least counterexample would have a predecessor,
by `WFMin` on the naturals.

From `BackfillAssumption` (rows are numbered by age, NULL is not a row),
`OutcomesAreOwn`, `OutcomesAreKept` and `RequeuesReachStale` for any rows, payloads, ingests,
runs and releases, from `BackfillInv`:

* `InsertsOwn`: an ingest inserts at an id nobody else has, an outcome that is its row's own.
* `StagesOwn` and `LocksApart`: what a run has staged is for rows it alone has locked, which
  therefore are still pending at its commit, and is of the version it was started with.
* `Reaches`: while a requeue goes on that no older run was beside, every run still going is
  of a version that is not stale, so whoever fills a requeued row settles it.

`Settles` says what a step does to the rows there were, once for all actions; that an
outcome is kept follows from it alone.

### Planner

From `PureAssumption` (the bounds are naturals, no UID of `WideUids` is above `TopUid`),
`AdvancesAreContiguous`, `BatchesHoldTheUids` and `ChunksNameTheUids` for any UIDs, sizes,
targets and limits.  `PureSpec` makes one call and keeps its input, so each is a statement
about the value of a function for every input (`InputsAreGiven`).

The loops are recursive functions over the positions of a list, `f[i]` by `f[i - 1]`, and the
library's induction over data takes an operator.  `IntervalInduction` says the same of a set
of positions, which is a term: what holds at 0 and is handed on holds up to the end, since
a least position without it would have a predecessor (`WFMin`).  With the set of positions up
to which there is a sequence of states (`RoundsExist`) it gives `LoopUnfolds`: a function
defined this way has the equations it is defined by.  Each loop is then an instance, and its
correctness an invariant at position `i`, handed on by a lemma per round:

* `WalkedTo` (`WalkGoesOn`): where the walk of `highest_contiguous_uid` stands after `i`
  candidates is the highest contiguous one of them.  `OneAdvance`: the reference allows
  no second answer.  `ConnectorSync` uses that reference, so with `MailIsNeverLost` the
  advance is proved from the loop to the cursor.
* `PackedTo` (`PackGoesOn`): the batches so far joined with the open one are the UIDs so far,
  and `Fits` the target.  `FlattenJoins` and `ChargeSums` are what the two folds of the
  property compute.
* `RunsTo` (`RunsGoOn`): the atoms cover the UIDs so far, do not touch (`Apart`), and the last
  ends at the last UID.  `ChunkedTo` (`ChunkGoesOn`): the chunks joined are the atoms, and the
  length charged, a comma per atom, is one more than the length on the wire.

### Left to TLC

* Liveness under fairness (`MailEventuallyStored`): it needs ENABLED.
* What the extractors compute (`HonestNull`, `BoundsAreTold`): folds over pages, sheets and
  members, nested in each other and cut off by a dozen constants.  The properties enumerate
  what each engine may read, and TLC reads it all.
* The safety properties of `Migrations`: they are about one fixed chain, which TLC runs as it
  is.
* The two properties that are violated.

## 7. Not modelled

* `imap/parsing/email_parser.py`, `tnef_rtf.py`, the wire parsing of the IMAP session and
  the string rules of `address_rules.py`: text and byte formats without state.  What they
  return is an input of the models that use them.
* The credential cipher and the egress guard: library calls.
* `access/services/email_projection.py` (no caller in the application) and the decision
  telemetry (counts only).
* The frontend: presentation, and a session client whose server side is in `Sessions`.
* Configuration, logging and the other operator scripts: no state two actors share.  The
  throttle's assumption that the window is not longer than the base lockout and shorter than
  the longest is that of the defaults in `core/config.py`; with a shorter lockout
  `BudgetIsKept` does not hold.
* UI counters, paged reads, wording and the contents of messages are abstracted everywhere.
