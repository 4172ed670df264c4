---------------------------- MODULE OrgLifecycle ----------------------------
(***************************************************************************)
(* The life of a company on the platform: onboarding, its status and legal *)
(* hold, the break-glass support grants that target it, the rows its users *)
(* and mailboxes add, and its erasure.                                     *)
(*                                                                         *)
(* Every request is one READ COMMITTED transaction.  A request that        *)
(* decides on what it loaded is a Load action and a later committing       *)
(* action; a request that loads FOR UPDATE holds its row between the two.  *)
(***************************************************************************)
EXTENDS Naturals, Sequences, FiniteSets

CONSTANTS MaxOrg,     \* how many organizations are ever onboarded
          Slug,       \* the names they ask for
          MaxGrant,   \* how many support grants are ever requested
          MaxInsert,  \* how many row-adding transactions are ever begun
          Req         \* request slots

ASSUME OrgAssumption == /\ MaxOrg \in Nat \ {0}
                        /\ MaxGrant \in Nat \ {0}
                        /\ MaxInsert \in Nat

Org   == 1..MaxOrg
Grant == 1..MaxGrant

VARIABLES org,      \* organizations rows
          rows,     \* per organization and module, the labels of the rows there
          grant,    \* support_grant rows
          hooks,    \* names on the erasure-hook registry
          req,      \* requests between their load and their commit
          erased,   \* organizations an erasure has committed for
          inserts,  \* row-adding transactions begun so far
          event     \* the audit row of the last commit

vars == <<org, rows, grant, hooks, req, erased, inserts, event>>

----------------------------------------------------------------------------
(* Rows.                                                                   *)

Status == {"active", "suspended", "onboarding", "offboarded"}
Hold   == {"clear", "held"}

Organization == [exists : BOOLEAN, slug : Slug, status : Status, hold : Hold]

\* The feature modules that hold personal data; all must be on the registry.
Required == {"access", "connectors", "entities"}
Table    == Required \cup {"users", "refresh_tokens"}

\* Tables with a foreign key to organizations: an insert holds the company's
\* row FOR KEY SHARE until it commits.  refresh_tokens has none.
WithForeignKey == Table \ {"refresh_tokens"}

\* Rows a delete of the table takes along (ON DELETE CASCADE).
CascadesFrom(t) == CASE t = "users"                    -> {"connectors", "access"}
                     [] t \in {"connectors", "entities"} -> {"access"}
                     [] OTHER                            -> {}

\* The tables a new row of t refers to, one of them at least: mail enters the
\* graph from a connection, an access row names a person or a user.
RefersTo(t) == CASE t = "access"   -> {"users", "entities"}
                 [] t = "entities" -> {"connectors"}
                 [] OTHER          -> {}

\* How a row stands to the company's last erasure: it was there when that ran,
\* inserted and perhaps not committed ("survivor"), or it was not ("fresh").
RowLabel == {"fresh", "survivor"}

GrantStatus == {"requested", "approved", "denied", "revoked"}

SupportGrant == [exists : BOOLEAN, org : Org, status : GrantStatus,
                 email : BOOLEAN,     \* decided_by_email IS NOT NULL
                 expired : BOOLEAN]   \* now is past expires_at

Request == [op : {"idle", "onboard", "status", "hold", "erase", "begun", "insert",
                  "approve", "deny", "revoke"},
            org : Org, grant : Grant, slug : Slug,
            from : STRING, to : STRING,  \* loaded and requested value
            email : BOOLEAN,             \* the decider's email was found
            row : RowLabel,              \* of the row it inserts
            overtaken : BOOLEAN]         \* the row was written since the load

AuditLog == [action : STRING, org : Org, from : STRING, to : STRING,
             tables : SUBSET Table]

AnySlug == CHOOSE s \in Slug : TRUE
Idle == [op |-> "idle", org |-> 1, grant |-> 1, slug |-> AnySlug, from |-> "",
         to |-> "", email |-> FALSE, row |-> "fresh", overtaken |-> FALSE]
Silence == [action |-> "", org |-> 1, from |-> "", to |-> "", tables |-> {}]

TypeOK ==
    /\ org \in [Org -> Organization]
    /\ rows \in [Org -> [Table -> SUBSET RowLabel]]
    /\ grant \in [Grant -> SupportGrant]
    /\ hooks \subseteq Required
    /\ \A r \in Req : /\ DOMAIN req[r] = DOMAIN Idle
                      /\ req[r].org \in Org /\ req[r].grant \in Grant
                      /\ req[r].from \in Status \cup Hold \cup {""}
                      /\ req[r].row \in RowLabel
                      /\ req[r].to \in Status \cup Hold \cup Table \cup {""}
    /\ erased \subseteq Org
    /\ inserts \in 0..MaxInsert
    /\ event.tables \subseteq Table

Init ==
    /\ org = [o \in Org |-> [exists |-> FALSE, slug |-> AnySlug,
                             status |-> "active", hold |-> "clear"]]
    /\ rows = [o \in Org |-> [t \in Table |-> {}]]
    /\ grant = [g \in Grant |-> [exists |-> FALSE, org |-> 1,
                                 status |-> "requested", email |-> FALSE,
                                 expired |-> FALSE]]
    /\ hooks = {}
    /\ req = [r \in Req |-> Idle]
    /\ erased = {}
    /\ inserts = 0
    /\ event = Silence

----------------------------------------------------------------------------
(* Transactions and the audit trail.                                       *)

\* One audit row, in the transaction of the change it describes.
BuildRow(action, o, from, to, tables) ==
    [action |-> action, org |-> o, from |-> from, to |-> to, tables |-> tables]
Record(action, o, from, to, tables) ==
    event' = BuildRow(action, o, from, to, tables)

BeginWith(r, q) == /\ req[r] = Idle
                   /\ req' = [req EXCEPT ![r] = q]
                   /\ event' = Silence
                   /\ UNCHANGED <<org, rows, grant, hooks, erased>>

\* The request is over; requests that loaded the same company are overtaken.
CommitOrg(r, o) == req' = [s \in Req |->
    IF s = r THEN Idle
    ELSE [req[s] EXCEPT !.overtaken = @ \/ (req[s].op # "idle" /\ req[s].org = o)]]

\* An error response: the transaction rolls back.
Rollback(r) == /\ req' = [req EXCEPT ![r] = Idle]
               /\ event' = Silence
               /\ UNCHANGED <<org, rows, grant, hooks, erased, inserts>>

GetById(o) == org[o].exists
GetBySlug(s) == {o \in Org : org[o].exists /\ org[o].slug = s}

\* The loads FOR UPDATE hold their row from the load to the end of the request.
HoldsNothing(r, o) == FALSE
HoldsOrg(r, o) == req[r].op = "erase" /\ req[r].org = o
HoldsKeyShare(r, o) == /\ req[r].op = "insert" /\ req[r].org = o
                       /\ req[r].to \in WithForeignKey
HoldsGrant(r, g) == req[r].op \in {"approve", "deny", "revoke"} /\ req[r].grant = g

OrgFree(o) == \A r \in Req : ~HoldsOrg(r, o)

\* Loaded while inserts of the company's rows are in flight.
SelectOrg(o) == OrgFree(o)
GetForUpdate(o) == OrgFree(o) /\ \A r \in Req : ~HoldsKeyShare(r, o)

\* A plain SELECT: it neither waits nor locks.
PlainSelectGrant(g) == TRUE
LockGrant(g) == \A r \in Req : ~HoldsGrant(r, g)

----------------------------------------------------------------------------
(* Onboarding.                                                             *)

UniqueSlug(s) == GetBySlug(s) = {}

\* The pre-checks: the slug is free and no user has the admin's email.
OnboardLoad(r, s) ==
    /\ GetBySlug(s) = {}
    /\ BeginWith(r, [Idle EXCEPT !.op = "onboard", !.slug = s])
    /\ UNCHANGED inserts

AddOrganization(o, s) ==
    org' = [org EXCEPT ![o] = [exists |-> TRUE, slug |-> s,
                               status |-> "active", hold |-> "clear"]]
AddUser(o) == rows' = [rows EXCEPT ![o]["users"] = {"fresh"}]

\* The email was taken during the hash, and only the insert of the user is given up.
OnboardLosesAdmin(r, emailTaken) ==
    /\ req[r].op = "onboard"
    /\ UniqueSlug(req[r].slug)
    /\ \E o \in Org : /\ ~org[o].exists /\ \A p \in 1..(o - 1) : org[p].exists
                      /\ AddOrganization(o, req[r].slug)
                      /\ IF emailTaken THEN rows' = rows ELSE AddUser(o)
                      /\ Record("org.onboard", o, "", "", {})
    /\ req' = [req EXCEPT ![r] = Idle]
    /\ UNCHANGED <<grant, hooks, erased, inserts>>

\* The organization, the hash awaited, its first admin and the audit row commit
\* together; a lost race on the slug or the email rolls all of it back.
Onboard(r, emailTaken) ==
    /\ req[r].op = "onboard"
    /\ IF ~UniqueSlug(req[r].slug) \/ emailTaken THEN Rollback(r)
       ELSE /\ \E o \in Org : /\ ~org[o].exists
                              /\ \A p \in 1..(o - 1) : org[p].exists
                              /\ AddOrganization(o, req[r].slug)
                              /\ AddUser(o)
                              /\ Record("org.onboard", o, "", "", {})
            /\ req' = [req EXCEPT ![r] = Idle]
            /\ UNCHANGED <<grant, hooks, erased, inserts>>

----------------------------------------------------------------------------
(* Status and legal hold: loaded without a lock, written at the flush.     *)

\* The unit of work writes a column only when it differs from the loaded value.
Flush(current, loaded, new) == IF new = loaded THEN current ELSE new

LoadStatus(r, o, s) ==
    /\ GetById(o)
    /\ BeginWith(r, [Idle EXCEPT !.op = "status", !.org = o,
                                 !.from = org[o].status, !.to = s])
    /\ UNCHANGED inserts

StatusAction(s) == CASE s = "suspended" -> "org.suspend"
                     [] s = "active"    -> "org.reactivate"
                     [] OTHER           -> "org.status_change"

\* from_status taken after the assignment.
SetStatusReadsLate(r) ==
    LET q == req[r] IN
    /\ q.op = "status" /\ OrgFree(q.org)
    /\ org' = [org EXCEPT ![q.org].status = Flush(@, q.from, q.to)]
    /\ Record(StatusAction(q.to), q.org, q.to, q.to, {})
    /\ CommitOrg(r, q.org)
    /\ UNCHANGED <<rows, grant, hooks, erased, inserts>>

SetStatus(r) ==
    LET q == req[r] IN
    /\ q.op = "status" /\ OrgFree(q.org)
    /\ org' = [org EXCEPT ![q.org].status = Flush(@, q.from, q.to)]
    /\ Record(StatusAction(q.to), q.org, q.from, q.to, {})
    /\ CommitOrg(r, q.org)
    /\ UNCHANGED <<rows, grant, hooks, erased, inserts>>

LoadLegalHold(r, o, h) ==
    /\ GetById(o)
    /\ BeginWith(r, [Idle EXCEPT !.op = "hold", !.org = o,
                                 !.from = org[o].hold, !.to = h])
    /\ UNCHANGED inserts

SetLegalHold(r) ==
    LET q == req[r] IN
    /\ q.op = "hold" /\ OrgFree(q.org)
    /\ org' = [org EXCEPT ![q.org].hold = Flush(@, q.from, q.to)]
    /\ Record(IF q.to = "held" THEN "org.legal_hold.set" ELSE "org.legal_hold.clear",
              q.org, q.from, q.to, {})
    /\ CommitOrg(r, q.org)
    /\ UNCHANGED <<rows, grant, hooks, erased, inserts>>

----------------------------------------------------------------------------
(* Rows added by the company's users, logins and mailboxes.                *)

\* The handler of a request that is to add a row: a user created, a refresh token
\* issued, a mailbox connected, mail ingested.  The access token is checked, which
\* outlives the user, and not the company's status; a login loads its user.  What
\* the handler awaits then, a password hash among it, it awaits with no lock.
BeginInsert(r, o, t) ==
    /\ inserts < MaxInsert
    /\ GetById(o)
    /\ t = "refresh_tokens" => rows[o]["users"] # {}
    /\ BeginWith(r, [Idle EXCEPT !.op = "begun", !.org = o, !.to = t])
    /\ inserts' = inserts + 1

\* The INSERT: its foreign keys wait for the company's row and find the rows
\* referred to.  The company is not read again.
InsertRows(r) ==
    LET q == req[r] IN
    /\ q.op = "begun"
    /\ q.to \in WithForeignKey => OrgFree(q.org)
    /\ RefersTo(q.to) # {} => \E t \in RefersTo(q.to) : rows[q.org][t] # {}
    /\ req' = [req EXCEPT ![r].op = "insert"]
    /\ event' = Silence
    /\ UNCHANGED <<org, rows, grant, hooks, erased, inserts>>

InsertCommits(r) ==
    LET q == req[r] IN
    /\ q.op = "insert"
    /\ rows' = [rows EXCEPT ![q.org][q.to] = @ \cup {q.row}]
    /\ req' = [req EXCEPT ![r] = Idle]
    /\ event' = Silence
    /\ UNCHANGED <<org, grant, hooks, erased, inserts>>

\* A duplicate, a row referred to that is gone, or a lost process.
InsertFails(r) ==
    /\ req[r].op \in {"begun", "insert"}
    /\ Rollback(r)

----------------------------------------------------------------------------
(* Erasure.                                                                *)

\* create_app puts one more module on the registry, in this order.
Registration == <<"access", "connectors", "entities">>
RegisterErasureHook ==
    /\ Cardinality(hooks) < Len(Registration)
    /\ hooks' = hooks \cup {Registration[Cardinality(hooks) + 1]}
    /\ event' = Silence
    /\ UNCHANGED <<org, rows, grant, req, erased, inserts>>

HooksConfigured == Required \subseteq hooks

\* The company's row is loaded and locked and its slug compared; the password
\* check that follows is awaited with the lock held.
EraseLoad(r, o) ==
    /\ HooksConfigured
    /\ GetById(o)
    /\ GetForUpdate(o)
    /\ BeginWith(r, [Idle EXCEPT !.op = "erase", !.org = o,
                                 !.from = org[o].hold])
    /\ UNCHANGED inserts

\* One DELETE ... WHERE org_id: what it found joins the report, what cascades
\* from it does not.
Delete(acc, t) ==
    IF acc.rows[t] = {} THEN acc
    ELSE [rows |-> [u \in Table |-> IF u \in {t} \cup CascadesFrom(t)
                                    THEN {} ELSE acc.rows[u]],
          report |-> acc.report \cup {t}]

\* Refresh tokens are found through the company's users.
DeleteForOrgUsers(acc) ==
    IF acc.rows["users"] = {} THEN acc ELSE Delete(acc, "refresh_tokens")
DeleteAllInOrg(acc) == Delete(acc, "users")

RunHook(acc, name) == IF name \in hooks THEN Delete(acc, name) ELSE acc
EraseAccessData(acc)    == RunHook(acc, "access")
EraseConnectorData(acc) == RunHook(acc, "connectors")
EraseEntityGraph(acc)   == RunHook(acc, "entities")
RunHooks(acc) == EraseEntityGraph(EraseConnectorData(EraseAccessData(acc)))

\* Users first: the cascade takes the mailboxes before they are counted.
EraseUsersFirst(o) ==
    RunHooks(DeleteAllInOrg(DeleteForOrgUsers([rows |-> rows[o], report |-> {}])))
EraseTables(o) ==
    DeleteAllInOrg(RunHooks(DeleteForOrgUsers([rows |-> rows[o], report |-> {}])))

\* UPDATE ... WHERE decided_by_email IS NOT NULL: a row whose email is not
\* committed yet does not match and is not waited for.
ScrubWaitsFor(o) == {g \in Grant : grant[g].exists /\ grant[g].org = o /\ grant[g].email}
ScrubDeciderEmails(o) ==
    /\ \A g \in ScrubWaitsFor(o) : LockGrant(g)
    /\ grant' = [g \in Grant |-> IF g \in ScrubWaitsFor(o)
                                 THEN [grant[g] EXCEPT !.email = FALSE] ELSE grant[g]]

\* A wrong slug or password, an inactive admin, or a legal hold.
EraseRefused(r) ==
    /\ req[r].op = "erase"
    /\ Rollback(r)

\* What the deletes did not find, and what is in flight, is labelled for it.
Outlive(found) == [t \in Table |-> IF found[t] = {} THEN {} ELSE {"survivor"}]
OutliveErasure(r, o) == req' = [s \in Req |->
    IF s = r THEN Idle
    ELSE IF req[s].op = "idle" \/ req[s].org # o THEN req[s]
    ELSE [req[s] EXCEPT !.overtaken = TRUE,
                        !.row = IF req[s].op = "insert" THEN "survivor" ELSE @]]

EraseOrganization(r) ==
    LET o == req[r].org
        done == EraseTables(o)
    IN  /\ req[r].op = "erase"
        /\ req[r].from = "clear"
        /\ ScrubDeciderEmails(o)
        /\ rows' = [rows EXCEPT ![o] = Outlive(done.rows)]
        /\ org' = [org EXCEPT ![o].status = "offboarded"]
        /\ erased' = erased \cup {o}
        /\ Record("org.erased", o, "", "", done.report)
        /\ OutliveErasure(r, o)
        /\ UNCHANGED <<hooks, inserts>>

----------------------------------------------------------------------------
(* Break-glass support access.                                             *)

GrantIsActive(g) == grant[g].status = "approved" /\ ~grant[g].expired

RequestAccess(r, o) ==
    /\ req[r] = Idle
    /\ GetById(o)
    /\ \E g \in Grant :
          /\ ~grant[g].exists /\ \A h \in 1..(g - 1) : grant[h].exists
          /\ grant' = [grant EXCEPT ![g] = [exists |-> TRUE, org |-> o,
                          status |-> "requested", email |-> FALSE,
                          expired |-> FALSE]]
    /\ Record("support.requested", o, "", "requested", {})
    /\ UNCHANGED <<org, rows, hooks, req, erased, inserts>>

\* get_in_org and get_for_requester: scoped, and locked until the commit.
GetInOrg(g, o) == grant[g].exists /\ grant[g].org = o /\ LockGrant(g)
GetForRequester(g) == grant[g].exists /\ LockGrant(g)

Revocable == {"requested", "approved"}

LoadRequested(r, g, op) ==
    /\ GetInOrg(g, grant[g].org)
    /\ grant[g].status = "requested"
    /\ BeginWith(r, [Idle EXCEPT !.op = op, !.grant = g, !.org = grant[g].org,
                        !.email = (rows[grant[g].org]["users"] # {})])
    /\ UNCHANGED inserts

ApproveLoad(r, g) == LoadRequested(r, g, "approve")
DenyLoad(r, g)    == LoadRequested(r, g, "deny")

LoadRevocable(r, g) ==
    /\ grant[g].status \in Revocable
    /\ BeginWith(r, [Idle EXCEPT !.op = "revoke", !.grant = g, !.org = grant[g].org])
    /\ UNCHANGED inserts

CompanyRevokeLoad(r, g)  == GetInOrg(g, grant[g].org) /\ LoadRevocable(r, g)
PlatformRevokeLoad(r, g) == GetForRequester(g) /\ LoadRevocable(r, g)

Decide(r, op, new, action) ==
    /\ req[r].op = op
    /\ grant' = [grant EXCEPT ![req[r].grant] = new]
    /\ Record(action, req[r].org, "", new.status, {})
    /\ req' = [req EXCEPT ![r] = Idle]
    /\ UNCHANGED <<org, rows, hooks, erased, inserts>>

StampDecision(r) == [grant[req[r].grant] EXCEPT !.email = req[r].email]

Approve(r) == Decide(r, "approve",
    [StampDecision(r) EXCEPT !.status = "approved", !.expired = FALSE], "support.approved")
Deny(r) == Decide(r, "deny",
    [StampDecision(r) EXCEPT !.status = "denied"], "support.denied")
Revoke(r) == Decide(r, "revoke",
    [grant[req[r].grant] EXCEPT !.status = "revoked"], "support.revoked")

\* The clock passes expires_at.
Expire(g) ==
    /\ GrantIsActive(g)
    /\ grant' = [grant EXCEPT ![g].expired = TRUE]
    /\ event' = Silence
    /\ UNCHANGED <<org, rows, hooks, req, erased, inserts>>

----------------------------------------------------------------------------
PlatformRoutes(r) ==
    \/ \E s \in Slug : OnboardLoad(r, s)
    \/ \E taken \in BOOLEAN : Onboard(r, taken)
    \/ \E o \in Org, s \in Status : LoadStatus(r, o, s)
    \/ SetStatus(r)
    \/ \E o \in Org, h \in Hold : LoadLegalHold(r, o, h)
    \/ SetLegalHold(r)

ErasureRoutes(r) ==
    \/ \E o \in Org : EraseLoad(r, o)
    \/ EraseRefused(r)
    \/ EraseOrganization(r)

PlatformSupportRoutes(r) ==
    \/ \E o \in Org : RequestAccess(r, o)
    \/ \E g \in Grant : PlatformRevokeLoad(r, g)
    \/ Revoke(r)

CompanySupportRoutes(r) ==
    \/ \E g \in Grant : ApproveLoad(r, g)
    \/ \E g \in Grant : DenyLoad(r, g)
    \/ \E g \in Grant : CompanyRevokeLoad(r, g)
    \/ Approve(r)
    \/ Deny(r)

TenantWrites(r) ==
    \/ \E o \in Org, t \in Table : BeginInsert(r, o, t)
    \/ InsertRows(r)
    \/ InsertCommits(r)
    \/ InsertFails(r)

Next ==
    \/ \E r \in Req : \/ PlatformRoutes(r)
                      \/ ErasureRoutes(r)
                      \/ PlatformSupportRoutes(r)
                      \/ CompanySupportRoutes(r)
                      \/ TenantWrites(r)
    \/ RegisterErasureHook
    \/ \E g \in Grant : Expire(g)

Spec == Init /\ [][Next]_vars

----------------------------------------------------------------------------
(* Properties.                                                             *)

\* Onboarding is all or nothing: a company that is not erased has the users it
\* was onboarded with, whatever races the two pre-checks lost.
OnboardingIsWhole ==
    \A o \in Org : org[o].exists /\ o \notin erased => rows[o]["users"] # {}

\* Every row that was inserted when an erasure took the company's lock is gone
\* when it has committed, whether its own transaction had committed or not: the
\* lock waits for the inserts in flight, and a registry with a module missing
\* erases nothing.  (A handler that has begun and not reached its INSERT is not
\* waited for, and inserts into the erased company: create_user does, which
\* awaits a password hash in between, user_service.py:92.)
ErasureIsComplete ==
    \A o \in erased : \A t \in WithForeignKey : "survivor" \notin rows[o][t]

\* A grant that has been decided stays decided: approved or denied from
\* requested only, revoked once, and no commit of a slower request undoes it.
GrantsMoveForward == [][\A g \in Grant :
    LET was == grant[g].status
        is  == grant'[g].status
    IN  is # was => \/ was = "requested"
                    \/ was = "approved" /\ is = "revoked"]_vars

\* No erasure commits on a company whose legal hold is set, even one set while
\* the acting admin's password was being checked.
HoldStopsErasure == [][\A o \in Org :
    event'.action = "org.erased" /\ event'.org = o /\ event' # event
        => org[o].hold = "clear"]_vars

\* The deletion certificate names every table that had rows: nothing is taken
\* along by a cascade before it is counted.  (A refresh token whose login was
\* in flight at an earlier erasure has no user left to be found through.)
CertificateIsHonest == [][\A o \in Org :
    event'.action = "org.erased" /\ event'.org = o /\ event' # event
        => event'.tables \cap WithForeignKey
               = {t \in WithForeignKey : rows[o][t] # {}}]_vars

\* A status change no other commit overtook records the transition it made.
StatusAuditIsTrue == [][\A r \in Req :
    req[r].op = "status" /\ ~req[r].overtaken /\ req'[r] = Idle =>
        /\ event'.from = org[req[r].org].status
        /\ event'.to = org'[req[r].org].status]_vars

\* After an erasure no grant names the company admin who decided it.
DeciderEmailsAreScrubbed ==
    \A g \in Grant : grant[g].exists /\ grant[g].org \in erased => ~grant[g].email
=============================================================================
