----------------------------- MODULE Migrations -----------------------------
(***************************************************************************)
(* The alembic chain 0001..0019 (backend/app/db/migrations/versions) and   *)
(* the environment that runs it (env.py).  A migration is the sequence of  *)
(* its statements; Apply is what PostgreSQL does with one of them.  One    *)
(* `alembic upgrade` or `downgrade` is ONE transaction over all its        *)
(* revisions (env.py opens it around run_migrations), so a statement that  *)
(* raises undoes the whole command.  Between commands the program writes   *)
(* the few rows the migrations read, move or can trip over.                *)
(*                                                                         *)
(* Columns, checks, indexes, functions and triggers are all "members" of a *)
(* table: what matters of them is that they are there, that nothing is     *)
(* created twice or dropped when absent, and which rows refuse them.       *)
(***************************************************************************)
EXTENDS Integers, Sequences, FiniteSets, SequencesExt

CONSTANTS None,        \* no command is running; a row that is not there
          Boxes        \* the connections of one organization to ONE address

ASSUME BoxesAssumption == IsFiniteSet(Boxes)

App    == "oneai_app"
Global == "oneai_global"
Reader == "oneai_reader"

Dml == {"SELECT", "INSERT", "UPDATE", "DELETE"}

HeadRevision == 19

-----------------------------------------------------------------------------
(* Statements                                                              *)

CreateTable(t)      == [op |-> "create table", t |-> t]
DropTable(t)        == [op |-> "drop table", t |-> t]
Add(t, member)      == [op |-> "add", t |-> t, m |-> member]
Drop(t, member)     == [op |-> "drop", t |-> t, m |-> member]
\* A foreign key of t on parent(id), or on the anchor parent(org_id, id).
Refer(t, col, parent, composite) ==
  [op |-> "refer", t |-> t, fk |-> [col |-> col, parent |-> parent, composite |-> composite]]
Unrefer(t, col, composite) ==
  [op |-> "unrefer", t |-> t, col |-> col, composite |-> composite]
Enable(t)           == [op |-> "enable", t |-> t]
Disable(t)          == [op |-> "disable", t |-> t]
Force(t)            == [op |-> "force", t |-> t]
NoForce(t)          == [op |-> "no force", t |-> t]
CreatePolicy(t, p)  == [op |-> "policy", t |-> t, m |-> p]
DropPolicy(t, p)    == [op |-> "drop policy", t |-> t, m |-> p]
CreateRole(r)       == [op |-> "create role", r |-> r]
DropRole(r)         == [op |-> "drop role", r |-> r]
Grant(r, t, privs)  == [op |-> "grant", t |-> t, r |-> r, privs |-> privs]
Revoke(r, t, privs) == [op |-> "revoke", t |-> t, r |-> r, privs |-> privs]
GrantAllTables(r)   == [op |-> "grant all", r |-> r]
AutoGrant(r)        == [op |-> "auto grant", r |-> r]
NoAutoGrant(r)      == [op |-> "no auto grant", r |-> r]
StampLegacyText     == [op |-> "stamp legacy text", t |-> "email_attachment"]
FillContainer(t)    == [op |-> "fill container", t |-> t]

\* The statements of a loop over a list of tables.
ForEach(list, Body(_)) == FlattenSeq([i \in DOMAIN list |-> Body(list[i])])

-----------------------------------------------------------------------------
(* PostgreSQL, one statement at a time                                     *)

\* Rows that a guard of a later revision refuses, and the guard.
Breaches == {"alias twice", "phantom organization", "recipient twice"}
GuardOf == [b \in Breaches |->
  CASE b = "alias twice"          -> <<"person_alias", "uq_person_alias_identity">>
    [] b = "phantom organization" -> <<"person", "org_id">>
    [] b = "recipient twice"      -> <<"email_recipient", "uq_email_recipient_edge">>]

\* The connections to the address.  Shared is owner_user_id IS NULL.
Shared == "shared"
Owners == {"ann", "bob"}
Absent == [b \in Boxes |-> None]
Connected(rows) == {b \in Boxes : rows.boxes[b] # None}

\* A stored message before 0019 gave it a scope, a container and promotions.
BareMail == [scope |-> None, container |-> FALSE, approved |-> FALSE]

NoRows == [breaches |-> {}, boxes |-> Absent, attachment |-> None, mail |-> None]

\* A database before the first migration: alembic made its own ledger.
Empty(superuser) ==
  [rev |-> 0, tables |-> {"alembic_version"}, members |-> {}, fks |-> {},
   enabled |-> {}, forced |-> {}, policies |-> {}, roles |-> {}, auto |-> {},
   acl |-> {}, rows |-> NoRows, superuser |-> superuser, error |-> None]

Raise(s, why) == [s EXCEPT !.error = why]

FksOn(s, parent) == {x \in s.fks : x.fk.parent = parent}

\* Dropping a table takes its members, rights and rows along; PostgreSQL
\* refuses while a foreign key of another table points at it.
RowsWithout(rows, t) ==
  [breaches   |-> {b \in rows.breaches : GuardOf[b][1] # t},
   boxes      |-> IF t = "connector_connection" THEN Absent ELSE rows.boxes,
   attachment |-> IF t = "email_attachment" THEN None ELSE rows.attachment,
   mail       |-> IF t = "email_message" THEN None ELSE rows.mail]

DroppedTable(s, t) ==
  [s EXCEPT !.tables = @ \ {t},
            !.members = {x \in @ : x[1] # t},
            !.policies = {x \in @ : x[1] # t},
            !.fks = {x \in @ : x.t # t},
            !.enabled = @ \ {t}, !.forced = @ \ {t},
            !.acl = {x \in @ : x[2] # t},
            !.rows = RowsWithout(@, t)]

\* The owner's own statements pass row security unless it is forced on it.
OwnerReaches(s, t) == s.superuser \/ t \notin s.forced

Refused_NotValid(s, t, member) == FALSE
\* Rows that refuse a new unique index, check or foreign key.
Refused(s, t, member) ==
  \/ \E b \in s.rows.breaches : GuardOf[b] = <<t, member>>
  \/ /\ member = "uq_connector_connection_identity"
     /\ Cardinality(Connected(s.rows)) > 1

\* New columns start at their server default; dropped ones take the values
\* along: without owner_user_id a connection is nobody's, so shared.
WithColumn_Open(s, t, member) ==
  CASE member = "extraction_status" /\ s.rows.attachment # None ->
         [s EXCEPT !.rows.attachment.status = "pending"]
    [] t = "email_message" /\ member = "visibility_scope" /\ s.rows.mail # None ->
         [s EXCEPT !.rows.mail.scope = "org"]
    [] OTHER -> s
WithColumn(s, t, member) ==
  CASE member = "extraction_status" /\ s.rows.attachment # None ->
         [s EXCEPT !.rows.attachment.status = "pending"]
    [] t = "email_message" /\ member = "visibility_scope" /\ s.rows.mail # None ->
         [s EXCEPT !.rows.mail.scope = "restricted"]
    [] OTHER -> s
WithoutColumn(s, t, member) ==
  CASE member = "extraction_status" /\ s.rows.attachment # None ->
         [s EXCEPT !.rows.attachment.status = None, !.rows.attachment.by = None]
    [] t = "email_message" /\ member = "visibility_scope" /\ s.rows.mail # None ->
         [s EXCEPT !.rows.mail = BareMail]
    [] member = "owner_user_id" ->
         [s EXCEPT !.rows.boxes = [b \in Boxes |-> IF @[b] = None THEN None ELSE Shared]]
    [] OTHER -> s

Stamped(s) ==
  IF s.rows.attachment # None /\ s.rows.attachment.text
       /\ OwnerReaches(s, "email_attachment")
  THEN [s EXCEPT !.rows.attachment.status = "extracted", !.rows.attachment.by = "legacy-text"]
  ELSE s

\* The default rights a new table is born with.
Born(s, t) == s.auto \X {t} \X Dml

Apply(s, q) ==
  CASE s.error # None -> s
    [] q.op = "create table" ->
         IF q.t \in s.tables THEN Raise(s, "exists")
         ELSE [s EXCEPT !.tables = @ \union {q.t}, !.acl = @ \union Born(s, q.t)]
    [] q.op = "drop table" ->
         IF q.t \notin s.tables THEN Raise(s, "missing")
         ELSE IF \E x \in FksOn(s, q.t) : x.t # q.t THEN Raise(s, "depends")
         ELSE DroppedTable(s, q.t)
    [] q.op = "add" ->
         IF q.t \notin s.tables THEN Raise(s, "missing")
         ELSE IF <<q.t, q.m>> \in s.members THEN Raise(s, "exists")
         ELSE IF Refused(s, q.t, q.m) THEN Raise(s, "rows")
         ELSE [WithColumn(s, q.t, q.m) EXCEPT !.members = @ \union {<<q.t, q.m>>}]
    [] q.op = "drop" ->
         IF <<q.t, q.m>> \notin s.members THEN Raise(s, "missing")
         ELSE IF q.m = "org_row" /\ (\E x \in FksOn(s, q.t) : x.fk.composite)
              THEN Raise(s, "depends")
         ELSE [WithoutColumn(s, q.t, q.m) EXCEPT !.members = @ \ {<<q.t, q.m>>}]
    [] q.op = "refer" ->
         IF \/ {q.t, q.fk.parent} \ s.tables # {}
            \/ q.fk.composite /\ <<q.fk.parent, "org_row">> \notin s.members
         THEN Raise(s, "missing")
         ELSE IF [t |-> q.t, fk |-> q.fk] \in s.fks THEN Raise(s, "exists")
         ELSE IF Refused(s, q.t, q.fk.col) THEN Raise(s, "rows")
         ELSE [s EXCEPT !.fks = @ \union {[t |-> q.t, fk |-> q.fk]}]
    [] q.op = "unrefer" ->
         LET gone == {x \in s.fks : /\ x.t = q.t /\ x.fk.col = q.col
                                    /\ x.fk.composite = q.composite}
         IN IF gone = {} THEN Raise(s, "missing") ELSE [s EXCEPT !.fks = @ \ gone]
    [] q.op = "enable"    -> [s EXCEPT !.enabled = @ \union {q.t}]
    [] q.op = "disable"   -> [s EXCEPT !.enabled = @ \ {q.t}]
    [] q.op = "force"     -> [s EXCEPT !.forced = @ \union {q.t}]
    [] q.op = "no force"  -> [s EXCEPT !.forced = @ \ {q.t}]
    [] q.op = "policy"    ->
         IF <<q.t, q.m>> \in s.policies THEN Raise(s, "exists")
         ELSE [s EXCEPT !.policies = @ \union {<<q.t, q.m>>}]
    [] q.op = "drop policy" -> [s EXCEPT !.policies = @ \ {<<q.t, q.m>>}]
    [] q.op = "create role" -> [s EXCEPT !.roles = @ \union {q.r}]
    [] q.op = "drop role"   ->
         [s EXCEPT !.roles = @ \ {q.r}, !.acl = {x \in @ : x[1] # q.r}, !.auto = @ \ {q.r}]
    [] q.op = "grant" ->
         IF q.r \notin s.roles \/ q.t \notin s.tables THEN Raise(s, "missing")
         ELSE [s EXCEPT !.acl = @ \union ({q.r} \X {q.t} \X q.privs)]
    [] q.op = "revoke" ->
         IF q.r \notin s.roles \/ q.t \notin s.tables THEN Raise(s, "missing")
         ELSE [s EXCEPT !.acl = @ \ ({q.r} \X {q.t} \X q.privs)]
    [] q.op = "grant all"     -> [s EXCEPT !.acl = @ \union ({q.r} \X s.tables \X Dml)]
    [] q.op = "auto grant"    -> [s EXCEPT !.auto = @ \union {q.r}]
    [] q.op = "no auto grant" -> [s EXCEPT !.auto = @ \ {q.r}]
    [] q.op = "stamp legacy text" -> Stamped(s)
    [] q.op = "fill container" ->
         IF q.t = "email_message" /\ s.rows.mail # None /\ OwnerReaches(s, q.t)
         THEN [s EXCEPT !.rows.mail.container = TRUE] ELSE s

Execute(s, statements) == FoldLeft(Apply, s, statements)

-----------------------------------------------------------------------------
(* The revisions                                                           *)

\* The org_isolation policy of a tenant table, inert until it is forced.
Isolate(t)   == <<Enable(t), CreatePolicy(t, "org_isolation")>>
Unisolate(t) == <<DropPolicy(t, "org_isolation"), Disable(t)>>
\* ... and with FORCE, as every tenant table has it from 0009 on.
IsolateAndForce(t) == Append(Isolate(t), Force(t))
Unforce(t) == <<DropPolicy(t, "org_isolation"), NoForce(t), Disable(t)>>

Tables0008 == <<"person", "person_email", "person_alias", "company", "company_domain",
                "person_company", "email_message", "email_recipient", "email_attachment">>
TenantTables0009 == <<"users", "support_grant", "connector_connection">> \o Tables0008
Tables0011 == <<"connector_sync_cursor", "connector_sync_run">>
PlatformOnlyTables == <<"platform_admins", "refresh_tokens", "organizations", "alembic_version">>
Tables0018 == <<"connector_policy", "connector_policy_override", "connector_consent">>
Tables0019 == <<"acl_grant", "visibility_promotion", "principal_source_identity",
                "fact_provenance">>
ContentTables == <<"email_message", "email_recipient", "email_attachment">>
ReaderTables == SubSeq(Tables0008, 7, 9) \o SubSeq(Tables0008, 1, 6)
                  \o <<"connector_connection">>

Up0001   == << >>
Down0001 == << >>

Up0002_organizations == <<CreateTable("organizations"), Add("organizations", "slug")>>
Up0002_users ==
  <<CreateTable("users"), Refer("users", "org_id", "organizations", FALSE),
    Add("users", "email"), Add("users", "ck_users_role")>>
Up0002_platform_admins == <<CreateTable("platform_admins"), Add("platform_admins", "email")>>
Up0002_refresh_tokens ==
  <<CreateTable("refresh_tokens"), Add("refresh_tokens", "token_hash"),
    Add("refresh_tokens", "ck_refresh_tokens_subject_type")>>
Up0002 == Up0002_organizations \o Up0002_users \o Up0002_platform_admins
            \o Up0002_refresh_tokens
Down0002_ParentFirst ==
  <<DropTable("refresh_tokens"), DropTable("platform_admins"),
    DropTable("organizations"), DropTable("users")>>
Down0002 == <<DropTable("refresh_tokens"), DropTable("platform_admins"),
              DropTable("users"), DropTable("organizations")>>

Up0003   == Isolate("users")
Down0003 == Unisolate("users")

Up0004 == <<Add("organizations", "legal_hold"), Add("organizations", "ck_organizations_status")>>
Down0004 == <<Drop("organizations", "ck_organizations_status"),
              Drop("organizations", "legal_hold")>>

AppendOnlyTrigger == <<Add("audit_log", "audit_log_no_mutation")>>
Up0005 == <<CreateTable("audit_log"), Add("audit_log", "ck_audit_log_actor_type")>>
            \o AppendOnlyTrigger
Down0005 == <<Drop("audit_log", "audit_log_no_mutation"), DropTable("audit_log")>>

Up0006 == <<CreateTable("support_grant"), Add("support_grant", "ck_support_grant_status")>>
            \o Isolate("support_grant")
Down0006 == Unisolate("support_grant") \o <<DropTable("support_grant")>>

Up0007 == <<CreateTable("connector_connection"),
            Add("connector_connection", "uq_connector_connection_identity")>>
            \o Isolate("connector_connection")
Down0007 == Unisolate("connector_connection") \o <<DropTable("connector_connection")>>

Up0008_people ==
  <<CreateTable("person"), CreateTable("person_email"),
    Refer("person_email", "person_id", "person", FALSE),
    CreateTable("person_alias"), Refer("person_alias", "person_id", "person", FALSE)>>
Up0008_companies ==
  <<CreateTable("company"), CreateTable("company_domain"),
    Refer("company_domain", "company_id", "company", FALSE),
    CreateTable("person_company"), Refer("person_company", "person_id", "person", FALSE),
    Refer("person_company", "company_id", "company", FALSE)>>
Up0008_emails ==
  <<CreateTable("email_message"),
    Refer("email_message", "connection_id", "connector_connection", FALSE),
    Refer("email_message", "from_person_id", "person", FALSE),
    Add("email_message", "uq_email_message_dedup")>>
Up0008_children ==
  <<CreateTable("email_recipient"), Refer("email_recipient", "email_id", "email_message", FALSE),
    Refer("email_recipient", "person_id", "person", FALSE),
    CreateTable("email_attachment"),
    Refer("email_attachment", "email_id", "email_message", FALSE)>>
Up0008 == Up0008_people \o Up0008_companies \o Up0008_emails \o Up0008_children
            \o ForEach(Tables0008, Isolate)
Down0008 == ForEach(Reverse(Tables0008), Unisolate)
              \o ForEach(Reverse(Tables0008), LAMBDA t : <<DropTable(t)>>)

RuntimeRoles == <<App, Global>>
Privileges0009(r) == <<GrantAllTables(r), AutoGrant(r)>>
Up0009 == ForEach(RuntimeRoles, LAMBDA r : <<CreateRole(r)>>)
            \o ForEach(RuntimeRoles, Privileges0009)
            \o ForEach(TenantTables0009, LAMBDA t : <<Force(t)>>)
Down0009 == ForEach(TenantTables0009, LAMBDA t : <<NoForce(t)>>)
              \o ForEach(RuntimeRoles, LAMBDA r : <<NoAutoGrant(r), DropRole(r)>>)

Up0010   == <<Add("connector_connection", "disabled_at")>>
Down0010 == <<Drop("connector_connection", "disabled_at")>>

Up0011_connection == <<Add("connector_connection", "sync_status"),
                       Add("connector_connection", "ck_connector_connection_sync_status")>>
Up0011_ledger ==
  <<CreateTable("connector_sync_cursor"),
    Refer("connector_sync_cursor", "connection_id", "connector_connection", FALSE),
    CreateTable("connector_sync_run"),
    Refer("connector_sync_run", "connection_id", "connector_connection", FALSE)>>
Up0011 == Up0011_connection \o Up0011_ledger \o ForEach(Tables0011, IsolateAndForce)
Down0011 ==
  ForEach(Reverse(Tables0011), Unforce)
    \o <<DropTable("connector_sync_run"), DropTable("connector_sync_cursor"),
         Drop("connector_connection", "ck_connector_connection_sync_status"),
         Drop("connector_connection", "sync_status")>>

Up0012   == <<Add("person_alias", "uq_person_alias_identity")>>
Down0012 == <<Drop("person_alias", "uq_person_alias_identity")>>

Up0013 == ForEach(PlatformOnlyTables, LAMBDA t : <<Revoke(App, t, Dml)>>)
            \o <<Revoke(App, "audit_log", {"UPDATE", "DELETE"})>>
            \o IsolateAndForce("audit_log") \o <<NoAutoGrant(App)>>
Down0013_NoAutoGrant ==
  <<NoForce("audit_log")>> \o Unisolate("audit_log")
    \o <<Grant(App, "audit_log", {"UPDATE", "DELETE"})>>
    \o ForEach(PlatformOnlyTables, LAMBDA t : <<Grant(App, t, Dml)>>)
Down0013 == <<AutoGrant(App), NoForce("audit_log")>> \o Unisolate("audit_log")
              \o <<Grant(App, "audit_log", {"UPDATE", "DELETE"})>>
              \o ForEach(PlatformOnlyTables, LAMBDA t : <<Grant(App, t, Dml)>>)

OrgFkTables == <<"company", "company_domain", "connector_connection", "connector_sync_cursor",
                 "connector_sync_run", "email_attachment", "email_message",
                 "email_recipient", "person", "person_alias", "person_company",
                 "person_email">>
CompositeFkParents == <<"email_message", "person", "company", "connector_connection">>
CompositeFks ==
  <<[t |-> "email_recipient", col |-> "email_id", parent |-> "email_message"],
    [t |-> "email_attachment", col |-> "email_id", parent |-> "email_message"],
    [t |-> "person_email", col |-> "person_id", parent |-> "person"],
    [t |-> "person_alias", col |-> "person_id", parent |-> "person"],
    [t |-> "person_company", col |-> "person_id", parent |-> "person"],
    [t |-> "person_company", col |-> "company_id", parent |-> "company"],
    [t |-> "company_domain", col |-> "company_id", parent |-> "company"],
    [t |-> "email_message", col |-> "connection_id", parent |-> "connector_connection"],
    [t |-> "connector_sync_run", col |-> "connection_id", parent |-> "connector_connection"],
    [t |-> "connector_sync_cursor", col |-> "connection_id", parent |-> "connector_connection"],
    [t |-> "email_message", col |-> "from_person_id", parent |-> "person"],
    [t |-> "email_recipient", col |-> "person_id", parent |-> "person"]>>
ValueShapeChecks ==
  <<<<"organizations", "ck_organizations_slug_format">>,
    <<"person_email", "ck_person_email_source">>,
    <<"person_alias", "ck_person_alias_source">>,
    <<"company_domain", "ck_company_domain_source">>,
    <<"refresh_tokens", "ck_refresh_tokens_hash_shape">>,
    <<"email_attachment", "ck_email_attachment_filename_nonempty">>,
    <<"support_grant", "ck_support_grant_lifecycle">>>>
LedgerGuards == <<"uq_sync_run_fencing", "ck_sync_run_time_order",
                  "ck_sync_run_terminal_finished", "ck_sync_run_counts_nonneg">>
MakeComposite(fk) == <<Refer(fk.t, fk.col, fk.parent, TRUE), Unrefer(fk.t, fk.col, FALSE)>>
MakeSingle(fk)    == <<Unrefer(fk.t, fk.col, TRUE), Refer(fk.t, fk.col, fk.parent, FALSE)>>
Up0014 ==
  ForEach(OrgFkTables, LAMBDA t : <<Refer(t, "org_id", "organizations", FALSE)>>)
    \o <<Add("users", "uq_users_email_lower"),
         Add("platform_admins", "uq_platform_admins_email_lower")>>
    \o ForEach(CompositeFkParents, LAMBDA t : <<Add(t, "org_row")>>)
    \o ForEach(CompositeFks, MakeComposite)
    \o <<Add("email_recipient", "uq_email_recipient_edge")>>
    \o ForEach(LedgerGuards, LAMBDA g : <<Add("connector_sync_run", g)>>)
    \o <<Add("connector_sync_cursor", "ck_sync_cursor_uidvalidity_positive")>>
    \o ForEach(ValueShapeChecks, LAMBDA c : <<Add(c[1], c[2])>>)
Down0014 ==
  ForEach(Reverse(ValueShapeChecks), LAMBDA c : <<Drop(c[1], c[2])>>)
    \o <<Drop("connector_sync_cursor", "ck_sync_cursor_uidvalidity_positive")>>
    \o ForEach(Reverse(LedgerGuards), LAMBDA g : <<Drop("connector_sync_run", g)>>)
    \o <<Drop("email_recipient", "uq_email_recipient_edge")>>
    \o ForEach(Reverse(CompositeFks), MakeSingle)
    \o ForEach(Reverse(CompositeFkParents), LAMBDA t : <<Drop(t, "org_row")>>)
    \o <<Drop("platform_admins", "uq_platform_admins_email_lower"),
         Drop("users", "uq_users_email_lower")>>
    \o ForEach(Reverse(OrgFkTables), LAMBDA t : <<Unrefer(t, "org_id", FALSE)>>)

Attachment0015 == <<"extraction_status", "extractor_name", "extractor_version",
                    "ck_email_attachment_extraction_status">>
Up0015_Bare ==
  ForEach(Attachment0015, LAMBDA c : <<Add("email_attachment", c)>>)
    \o <<StampLegacyText, Add("email_attachment", "ix_email_attachment_org_content_hash")>>
Up0015 == ForEach(Attachment0015, LAMBDA c : <<Add("email_attachment", c)>>)
            \o <<NoForce("email_attachment"), StampLegacyText, Force("email_attachment"),
                 Add("email_attachment", "ix_email_attachment_org_content_hash")>>
Down0015 == <<Drop("email_attachment", "ix_email_attachment_org_content_hash")>>
              \o ForEach(Reverse(Attachment0015), LAMBDA c : <<Drop("email_attachment", c)>>)

Up0016   == <<Add("email_attachment", "extraction_detail")>>
Down0016 == <<Drop("email_attachment", "extraction_detail")>>
Up0017   == <<Add("email_attachment", "extracted_data")>>
Down0017 == <<Drop("email_attachment", "extracted_data")>>

EnforceTenantRls_NoForce(t) == Append(Isolate(t), Grant(App, t, Dml))
\* _enforce_tenant_rls of 0018 and 0019.
EnforceTenantRls(t) == Append(IsolateAndForce(t), Grant(App, t, Dml))
Up0018_owner ==
  <<Add("users", "org_row"), Add("connector_connection", "owner_user_id"),
    Drop("connector_connection", "uq_connector_connection_identity"),
    Add("connector_connection", "uq_connector_connection_shared_identity"),
    Add("connector_connection", "uq_connector_connection_owned_identity"),
    Refer("connector_connection", "owner_user_id", "users", TRUE)>>
Up0018_entitlement ==
  <<CreateTable("connector_entitlement"),
    Refer("connector_entitlement", "org_id", "organizations", FALSE)>>
Up0018_policy ==
  <<CreateTable("connector_policy"), Refer("connector_policy", "org_id", "organizations", FALSE)>>
Up0018_override ==
  <<CreateTable("connector_policy_override"),
    Refer("connector_policy_override", "org_id", "organizations", FALSE),
    Refer("connector_policy_override", "user_id", "users", TRUE)>>
Up0018_consent ==
  <<CreateTable("connector_consent"),
    Refer("connector_consent", "org_id", "organizations", FALSE),
    Refer("connector_consent", "user_id", "users", TRUE)>>
Up0018 == Up0018_owner \o Up0018_entitlement \o Up0018_policy \o Up0018_override
            \o Up0018_consent \o ForEach(Tables0018, EnforceTenantRls)
Down0018 ==
  ForEach(Reverse(Tables0018), Unforce)
    \o <<DropTable("connector_consent"), DropTable("connector_policy_override"),
         DropTable("connector_policy"), DropTable("connector_entitlement"),
         Unrefer("connector_connection", "owner_user_id", TRUE),
         Drop("connector_connection", "uq_connector_connection_owned_identity"),
         Drop("connector_connection", "uq_connector_connection_shared_identity"),
         Add("connector_connection", "uq_connector_connection_identity"),
         Drop("connector_connection", "owner_user_id"), Drop("users", "org_row")>>

Up0019_reader ==
  <<CreateRole(Reader)>>
    \o ForEach(ReaderTables, LAMBDA t : <<Grant(Reader, t, {"SELECT"})>>)
    \o <<Grant(Reader, "audit_log", {"INSERT", "SELECT"})>>
Visibility0019 == <<"visibility_scope", "origin_scope", "container_id",
                    "ck_visibility_scope", "ck_origin_scope">>
Up0019_columns ==
  ForEach(ContentTables, LAMBDA t : ForEach(Visibility0019, LAMBDA c : <<Add(t, c)>>))
    \o ForEach(ContentTables, LAMBDA t : <<FillContainer(t)>>)
Up0019_acl_grant ==
  <<CreateTable("acl_grant"), Refer("acl_grant", "org_id", "organizations", FALSE),
    Refer("acl_grant", "person_id", "person", TRUE),
    Refer("acl_grant", "connection_id", "connector_connection", TRUE),
    Add("acl_grant", "uq_acl_grant_live")>>
Up0019_promotion ==
  <<CreateTable("visibility_promotion"),
    Refer("visibility_promotion", "org_id", "organizations", FALSE),
    Refer("visibility_promotion", "approved_by_user_id", "users", TRUE),
    Refer("visibility_promotion", "audit_log_id", "audit_log", FALSE)>>
Up0019_identity ==
  <<CreateTable("principal_source_identity"),
    Refer("principal_source_identity", "org_id", "organizations", FALSE),
    Refer("principal_source_identity", "person_id", "person", TRUE)>>
Up0019_provenance ==
  <<CreateTable("fact_provenance"), Refer("fact_provenance", "org_id", "organizations", FALSE)>>
Up0019_rights ==
  ForEach(Tables0019, LAMBDA t : EnforceTenantRls(t) \o <<Grant(Reader, t, {"SELECT"})>>)
    \o <<Revoke(App, "visibility_promotion", {"UPDATE", "DELETE"})>>
Up0019_policies == ForEach(ContentTables, LAMBDA t : <<CreatePolicy(t, "visibility")>>)
Up0019_triggers ==
  ForEach(ContentTables, LAMBDA t : <<Add(t, "origin_immutable"), Add(t, "lineage_guard")>>)
Up0019_append_only == <<Add("visibility_promotion", "no_update")>>
Up0019 == Up0019_reader \o Up0019_columns \o Up0019_acl_grant \o Up0019_promotion
            \o Up0019_identity \o Up0019_provenance \o Up0019_rights
            \o Up0019_policies \o Up0019_triggers \o Up0019_append_only
Down0019_content(t) == <<Drop(t, "lineage_guard"), Drop(t, "origin_immutable"),
                         DropPolicy(t, "visibility")>>
Down0019_reader ==
  ForEach(ReaderTables, LAMBDA t : <<Revoke(Reader, t, {"SELECT"})>>)
    \o <<Revoke(Reader, "audit_log", {"INSERT"})>>
Down0019 ==
  <<Drop("visibility_promotion", "no_update")>>
    \o ForEach(ContentTables, Down0019_content)
    \o ForEach(Reverse(Tables0019), LAMBDA t : <<DropTable(t)>>)
    \o ForEach(ContentTables, LAMBDA t : ForEach(Reverse(Visibility0019), LAMBDA c : <<Drop(t, c)>>))
    \o Down0019_reader

Upgrades == <<Up0001, Up0002, Up0003, Up0004, Up0005, Up0006, Up0007, Up0008, Up0009,
              Up0010, Up0011, Up0012, Up0013, Up0014, Up0015, Up0016, Up0017, Up0018,
              Up0019>>
Downgrades == <<Down0001, Down0002, Down0003, Down0004, Down0005, Down0006, Down0007,
                Down0008, Down0009, Down0010, Down0011, Down0012, Down0013, Down0014,
                Down0015, Down0016, Down0017, Down0018, Down0019>>

-----------------------------------------------------------------------------
(* alembic and the program's writes                                        *)

VARIABLES db,     \* the committed database
          run     \* the open command: its direction and the database it sees

vars == <<db, run>>

Init == /\ db \in {Empty(b) : b \in BOOLEAN}
        /\ run = None

\* `alembic upgrade head`, as the container starts with, or an `upgrade` or
\* `downgrade` to a revision the operator names: the target is not fixed
\* here, the command may be over at any revision it reaches.
Start(direction) ==
  /\ run = None
  /\ run' = [direction |-> direction, db |-> db]
  /\ UNCHANGED db

Upgraded(s)   == [Execute(s, Upgrades[s.rev + 1]) EXCEPT !.rev = @ + 1]
Downgraded(s) == [Execute(s, Downgrades[s.rev]) EXCEPT !.rev = @ - 1]

MigrateUp ==
  /\ run # None
  /\ run.direction = "up" /\ run.db.error = None /\ run.db.rev < HeadRevision
  /\ run' = [run EXCEPT !.db = Upgraded(@)]
  /\ UNCHANGED db
MigrateDown ==
  /\ run # None
  /\ run.direction = "down" /\ run.db.error = None /\ run.db.rev > 0
  /\ run' = [run EXCEPT !.db = Downgraded(@)]
  /\ UNCHANGED db

\* The whole command commits once, at its last revision ...
Commit ==
  /\ run # None
  /\ run.db.error = None
  /\ run.db.rev # db.rev
  /\ db' = run.db
  /\ run' = None

\* ... and a statement that raised, or a lost connection, undoes all of it.
RollBack ==
  /\ run # None
  /\ run' = None
  /\ UNCHANGED db

Write(rows) ==
  /\ run = None
  /\ rows # db.rows
  /\ db' = [db EXCEPT !.rows = rows]
  /\ UNCHANGED run

Has(t, member) == <<t, member>> \in db.members
GuardStands(s, b) ==
  \/ GuardOf[b] \in s.members
  \/ \E x \in s.fks : <<x.t, x.fk.col>> = GuardOf[b]

\* Rows the older revisions still took (the audit's M-6, H-2, the alias race).
BreachGuard(b) ==
  /\ GuardOf[b][1] \in db.tables
  /\ ~GuardStands(db, b)
  /\ Write([db.rows EXCEPT !.breaches = @ \union {b}])
CleanUp(b) == Write([db.rows EXCEPT !.breaches = @ \ {b}])

\* A connection to the address: shared, or from 0018 on owned by a user.
Connect(box, owner) ==
  /\ "connector_connection" \in db.tables
  /\ db.rows.boxes[box] = None
  /\ owner = Shared \/ Has("connector_connection", "owner_user_id")
  /\ IF Has("connector_connection", "uq_connector_connection_identity")
     THEN Connected(db.rows) = {}
     ELSE \A b \in Boxes : db.rows.boxes[b] # owner
  /\ Write([db.rows EXCEPT !.boxes[box] = owner])
Disconnect(box) == Write([db.rows EXCEPT !.boxes[box] = None])

\* The ingest stores a message, restricted and filed in its mailbox.
StoreMail ==
  /\ "email_message" \in db.tables
  /\ db.rows.mail = None
  /\ Write([db.rows EXCEPT !.mail =
       IF Has("email_message", "visibility_scope")
       THEN [scope |-> "restricted", container |-> TRUE, approved |-> FALSE]
       ELSE BareMail])
\* A promotion widens it and leaves its lineage row.
Promote ==
  /\ Has("email_message", "lineage_guard")
  /\ db.rows.mail # None
  /\ Write([db.rows EXCEPT !.mail.scope = "org", !.mail.approved = TRUE])

\* The ingest stores an attachment, with text or without; from 0015 on it
\* says how that went and which engine did it.
StoreAttachment(text) ==
  /\ "email_attachment" \in db.tables
  /\ db.rows.attachment = None
  /\ Write([db.rows EXCEPT !.attachment =
       IF Has("email_attachment", "extraction_status")
       THEN [text |-> text, status |-> IF text THEN "extracted" ELSE "unreadable",
             by |-> "engine"]
       ELSE [text |-> text, status |-> None, by |-> None]])

Next ==
  \/ \E direction \in {"up", "down"} : Start(direction)
  \/ MigrateUp \/ MigrateDown \/ Commit \/ RollBack
  \/ \E b \in Breaches : BreachGuard(b) \/ CleanUp(b)
  \/ \E box \in Boxes : Disconnect(box) \/ \E owner \in Owners \union {Shared} : Connect(box, owner)
  \/ StoreMail \/ Promote
  \/ \E text \in BOOLEAN : StoreAttachment(text)

Spec == Init /\ [][Next]_vars

-----------------------------------------------------------------------------
(* Properties                                                              *)

\* The committed database and the one the open command sees.
Databases == {db} \union (IF run = None THEN {} ELSE {run.db})
Sound == {s \in Databases : s.error = None}

\* The database has the shape of the model, and what is committed comes from
\* a command whose every statement succeeded.
TypeOK ==
  /\ \A s \in Databases :
       /\ s.rev \in 0 .. HeadRevision
       /\ s.roles \subseteq {App, Global, Reader} /\ s.auto \subseteq s.roles
       /\ s.enabled \union s.forced \subseteq s.tables
       /\ s.acl \subseteq s.roles \X s.tables \X Dml
       /\ s.rows.breaches \subseteq Breaches
       /\ s.rows.boxes \in [Boxes -> Owners \union {Shared, None}]
       /\ s.error \in {None, "exists", "missing", "depends", "rows"}
  /\ db.error = None

\* The schema a fresh database has at each revision.
Schema(s) == <<s.tables, s.members, s.fks, s.enabled, s.forced, s.policies, s.auto,
               {x \in s.acl : x[1] # Reader}>>
FreshChain == FoldLeft(LAMBDA chain, n : Append(chain, Upgraded(chain[n])),
                       <<Empty(TRUE)>>, [n \in 1 .. HeadRevision |-> n])
Fresh(rev) == FreshChain[rev + 1]

\* Whatever sequence of upgrades and downgrades led to a revision, the tables,
\* columns, constraints, policies and the rights of the app and global roles
\* are those of a fresh database at it ("Exact 0013 restoration"); and a command
\* fails only on rows that a guard refuses: no revision drops what something
\* still depends on, creates what is there or drops what is not.
DowngradesRestore ==
  /\ \A s \in Sound : Schema(s) = Schema(Fresh(s.rev))
  /\ \A s \in Databases : s.error \in {None, "rows"}

\* From 0013 on a runtime role without BYPASSRLS reaches only tables whose rows
\* are confined to the session's organization, appends to the logs and
\* nothing more, and the reader writes nowhere but the audit log.
Confined(s, t) == t \in s.enabled /\ t \in s.forced /\ <<t, "org_isolation">> \in s.policies
RolesAreConfined ==
  \A s \in Sound : s.rev >= 13 =>
    /\ \A x \in s.acl : x[1] # Global => Confined(s, x[2])
    /\ \A x \in s.acl : x[1] # Global /\ x[2] \in {"audit_log", "visibility_promotion"} =>
         x[3] \in {"SELECT", "INSERT"}
    /\ \A x \in s.acl : x[1] = Reader =>
         x[3] = "SELECT" \/ (x[2] = "audit_log" /\ x[3] = "INSERT")

\* A guard that stands holds for the rows written before it too, and no
\* two connections to the address have the same owner at any revision.
GuardsHoldForOldRows ==
  \A s \in Sound :
    /\ \A b \in s.rows.breaches : ~GuardStands(s, b)
    /\ \A b, c \in Connected(s.rows) : s.rows.boxes[b] = s.rows.boxes[c] => b = c

\* From 0015 on an attachment with text is not in the backfill's queue, also
\* for a migration role that row security applies to.
QueueIsExact ==
  \A s \in Sound :
    s.rev >= 15 /\ s.rows.attachment # None =>
      (s.rows.attachment.status = "pending" => ~s.rows.attachment.text)

\* No sequence of migrations makes a message visible to its organization: it
\* is so only with the promotion that approved it, of this generation.
NoMigrationWidens ==
  \A s \in Sound : s.rows.mail # None =>
    (s.rows.mail.scope = "org" => s.rows.mail.approved)

=============================================================================
