------------------------ MODULE ConnectorGovernance ------------------------
(***************************************************************************)
(* Who may connect, test, synchronise and remove a mailbox of one company: *)
(* the plan ceiling (Tier 1), the company policy and its per-user          *)
(* overrides (Tier 2), the self-service plane with its consents (Tier 3)   *)
(* and the admin plane of the shared mailboxes.  There is one connector    *)
(* type (imap), as in the code's CHECK constraints.                        *)
(*                                                                         *)
(* A request reads on its own transaction and commits later: every         *)
(* operation that decides on what it read is a Read action followed by a   *)
(* committing action, and the requests in Req interleave between the two.  *)
(***************************************************************************)
EXTENDS Naturals, FiniteSets

CONSTANTS User,     \* the company's users
          Mailbox,  \* account names a connection can log in with
          MaxConn,  \* how many connections are ever created
          Req,      \* request slots
          Shared    \* the owner of an org-owned row (owner_user_id IS NULL)

ASSUME GovernanceAssumption ==
    /\ Shared \notin User
    /\ MaxConn \in Nat \ {0}

Owner == User \cup {Shared}
Conn  == 1..MaxConn   \* connection ids, given out in order and used once

VARIABLES entitled,  \* connector_entitlement: an enabled row exists
          orgWide,   \* connector_policy: an enabled row exists
          override,  \* connector_policy_override per user
          conn,      \* connector_connection rows by id
          consent,   \* per user, whether a consent is in force
          req,       \* requests between their read and their commit
          audit,     \* actions of the audit rows the last commit wrote
          raced      \* users two of whose connect/disconnect requests overlapped

vars == <<entitled, orgWide, override, conn, consent, req, audit, raced>>

----------------------------------------------------------------------------
(* Rows and requests.                                                      *)

Entitlement  == BOOLEAN   \* enabled; a missing row entitles to nothing
Policy       == BOOLEAN   \* org_wide_enabled; off when there is no row
OverrideType == {"none", "grant", "deny"}
Consent      == BOOLEAN   \* a row with withdrawn_at NULL; the others are proof

Connection == [exists : BOOLEAN, used : BOOLEAN, owner : Owner, box : Mailbox,
               status : {"configured", "connected", "error"},
               disabled : BOOLEAN]

Request == [op : {"idle", "create", "disconnect", "delete", "disable",
                  "enable", "test", "sync", "orgWide", "override"},
            owner : Owner, conn : Conn, box : Mailbox,
            status : {"configured", "connected", "error"},
            last : BOOLEAN, overtaken : BOOLEAN]

AnyBox == CHOOSE m \in Mailbox : TRUE

Idle == [op |-> "idle", owner |-> Shared, conn |-> 1, box |-> AnyBox,
         status |-> "configured", last |-> FALSE,
         overtaken |-> FALSE]

NoRow == [exists |-> FALSE, used |-> FALSE, owner |-> Shared, box |-> AnyBox,
          status |-> "configured", disabled |-> FALSE]

TypeOK ==
    /\ entitled \in Entitlement
    /\ orgWide \in Policy
    /\ override \in [User -> OverrideType]
    /\ conn \in [Conn -> Connection]
    /\ consent \in [User -> Consent]
    /\ req \in [Req -> Request]
    /\ raced \subseteq User

Init ==
    /\ entitled = FALSE
    /\ orgWide = FALSE
    /\ override = [u \in User |-> "none"]
    /\ conn = [c \in Conn |-> NoRow]
    /\ consent = [u \in User |-> FALSE]
    /\ req = [r \in Req |-> Idle]
    /\ audit = {}
    /\ raced = {}

----------------------------------------------------------------------------
(* The permission rule and its inputs.                                     *)

\* resolve_connector_access with the org-wide policy asked before the override.
ResolvePolicyFirst(ent, ovr, wide) ==
    IF ~ent THEN "not_entitled" ELSE IF wide \/ ovr = "grant" THEN "allowed"
    ELSE IF ovr = "deny" THEN "admin_denied" ELSE "org_disabled"

\* The ceiling, then the override, then the company-wide policy.
Resolve(ent, ovr, wide) ==
    CASE ~ent                            -> "not_entitled"
      [] ent /\ ovr = "deny"             -> "admin_denied"
      [] ent /\ ovr = "grant"            -> "allowed"
      [] ent /\ ovr = "none" /\ wide     -> "allowed"
      [] OTHER                           -> "org_disabled"

\* An enabled entitlement row exists; the ceiling asked before anything else.
IsEntitled == entitled
IsOrgWideEnabled == orgWide
GetOverrideType(u) == override[u]

Access(u) == Resolve(IsEntitled, GetOverrideType(u), IsOrgWideEnabled)

\* A gate that lets everyone pass.
RequireNothing(u) == TRUE

\* The gate of every use of a connection by its owner.
RequireCurrentAccess(u) == Access(u) = "allowed"

GetSharedInOrg(c) == conn[c].exists /\ conn[c].owner = Shared
GetForOwner(c, u) == conn[c].exists /\ conn[c].owner = u

\* Scope by plane: a shared row for an admin, the caller's own row for a user.
LoadScoped(c, o) == IF o = Shared THEN GetSharedInOrg(c) ELSE GetForOwner(c, o)

ListForOwner(u) == {c \in Conn : GetForOwner(c, u)}

Exists(m) == \E c \in Conn : GetSharedInOrg(c) /\ conn[c].box = m
ExistsForOwner(u, m) == \E c \in ListForOwner(u) : conn[c].box = m

Duplicate(o, m) == IF o = Shared THEN Exists(m) ELSE ExistsForOwner(o, m)

----------------------------------------------------------------------------
(* Requests begin and end.                                                 *)

Busy(u) == {r \in Req : req[r].op \in {"create", "disconnect"} /\ req[r].owner = u}

Begin(r, op, o, c, m, s, last) ==
    /\ req[r] = Idle
    /\ req' = [req EXCEPT ![r] = [op |-> op, owner |-> o, conn |-> c,
                  box |-> m, status |-> s, last |-> last,
                  overtaken |-> FALSE]]
    /\ raced' = IF /\ op \in {"create", "disconnect"}
                   /\ o \in User /\ Busy(o) # {}
                THEN raced \cup {o} ELSE raced
    /\ audit' = {}
    /\ UNCHANGED <<entitled, orgWide, override, conn, consent>>

\* Begin on a loaded connection.
BeginOn(r, op, o, c, last) ==
    Begin(r, op, o, c, AnyBox, "configured", last)

Finish(r) == req' = [req EXCEPT ![r] = Idle]

\* A request that fails before or at its commit leaves no trace.
RollBack(r) ==
    /\ Finish(r)
    /\ audit' = {}
    /\ UNCHANGED <<entitled, orgWide, override, conn, consent, raced>>

\* Commit of a request that only touches one connection row.
CommitRow(r, c, row, actions) ==
    /\ conn' = [conn EXCEPT ![c] = row]
    /\ audit' = actions
    /\ Finish(r)
    /\ UNCHANGED <<entitled, orgWide, override, consent, raced>>

----------------------------------------------------------------------------
(* Connecting a mailbox: ConnectorService.create_connection on the admin   *)
(* plane, MeConnectorService.self_connect on the user's.                   *)

CreateConnection(r, o, m) ==
    /\ IsEntitled
    /\ ~Duplicate(o, m)
    /\ Begin(r, "create", o, 1, m, "configured", FALSE)

SelfConnect(r, u, m, accepted) ==
    /\ RequireCurrentAccess(u)
    /\ accepted
    /\ CreateConnection(r, u, m)

\* The partial unique indexes over shared and over user-owned rows.
UniqueIdentity(o, m) == ~Duplicate(o, m)

\* The id stays used; the row and what was ingested through it are gone.
GoneRow == [NoRow EXCEPT !.used = TRUE]

NewRow(o, m) == [exists |-> TRUE, used |-> TRUE, owner |-> o, box |-> m,
                 status |-> "configured", disabled |-> FALSE]

\* The consent a self-connect brings into force; a shared row has none.
RecordConsent(o) == consent' = [u \in User |-> u = o \/ consent[u]]

\* The commit of a create: the row, the user's consent and both audit rows.
InsertConnection(r, c) ==
    LET o == req[r].owner IN
    /\ req[r].op = "create"
    /\ ~conn[c].used
    /\ \A d \in 1..(c - 1) : conn[d].used
    /\ UniqueIdentity(o, req[r].box)
    /\ conn' = [conn EXCEPT ![c] = NewRow(o, req[r].box)]
    /\ RecordConsent(o)
    /\ audit' = IF o = Shared THEN {"connector.created"}
                ELSE {"connector.connected", "connector.consented"}
    /\ Finish(r)
    /\ UNCHANGED <<entitled, orgWide, override, raced>>

\* The insert loses the race on the unique index: 409.
InsertDuplicate(r) ==
    /\ req[r].op = "create"
    /\ ~UniqueIdentity(req[r].owner, req[r].box)
    /\ RollBack(r)

----------------------------------------------------------------------------
(* Removing one.                                                           *)

\* A user's own: whether it is the last one is decided on what is listed now.
CountsItself(u, c) == ListForOwner(u) = {}
LastOfType(u, c) == ListForOwner(u) \ {c} = {}

DisconnectRead(r, u, c) ==
    /\ LoadScoped(c, u)
    /\ BeginOn(r, "disconnect", u, c, LastOfType(u, c))

WithdrawActive(u) == [consent EXCEPT ![u] = FALSE]

\* Withdrawing is audited only when a consent was in force.
Withdraw(u) == IF consent[u] THEN {"connector.consent_withdrawn"} ELSE {}

DisconnectWrite(r) ==
    LET u == req[r].owner IN
    /\ req[r].op = "disconnect"
    /\ conn' = [conn EXCEPT ![req[r].conn] = GoneRow]
    /\ consent' = IF req[r].last THEN WithdrawActive(u) ELSE consent
    /\ audit' = {"connector.disconnected"} \cup
                (IF req[r].last THEN Withdraw(u) ELSE {})
    /\ Finish(r)
    /\ UNCHANGED <<entitled, orgWide, override, raced>>

\* A shared one, by an admin.
DeleteRead(r, c) ==
    /\ LoadScoped(c, Shared)
    /\ BeginOn(r, "delete", Shared, c, FALSE)

DeleteWrite(r) ==
    /\ req[r].op = "delete"
    /\ CommitRow(r, req[r].conn, GoneRow, {"connector.deleted"})

----------------------------------------------------------------------------
(* Disabling and enabling a shared connection.  A request that finds the   *)
(* row already so returns it unchanged; a row deleted since the read makes *)
(* the flush fail.                                                         *)

DisableRead(r, c) ==
    /\ LoadScoped(c, Shared)
    /\ ~conn[c].disabled
    /\ BeginOn(r, "disable", Shared, c, FALSE)

EnableRead(r, c) ==
    /\ LoadScoped(c, Shared)
    /\ conn[c].disabled
    /\ BeginOn(r, "enable", Shared, c, FALSE)

SetDisabled(r, op, on, action) ==
    LET c == req[r].conn IN
    /\ req[r].op = op
    /\ \/ /\ conn[c].exists
          /\ CommitRow(r, c, [conn[c] EXCEPT !.disabled = on], {action})
       \/ ~conn[c].exists /\ RollBack(r)

\* A disable that forgets its audit row.
DisableSilently(r) == SetDisabled(r, "disable", TRUE, "none")

Disable(r) == SetDisabled(r, "disable", TRUE, "connector.disabled")
Enable(r)  == SetDisabled(r, "enable", FALSE, "connector.enabled")

----------------------------------------------------------------------------
(* Testing a connection: the read transaction is committed, the network is *)
(* awaited, and the outcome is written to whatever the row is by then.     *)

TestConnection(r, o, c) ==
    /\ LoadScoped(c, o)
    /\ IsEntitled
    /\ Begin(r, "test", o, c, AnyBox, conn[c].status, FALSE)

TestMyConnection(r, u, c) ==
    /\ RequireCurrentAccess(u)
    /\ TestConnection(r, u, c)

\* The ORM emits only the columns whose new value differs from the loaded one.
Flush(loaded, new, stored) == IF new = loaded THEN stored ELSE new

Outcome(ok) == IF ok THEN "connected" ELSE "error"

\* A test that put the connection it reached back into service.
TestEnables(r, ok) ==
    [conn[req[r].conn] EXCEPT !.status = Outcome(ok), !.disabled = FALSE]

TestedRow(r, ok) ==
    LET row == conn[req[r].conn]
    IN [row EXCEPT !.status = Flush(req[r].status, Outcome(ok), row.status)]

TestWrite(r, ok) ==
    LET c == req[r].conn IN
    /\ req[r].op = "test"
    /\ \/ conn[c].exists /\ CommitRow(r, c, TestedRow(r, ok), {})
       \/ ~conn[c].exists /\ RollBack(r)

----------------------------------------------------------------------------
(* Starting a sync: the gates are read first, the claim is one conditional *)
(* UPDATE on what the row is by then.  The run itself, and whether another *)
(* run holds the claim, are the subject of ConnectorSync: here the claim   *)
(* may fail for that reason at any time.                                   *)

SyncConnection(r, o, c) ==
    /\ LoadScoped(c, o)
    /\ IsEntitled
    /\ ~conn[c].disabled
    /\ BeginOn(r, "sync", o, c, FALSE)

SyncMyConnection(r, u, c) ==
    /\ RequireCurrentAccess(u)
    /\ SyncConnection(r, u, c)

ClaimableDisabled(c) == conn[c].exists
Claimable(c) == conn[c].exists /\ ~conn[c].disabled

StartSync(r) ==
    /\ req[r].op = "sync"
    /\ Claimable(req[r].conn)
    /\ CommitRow(r, req[r].conn, conn[req[r].conn], {"sync.started"})

ClaimFails(r) ==
    /\ req[r].op = "sync"
    /\ RollBack(r)

----------------------------------------------------------------------------
(* Governance: the plan, the company-wide policy and the overrides.  A     *)
(* change overtakes the requests of the users it denies.                   *)

\* Requests in flight whose owner the new settings deny.
Overtake(ent, ovr, wide) ==
    req' = [r \in Req |->
              IF req[r].owner \in User /\ req[r].op # "idle"
                 /\ Resolve(ent, ovr[req[r].owner], wide) # "allowed"
              THEN [req[r] EXCEPT !.overtaken = TRUE] ELSE req[r]]

UpsertEntitlement(on) == entitled' = on
UpsertPolicy(on) == orgWide' = on
UpsertOverride(u, o) == override' = [override EXCEPT ![u] = o]
DeleteOverride(u) == override' = [override EXCEPT ![u] = "none"]

SetEntitlement(on) ==
    /\ UpsertEntitlement(on)
    /\ audit' = {IF on THEN "entitlement.granted" ELSE "entitlement.revoked"}
    /\ Overtake(on, override, orgWide)
    /\ UNCHANGED <<orgWide, override, conn, consent, raced>>

RecordPolicyChange == audit' = {"connector.policy_changed"}

\* Only enabling asks for the plan.
SetOrgWide(on) ==
    /\ on => IsEntitled
    /\ UpsertPolicy(on)
    /\ RecordPolicyChange
    /\ Overtake(entitled, override, on)
    /\ UNCHANGED <<entitled, override, conn, consent, raced>>

\* Only granting asks for the plan.
SetOverride(u, o) ==
    /\ o = "grant" => IsEntitled
    /\ UpsertOverride(u, o)
    /\ RecordPolicyChange
    /\ Overtake(entitled, override', orgWide)
    /\ UNCHANGED <<entitled, orgWide, conn, consent, raced>>

ClearOverride(u) ==
    /\ DeleteOverride(u)
    /\ RecordPolicyChange
    /\ Overtake(entitled, override', orgWide)
    /\ UNCHANGED <<entitled, orgWide, conn, consent, raced>>

----------------------------------------------------------------------------
(* The routers: which handler each plane offers.                           *)

PlatformRoutes == \E on \in BOOLEAN : SetEntitlement(on)

GovernanceRoutes ==
    \/ \E on \in BOOLEAN : SetOrgWide(on)
    \/ \E u \in User : SetOverride(u, "grant") \/ SetOverride(u, "deny")
    \/ \E u \in User : ClearOverride(u)

AdminRoutes(r) ==
    \/ \E m \in Mailbox : CreateConnection(r, Shared, m)
    \/ \E c \in Conn : \/ DeleteRead(r, c)
                       \/ DisableRead(r, c)
                       \/ EnableRead(r, c)
                       \/ TestConnection(r, Shared, c)
                       \/ SyncConnection(r, Shared, c)

MeRoutes(r) ==
    \E u \in User :
       \/ \E m \in Mailbox, accepted \in BOOLEAN : SelfConnect(r, u, m, accepted)
       \/ \E c \in Conn : \/ DisconnectRead(r, u, c)
                          \/ TestMyConnection(r, u, c)
                          \/ SyncMyConnection(r, u, c)

Commit(r) ==
    \/ \E c \in Conn : InsertConnection(r, c)
    \/ InsertDuplicate(r)
    \/ DisconnectWrite(r)
    \/ DeleteWrite(r)
    \/ Disable(r)
    \/ Enable(r)
    \/ \E ok \in BOOLEAN : TestWrite(r, ok)
    \/ StartSync(r)
    \/ ClaimFails(r)

Next ==
    \/ PlatformRoutes
    \/ GovernanceRoutes
    \/ \E r \in Req : AdminRoutes(r) \/ MeRoutes(r) \/ Commit(r)

Spec == Init /\ [][Next]_vars

----------------------------------------------------------------------------
(* Properties.                                                             *)

\* As long as a user never had two connect or disconnect requests in flight
\* at once, a consent is in force exactly while the user has a mailbox: every
\* mailbox has its lawful basis, and none outlives the last one, whatever the
\* admins and the platform do in between (disconnect_my_connection withdraws
\* only with the last connection).
ConsentFollowsMailboxes ==
    \A u \in User \ raced : consent[u] <=> ListForOwner(u) # {}

\* A test that comes back late writes its outcome and nothing else: it neither
\* lifts a disable nor brings a deleted connection back, and a claim that
\* comes late does not start a sync on a disabled connection.
LateWritesRespectAdmin ==
    [][\A c \in Conn, r \in Req :
          (req[r].op \in {"test", "sync"} /\ req'[r] = Idle /\ req[r].conn = c)
             => /\ conn'[c].disabled = conn[c].disabled
                /\ conn'[c].exists = conn[c].exists
                /\ "sync.started" \in audit' => conn[c].exists /\ ~conn[c].disabled]_vars

\* Whoever loses access (plan, override or policy) gets at most the requests
\* already past their check: a mailbox is connected, or a sync started, only
\* while its user is allowed or by a request the change overtook.
UseIsAllowed ==
    [][\A r \in Req :
          (/\ req[r].owner \in User /\ req[r] # Idle /\ req'[r] = Idle
           /\ audit' \cap {"connector.connected", "sync.started"} # {})
             => Access(req[r].owner) = "allowed" \/ req[r].overtaken]_vars

\* No lifecycle change goes unrecorded: a row that appears, disappears or is
\* disabled or enabled, and a consent that comes into or out of force, has its
\* audit row in the same commit, also when two requests made the change.
LifecycleIsAudited ==
    [][/\ \A c \in Conn :
            /\ conn'[c].exists /\ ~conn[c].exists =>
                 "connector.created" \in audit' \/ "connector.connected" \in audit'
            /\ ~conn'[c].exists /\ conn[c].exists =>
                 "connector.deleted" \in audit' \/ "connector.disconnected" \in audit'
            /\ conn'[c].exists /\ conn'[c].disabled # conn[c].disabled =>
                 "connector.disabled" \in audit' \/ "connector.enabled" \in audit'
       /\ \A u \in User :
            /\ ~consent[u] /\ consent'[u] => "connector.consented" \in audit'
            /\ consent[u] /\ ~consent'[u] => "connector.consent_withdrawn" \in audit']_vars

============================================================================
