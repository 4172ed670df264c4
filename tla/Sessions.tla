------------------------------- MODULE Sessions -------------------------------
(***************************************************************************)
(* Sessions of company users and platform admins: AuthService,             *)
(* PlatformAuthService, TokenIssuer, TokenRotator, the refresh_tokens      *)
(* table, the in-process TokenDenylist and the check every request makes   *)
(* of its access token.  Deactivating a user, changing a role and          *)
(* suspending the organization enter where they meet the sessions.         *)
(*                                                                         *)
(* A request runs on one worker process and is one transaction: its        *)
(* statements interleave with those of the others and its writes appear    *)
(* at the commit.  The denylist lives in the worker's memory and is        *)
(* written at once.  Time is in seconds, as iat, exp and the cutoffs are.  *)
(***************************************************************************)
EXTENDS Integers, FiniteSets

CONSTANTS
    CompanyUsers,   \* users of one organization (aud = company)
    PlatformAdmins, \* platform administrators (aud = platform), no organization
    Org,            \* the organization, as a key of the denylist
    Workers,        \* server processes, each with its own denylist
    Requests,       \* requests that may be in flight at once
    Rows,           \* ids of refresh-token rows (bounds the logins and rotations)
    None,           \* no worker, row or subject
    AccessTTL,      \* access_token_ttl_minutes, in ticks
    RefreshTTL,     \* refresh_token_ttl_days, in ticks
    MaxTime,        \* bound on the clock
    MaxChanges,     \* bound on the changes of accounts and of the organization
    MaxRestarts     \* bound on worker restarts

Subjects == CompanyUsers \cup PlatformAdmins

ASSUME SessionsAssumption ==
    /\ AccessTTL \in Nat \ {0} /\ RefreshTTL \in Nat \ {0} /\ MaxTime \in Nat
    /\ MaxChanges \in Nat /\ MaxRestarts \in Nat
    /\ Org \notin Subjects /\ CompanyUsers \cap PlatformAdmins = {}
    /\ None \notin Requests \cup Workers \cup Rows \cup Subjects

VARIABLES
    now,        \* the clock
    account,    \* committed users and platform_admins rows: role and is_active
    orgStatus,  \* the committed organizations.status
    refresh,    \* committed refresh_tokens rows
    access,     \* every access token encoded so far (clients keep them)
    cutoff,     \* the denylist of every worker
    req,        \* the local state of every request
    killed,     \* tokens a revocation on each worker covered since it started
    changes,    \* account and organization changes so far
    restarts    \* worker restarts so far

vars == <<now, account, orgStatus, refresh, access, cutoff, req, killed, changes, restarts>>
bounds == <<changes, restarts>>

-----------------------------------------------------------------------------
(* Rows, tokens and requests *)

Roles == {"company_admin", "member", "platform_admin"}

Account == [role: Roles, active: BOOLEAN]

Statuses == {"active", "suspended"}

\* A refresh_tokens row.  parent is the row whose rotation issued it, ended
\* tells why it was revoked (ghosts of the model); holder is the request that
\* has an uncommitted write on it.
RefreshRow == [state: {"unused", "valid", "revoked"},
               subject: Subjects \cup {None}, expires: Nat,
               parent: Rows \cup {None}, holder: Requests \cup {None},
               ended: {"no", "rotated", "logout"}]

AccessToken == [sub: Subjects, role: Roles, iat: Nat]

Request == [op: {"none", "login", "refresh", "logout", "account", "org"},
            pc: {"idle", "lookup", "consumed", "credentials", "issue", "commit"},
            worker: Workers \cup {None},
            sub: Subjects \cup {None}, role: Roles,
            row: Rows \cup {None},     \* the presented refresh token
            new: Rows \cup {None},     \* the row the pair's refresh token gets
            active: BOOLEAN,           \* account changes: the value to write
            status: Statuses \cup {"keep"}] \* organization changes: the same

Idle == [op |-> "none", pc |-> "idle", worker |-> None, sub |-> None,
         role |-> "member", row |-> None, new |-> None, active |-> TRUE,
         status |-> "keep"]

UnusedRow == [state |-> "unused", subject |-> None, expires |-> 0,
              parent |-> None, holder |-> None, ended |-> "no"]

-----------------------------------------------------------------------------
(* The denylist and the check of an access token *)

Never == -1

\* InProcessTokenDenylist: one dict for subjects, one for organizations.
Keys == Subjects \cup {Org}

SameDict(k) == IF k = Org THEN {Org} ELSE Subjects

\* Mutant of Revoke: every older cutoff is evicted.
RevokeEvictsAll(list, k) ==
    [j \in Keys |->
        IF j = k THEN now
        ELSE IF j \in SameDict(k) /\ list[j] < now THEN Never
        ELSE list[j]]

\* revoke_subject, revoke_org: evict from that dict the cutoffs older than
\* the access TTL, then set this key's cutoff to now.
Revoke(list, k) ==
    [j \in Keys |->
        IF j = k THEN now
        ELSE IF j \in SameDict(k) /\ list[j] < now - AccessTTL THEN Never
        ELSE list[j]]

\* is_revoked: iat at or before the cutoff of the subject or, for a token
\* that has one, of the organization.
IsRevoked(tok, list) ==
    \/ tok.iat <= list[tok.sub]
    \/ tok.sub \in CompanyUsers /\ tok.iat <= list[Org]

\* exp = iat + TTL, and the JWT library rejects a token whose exp has come.
IsExpired(tok) == tok.iat + AccessTTL <= now

\* get_current_principal, get_current_platform_admin.
Accepted(tok, w) == ~IsExpired(tok) /\ ~IsRevoked(tok, cutoff[w])

\* The tokens one revocation covers: all of the subject's, or of the org's.
Covered(k) == {tok \in access : IF k = Org THEN tok.sub \in CompanyUsers ELSE tok.sub = k}

RevokeOn(w, k) ==
    /\ cutoff' = [cutoff EXCEPT ![w] = Revoke(cutoff[w], k)]
    /\ killed' = [killed EXCEPT ![w] = killed[w] \cup Covered(k)]

-----------------------------------------------------------------------------
(* Requests *)

\* Rolling back undoes the uncommitted insert or revocation of a row.
RolledBack(r) ==
    [t \in Rows |->
        IF refresh[t].holder # r THEN refresh[t]
        ELSE IF refresh[t].state = "unused" THEN UnusedRow
        ELSE [refresh[t] EXCEPT !.holder = None]]

\* login: throttle, lookup by email and the awaited bcrypt check, of the row
\* as it was read.  A failed check changes no row and ends the request.
LoginCredentials(r, w, s) ==
    /\ req[r].pc = "idle"
    /\ account[s].active
    /\ req' = [req EXCEPT ![r] = [Idle EXCEPT
                 !.op = "login", !.pc = "credentials", !.worker = w,
                 !.sub = s, !.role = account[s].role]]
    /\ UNCHANGED <<now, account, orgStatus, refresh, access, cutoff, killed, bounds>>

\* TokenRotator.consume, the lookup: a row of the caller's own domain that
\* has not expired.  Both services use the rotator, so the caller's domain is
\* the one of the subject or the request ends here.
RefreshLookup(r, w, t) ==
    /\ req[r].pc = "idle"
    /\ refresh[t].state # "unused"
    /\ refresh[t].expires > now
    /\ req' = [req EXCEPT ![r] = [Idle EXCEPT
                 !.op = "refresh", !.pc = "lookup", !.worker = w,
                 !.sub = refresh[t].subject, !.row = t]]
    /\ UNCHANGED <<now, account, orgStatus, refresh, access, cutoff, killed, bounds>>

\* Mutant of RefreshConsume: the UPDATE lost its revoked_at IS NULL.
RefreshConsumeAny(r) ==
    /\ req[r].op = "refresh" /\ req[r].pc = "lookup"
    /\ refresh[req[r].row].holder = None
    /\ refresh' = [refresh EXCEPT ![req[r].row].holder = r]
    /\ req' = [req EXCEPT ![r].pc = "consumed"]
    /\ UNCHANGED <<now, account, orgStatus, access, cutoff, killed, bounds>>

\* consume, UPDATE ... WHERE revoked_at IS NULL: waits for a writer of the
\* row, then touches it only if it is still not revoked.
RefreshConsume(r) ==
    /\ req[r].op = "refresh" /\ req[r].pc = "lookup"
    /\ refresh[req[r].row].holder = None
    /\ refresh[req[r].row].state = "valid"
    /\ refresh' = [refresh EXCEPT ![req[r].row].holder = r]
    /\ req' = [req EXCEPT ![r].pc = "consumed"]
    /\ UNCHANGED <<now, account, orgStatus, access, cutoff, killed, bounds>>

\* RefreshTokenInvalidError: the row was revoked, or the race was lost.
RefreshReused(r) ==
    /\ req[r].op = "refresh" /\ req[r].pc = "lookup"
    /\ refresh[req[r].row].holder = None
    /\ refresh[req[r].row].state = "revoked"
    /\ req' = [req EXCEPT ![r] = Idle]
    /\ UNCHANGED <<now, account, orgStatus, refresh, access, cutoff, killed, bounds>>

\* refresh: the user or admin is read; a deactivated one is a 401 and the
\* consumption is rolled back.
RefreshAccount(r) ==
    /\ req[r].pc = "consumed"
    /\ account[req[r].sub].active
    /\ req' = [req EXCEPT ![r].pc = "credentials",
                          ![r].role = account[req[r].sub].role]
    /\ UNCHANGED <<now, account, orgStatus, refresh, access, cutoff, killed, bounds>>

\* _load_loginable_org: only a suspended organization is turned away;
\* PlatformAuthService has no such step.
CheckOrg(r) ==
    /\ req[r].pc = "credentials"
    /\ req[r].sub \in PlatformAdmins \/ orgStatus # "suspended"
    /\ req' = [req EXCEPT ![r].pc = "issue"]
    /\ UNCHANGED <<now, account, orgStatus, refresh, access, cutoff, killed, bounds>>

\* A request that is turned away, or dies, at any point rolls back: a
\* deactivated account, a suspended organization, a failed statement.
Fail(r) ==
    /\ req[r].pc # "idle"
    /\ req' = [req EXCEPT ![r] = Idle]
    /\ refresh' = RolledBack(r)
    /\ UNCHANGED <<now, account, orgStatus, access, cutoff, killed, bounds>>

\* TokenIssuer.issue_pair: the access token is encoded with iat = now and the
\* role that was read; the hash of the refresh token is staged.
IssuePair(r, t) ==
    /\ req[r].pc = "issue"
    /\ refresh[t].state = "unused" /\ refresh[t].holder = None
    /\ access' = access \cup {[sub |-> req[r].sub, role |-> req[r].role, iat |-> now]}
    /\ refresh' = [refresh EXCEPT ![t].holder = r, ![t].expires = now + RefreshTTL]
    /\ req' = [req EXCEPT ![r].pc = "commit", ![r].new = t]
    /\ UNCHANGED <<now, account, orgStatus, cutoff, killed, bounds>>

\* The unit of work commits: the new row appears and the old one is revoked.
CommitPair(r) ==
    /\ req[r].op \in {"login", "refresh"} /\ req[r].pc = "commit"
    /\ refresh' =
         [t \in Rows |->
            IF t = req[r].new
            THEN [refresh[t] EXCEPT !.state = "valid", !.subject = req[r].sub,
                                    !.parent = req[r].row, !.holder = None]
            ELSE IF t = req[r].row
            THEN [refresh[t] EXCEPT !.state = "revoked", !.ended = "rotated",
                                    !.holder = None]
            ELSE refresh[t]]
    /\ req' = [req EXCEPT ![r] = Idle]
    /\ UNCHANGED <<now, account, orgStatus, access, cutoff, killed, bounds>>

\* logout: revoke_by_hash (a no-op on a revoked row), then revoke_subject.
Logout(r, w, t) ==
    /\ req[r].pc = "idle"
    /\ refresh[t].state # "unused"
    /\ refresh[t].holder = None
    /\ refresh' = IF refresh[t].state = "valid"
                  THEN [refresh EXCEPT ![t].holder = r] ELSE refresh
    /\ req' = [req EXCEPT ![r] = [Idle EXCEPT
                 !.op = "logout", !.pc = "commit", !.worker = w,
                 !.row = IF refresh[t].state = "valid" THEN t ELSE None]]
    /\ RevokeOn(w, refresh[t].subject)
    /\ UNCHANGED <<now, account, orgStatus, access, bounds>>

CommitLogout(r) ==
    /\ req[r].op = "logout" /\ req[r].pc = "commit"
    /\ refresh' = [t \in Rows |->
                     IF t = req[r].row
                     THEN [refresh[t] EXCEPT !.state = "revoked", !.ended = "logout",
                                             !.holder = None]
                     ELSE refresh[t]]
    /\ req' = [req EXCEPT ![r] = Idle]
    /\ UNCHANGED <<now, account, orgStatus, access, cutoff, killed, bounds>>

-----------------------------------------------------------------------------
(* Where user management and the organization's lifecycle meet sessions *)

\* update_user, deactivate_user: the flush takes the row lock, so one change
\* of an account is under way at a time; the denylist is written before the
\* commit when the role changes or the account goes inactive, and whenever an
\* account is deactivated through deactivate_user, inactive before or not.
ChangeAccount(r, w, u, role, active) ==
    /\ req[r].pc = "idle"
    /\ \A q \in Requests : ~(req[q].op = "account" /\ req[q].sub = u)
    /\ req' = [req EXCEPT ![r] = [Idle EXCEPT
                 !.op = "account", !.pc = "commit", !.worker = w,
                 !.sub = u, !.role = role, !.active = active]]
    /\ \/ /\ role # account[u].role \/ ~active
          /\ RevokeOn(w, u)
       \/ /\ role = account[u].role
          /\ active \/ ~account[u].active
          /\ UNCHANGED <<cutoff, killed>>
    /\ changes < MaxChanges /\ changes' = changes + 1
    /\ UNCHANGED <<now, account, orgStatus, refresh, access, restarts>>

CommitAccount(r) ==
    /\ req[r].op = "account" /\ req[r].pc = "commit"
    /\ account' = [account EXCEPT ![req[r].sub] =
                     [role |-> req[r].role, active |-> req[r].active]]
    /\ req' = [req EXCEPT ![r] = Idle]
    /\ UNCHANGED <<now, orgStatus, refresh, access, cutoff, killed, bounds>>

\* PlatformOrgService.set_status: suspending revokes the organization's
\* tokens before the change is flushed and committed.  The ORM writes the
\* status only if it differs from the one that was loaded.
SetStatus(r, w, status) ==
    /\ req[r].pc = "idle"
    /\ req' = [req EXCEPT ![r] = [Idle EXCEPT
                 !.op = "org", !.pc = "commit", !.worker = w,
                 !.status = IF status = orgStatus THEN "keep" ELSE status]]
    /\ IF status = "suspended" THEN RevokeOn(w, Org) ELSE UNCHANGED <<cutoff, killed>>
    /\ changes < MaxChanges /\ changes' = changes + 1
    /\ UNCHANGED <<now, account, orgStatus, refresh, access, restarts>>

CommitStatus(r) ==
    /\ req[r].op = "org" /\ req[r].pc = "commit"
    /\ orgStatus' = IF req[r].status = "keep" THEN orgStatus ELSE req[r].status
    /\ req' = [req EXCEPT ![r] = Idle]
    /\ UNCHANGED <<now, account, refresh, access, cutoff, killed, bounds>>

-----------------------------------------------------------------------------
(* The environment *)

Tick ==
    /\ now < MaxTime
    /\ now' = now + 1
    /\ UNCHANGED <<account, orgStatus, refresh, access, cutoff, req, killed, bounds>>

\* A worker process restarts: its denylist is empty again and its requests
\* are gone.  What was revoked before is not promised any more.
Restart(w) ==
    /\ restarts < MaxRestarts /\ restarts' = restarts + 1
    /\ cutoff' = [cutoff EXCEPT ![w] = [k \in Keys |-> Never]]
    /\ req' = [r \in Requests |-> IF req[r].worker = w THEN Idle ELSE req[r]]
    /\ refresh' = [t \in Rows |->
                     IF refresh[t].holder # None /\ req[refresh[t].holder].worker = w
                     THEN RolledBack(refresh[t].holder)[t] ELSE refresh[t]]
    /\ killed' = [killed EXCEPT ![w] = {}]
    /\ UNCHANGED <<now, account, orgStatus, access, changes>>

Init ==
    /\ now = 0
    /\ account = [s \in Subjects |->
                    [role |-> IF s \in CompanyUsers THEN "company_admin" ELSE "platform_admin",
                     active |-> TRUE]]
    /\ orgStatus = "active"
    /\ refresh = [t \in Rows |-> UnusedRow]
    /\ access = {}
    /\ cutoff = [w \in Workers |-> [k \in Keys |-> Never]]
    /\ req = [r \in Requests |-> Idle]
    /\ killed = [w \in Workers |-> {}]
    /\ changes = 0 /\ restarts = 0

Step(r) ==
    \/ \E w \in Workers, s \in Subjects : LoginCredentials(r, w, s)
    \/ \E w \in Workers, t \in Rows : RefreshLookup(r, w, t)
    \/ RefreshConsume(r)
    \/ RefreshReused(r)
    \/ RefreshAccount(r)
    \/ CheckOrg(r)
    \/ Fail(r)
    \/ \E t \in Rows : IssuePair(r, t)
    \/ CommitPair(r)
    \/ \E w \in Workers, t \in Rows : Logout(r, w, t)
    \/ CommitLogout(r)
    \/ \E w \in Workers, u \in CompanyUsers, active \in BOOLEAN,
          role \in {"company_admin", "member"} : ChangeAccount(r, w, u, role, active)
    \/ CommitAccount(r)
    \/ \E w \in Workers, status \in Statuses : SetStatus(r, w, status)
    \/ CommitStatus(r)

Next == Tick \/ (\E w \in Workers : Restart(w)) \/ (\E r \in Requests : Step(r))

Spec == Init /\ [][Next]_vars

-----------------------------------------------------------------------------
(* Properties *)

\* Types: accounts, refresh-token rows, access tokens, denylists and requests
\* hold the values the columns and the claims admit.
TypeOK ==
    /\ now \in 0..MaxTime
    /\ account \in [Subjects -> Account]
    /\ orgStatus \in Statuses
    /\ refresh \in [Rows -> RefreshRow]
    /\ access \subseteq AccessToken
    /\ cutoff \in [Workers -> [Keys -> Nat \cup {Never}]]
    /\ req \in [Requests -> Request]
    /\ killed \in [Workers -> SUBSET AccessToken]
    /\ changes \in 0..MaxChanges /\ restarts \in 0..MaxRestarts

Successors(t) == {c \in Rows : refresh[c].state # "unused" /\ refresh[c].parent = t}

\* What a request is about, presents and stages, by its operation and its
\* position.
WellFormed(q) ==
    /\ q.op \in {"login", "refresh", "account"} => q.sub \in Subjects
    /\ q.op = "refresh" => q.row \in Rows
    /\ q.op \notin {"refresh", "logout"} => q.row = None
    /\ q.new # None <=> q.op \in {"login", "refresh"} /\ q.pc = "commit"
    /\ q.pc \in {"lookup", "consumed"} => q.op = "refresh"
    /\ q.pc \in {"credentials", "issue"} => q.op \in {"login", "refresh"}
    /\ q.op = "logout" => q.pc = "commit"
    /\ q.pc = "idle" <=> q.op = "none"

RequestShape == \A r \in Requests : WellFormed(req[r])

\* Every refresh token belongs to a subject, and a request presents one that
\* was issued.
RowsHaveSubjects ==
    /\ \A t \in Rows : refresh[t].state # "unused" => refresh[t].subject \in Subjects
    /\ \A r \in Requests : req[r].row \in Rows => refresh[req[r].row].state # "unused"

\* A request that consumed a row, or is logging one out, holds it and it is
\* still valid.
HasRow(r) ==
    /\ req[r].row # None
    /\ req[r].pc # "lookup"

RowsHeld ==
    /\ \A r \in Requests :
         /\ HasRow(r) => /\ refresh[req[r].row].holder = r
                         /\ refresh[req[r].row].state = "valid"
         /\ req[r].new # None => /\ refresh[req[r].new].holder = r
                                 /\ refresh[req[r].new].state = "unused"
    /\ \A t \in Rows : \A r \in Requests :
         refresh[t].holder = r => (HasRow(r) /\ req[r].row = t) \/ req[r].new = t

\* A row is revoked for a reason.
EndedIsRevoked ==
    \A t \in Rows : refresh[t].ended = "no" <=> refresh[t].state # "revoked"

\* Rotation is single-use (AUD-01): a refresh token that was rotated has one
\* successor, and one that was logged out, or is still valid, has none, when
\* rotations and logouts of the same token race.
RotationIsSingleUse ==
    \A t \in Rows :
        IF refresh[t].ended = "rotated" THEN \E c \in Rows : Successors(t) = {c}
                                        ELSE Successors(t) = {}

\* A token that a logout, a deactivation, a role change or a suspension
\* revoked is rejected from then on by the worker that revoked it: neither
\* the eviction of old cutoffs nor a later cutoff lets it in again.
RevokedIsRejected ==
    \A w \in Workers : \A tok \in killed[w] : ~Accepted(tok, w)

\* No token is from the future, and one that was revoked has expired or is
\* still covered by a cutoff.
DenylistInv ==
    /\ \A tok \in access : tok.iat <= now
    /\ \A w \in Workers : \A tok \in killed[w] :
         tok \in access /\ (IsExpired(tok) \/ IsRevoked(tok, cutoff[w]))

\* The inductive invariants of the proofs.
SessionTypeInv == TypeOK /\ RequestShape /\ RowsHaveSubjects
RotationInv == RowsHeld /\ EndedIsRevoked /\ RotationIsSingleUse

=============================================================================
