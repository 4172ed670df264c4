------------------------------ MODULE UserAdmin ------------------------------
(***************************************************************************)
(* Company-admin user management: UserService and UserRepository.          *)
(*                                                                         *)
(* A request is one READ COMMITTED transaction.  It reads the target user  *)
(* without a lock, runs the last-admin guard, which may lock the rows of   *)
(* the organization's active administrators, flushes an UPDATE of the      *)
(* columns it changed and commits.  Other requests interleave between any  *)
(* two statements.  One organization: every method is scoped to the        *)
(* caller's, so organizations share no rows.                               *)
(***************************************************************************)
EXTENDS Integers, FiniteSets

CONSTANTS
    Users,      \* ids of the user rows; FOR UPDATE locks them in this order
    Requests,   \* concurrent requests (database transactions)
    NoOne       \* nobody holds the row lock

ASSUME UserAdminAssumption ==
    /\ Users \subseteq Nat /\ Users # {}
    /\ NoOne \notin Requests

VARIABLES
    user,       \* the committed rows
    lock,       \* row locks: the request that holds each one, or NoOne
    req         \* the local state of every request

vars == <<user, lock, req>>

-----------------------------------------------------------------------------
(* Rows and requests *)

Roles == {"company_admin", "member"}

\* A user row; role and is_active mean nothing while it does not exist.
Row == [exists: BOOLEAN, role: Roles, active: {"yes", "no"}]

\* UserUpdateRequest: a field that is not provided is kept.  deactivate_user
\* is the change that provides is_active = False and no role.
Change == [role: Roles \cup {"keep"}, active: {"yes", "no", "keep"}]

Request == [pc: {"idle", "create", "guard", "lock", "write", "commit"},
            target: Users, change: Change,
            todo: SUBSET Users, got: SUBSET Users,
            guarded: BOOLEAN, set: SUBSET {"role", "active"}]

NoRequest ==
    [pc |-> "idle", target |-> CHOOSE u \in Users : TRUE,
     change |-> [role |-> "keep", active |-> "keep"],
     todo |-> {}, got |-> {}, guarded |-> FALSE, set |-> {}]

IsActiveAdmin(row) == row.exists /\ row.role = "company_admin" /\ row.active = "yes"

ActiveAdmins == {u \in Users : IsActiveAdmin(user[u])}

\* The row after the change: only the provided fields differ.
Changed(row, ch) ==
    [row EXCEPT !.role = IF ch.role = "keep" THEN row.role ELSE ch.role,
                !.active = IF ch.active = "keep" THEN row.active ELSE ch.active]

\* The ORM writes the columns whose value differs from the one it loaded.
Dirty(seen, ch) ==
    {f \in {"role", "active"} : Changed(seen, ch)[f] # seen[f]}

Apply(row, ch, columns) ==
    [row EXCEPT !.role = IF "role" \in columns THEN ch.role ELSE row.role,
                !.active = IF "active" \in columns THEN ch.active ELSE row.active]

\* _guard_last_admin looks at the other administrators only when the change
\* takes an active administrator, as it was read, out of that state.
NeedsGuard(seen, ch) ==
    IsActiveAdmin(seen) /\ ~IsActiveAdmin(Changed(seen, ch))

Free(u, r) == lock[u] \in {NoOne, r}

Released(r) == [u \in Users |-> IF lock[u] = r THEN NoOne ELSE lock[u]]

-----------------------------------------------------------------------------
(* update_user and deactivate_user *)

\* get_in_org: an unlocked read; an unknown user is a 404.
Load(r, u, ch) ==
    /\ req[r].pc = "idle"
    /\ user[u].exists
    /\ LET guarded == NeedsGuard(user[u], ch) IN
       req' = [req EXCEPT ![r] =
                 [pc |-> IF guarded THEN "guard" ELSE "write",
                  target |-> u, change |-> ch,
                  todo |-> {}, got |-> {}, guarded |-> guarded,
                  set |-> Dirty(user[u], ch)]]
    /\ UNCHANGED <<user, lock>>

\* Mutant of SnapshotAdmins: the administrators are counted without a lock.
SnapshotAdminsUnlocked(r) ==
    /\ req[r].pc = "guard"
    /\ req' = [req EXCEPT ![r].pc = "lock", ![r].got = ActiveAdmins]
    /\ UNCHANGED <<user, lock>>

\* lock_active_admin_ids, statement start: the snapshot picks the rows.
SnapshotAdmins(r) ==
    /\ req[r].pc = "guard"
    /\ req' = [req EXCEPT ![r].pc = "lock", ![r].todo = ActiveAdmins]
    /\ UNCHANGED <<user, lock>>

\* Mutant of LockAdmin: the row is counted as the snapshot had it.
LockAdminStale(r) ==
    /\ req[r].pc = "lock"
    /\ \E a \in req[r].todo :
         /\ \A b \in req[r].todo : a <= b
         /\ Free(a, r)
         /\ lock' = [lock EXCEPT ![a] = r]
         /\ req' = [req EXCEPT ![r].todo = req[r].todo \ {a},
                               ![r].got = req[r].got \cup {a}]
    /\ UNCHANGED user

\* lock_active_admin_ids, one row: ORDER BY id, wait for the lock, then look
\* at the row's current version again and keep it if it still matches.
LockAdmin(r) ==
    /\ req[r].pc = "lock"
    /\ \E a \in req[r].todo :
         /\ \A b \in req[r].todo : a <= b
         /\ Free(a, r)
         /\ lock' = [lock EXCEPT ![a] = r]
         /\ req' = [req EXCEPT ![r].todo = req[r].todo \ {a},
                               ![r].got = IF IsActiveAdmin(user[a])
                                          THEN req[r].got \cup {a}
                                          ELSE req[r].got]
    /\ UNCHANGED user

\* The guard's verdict: another locked administrator lets the change through.
PassGuard(r) ==
    /\ req[r].pc = "lock"
    /\ req[r].todo = {}
    /\ \E a \in req[r].got : a # req[r].target
    /\ req' = [req EXCEPT ![r].pc = "write"]
    /\ UNCHANGED <<user, lock>>

\* LastAdminError (409): the transaction rolls back.
RejectLastAdmin(r) ==
    /\ req[r].pc = "lock"
    /\ req[r].todo = {}
    /\ \A a \in req[r].got : a = req[r].target
    /\ req' = [req EXCEPT ![r] = NoRequest]
    /\ lock' = Released(r)
    /\ UNCHANGED user

\* UserRepository.add: the flush emits the UPDATE, which takes the row lock;
\* a request that changes no column emits none.
Write(r) ==
    /\ req[r].pc = "write"
    /\ \/ /\ req[r].set = {}
          /\ UNCHANGED lock
       \/ /\ req[r].set # {}
          /\ Free(req[r].target, r)
          /\ lock' = [lock EXCEPT ![req[r].target] = r]
    /\ req' = [req EXCEPT ![r].pc = "commit"]
    /\ UNCHANGED user

\* The unit of work of get_tenant_session commits and releases the locks.
Commit(r) ==
    /\ req[r].pc = "commit"
    /\ user' = [user EXCEPT ![req[r].target] =
                  Apply(user[req[r].target], req[r].change, req[r].set)]
    /\ req' = [req EXCEPT ![r] = NoRequest]
    /\ lock' = Released(r)

\* A lost connection or the deadlock detector: the transaction rolls back.
Abort(r) ==
    /\ req[r].pc # "idle"
    /\ req' = [req EXCEPT ![r] = NoRequest]
    /\ lock' = Released(r)
    /\ UNCHANGED user

-----------------------------------------------------------------------------
(* create_user *)

\* email_exists says no (else 409); the password is then hashed off the loop.
CheckEmail(r, u, role) ==
    /\ req[r].pc = "idle"
    /\ ~user[u].exists
    /\ req' = [req EXCEPT ![r] =
                 [pc |-> "create", target |-> u,
                  change |-> [role |-> role, active |-> "keep"],
                  todo |-> {}, got |-> {}, guarded |-> FALSE, set |-> {}]]
    /\ UNCHANGED <<user, lock>>

\* The insert and its commit.  The key of the new row cannot be seen before
\* the commit, and a competing insert waits for it: the two are one step.
Insert(r) ==
    /\ req[r].pc = "create"
    /\ ~user[req[r].target].exists
    /\ user' = [user EXCEPT ![req[r].target] =
                  [exists |-> TRUE, role |-> req[r].change.role, active |-> "yes"]]
    /\ req' = [req EXCEPT ![r] = NoRequest]
    /\ UNCHANGED lock

\* The UNIQUE constraint refuses the second of two racing inserts (409).
InsertDuplicate(r) ==
    /\ req[r].pc = "create"
    /\ user[req[r].target].exists
    /\ req' = [req EXCEPT ![r] = NoRequest]
    /\ UNCHANGED <<user, lock>>

-----------------------------------------------------------------------------
\* onboard_organization creates the organization with its first admin.
Onboarded(first) ==
    [u \in Users |-> [exists |-> u = first, role |-> "company_admin",
                      active |-> IF u = first THEN "yes" ELSE "no"]]

Init ==
    /\ \E first \in Users : user = Onboarded(first)
    /\ req = [r \in Requests |-> NoRequest]
    /\ lock = [u \in Users |-> NoOne]

Step(r) ==
    \/ \E u \in Users, ch \in Change : Load(r, u, ch)
    \/ SnapshotAdmins(r)
    \/ LockAdmin(r)
    \/ PassGuard(r)
    \/ RejectLastAdmin(r)
    \/ Write(r)
    \/ Commit(r)
    \/ Abort(r)
    \/ \E u \in Users, role \in Roles : CheckEmail(r, u, role)
    \/ Insert(r)
    \/ InsertDuplicate(r)

Next == \E r \in Requests : Step(r)

Spec == Init /\ [][Next]_vars

-----------------------------------------------------------------------------
(* Properties *)

\* Types: user rows (the CHECK on role included), row locks and requests hold
\* the values the columns and the payloads admit.
TypeOK ==
    /\ user \in [Users -> Row]
    /\ lock \in [Users -> Requests \cup {NoOne}]
    /\ req \in [Requests -> Request]

\* An administrator a guard has counted is still an active administrator for
\* as long as the request that counted it is open, whatever the requests that
\* read that row before the lock go on to do.
CountedAdminsStay ==
    \A r \in Requests : \A a \in req[r].got : IsActiveAdmin(user[a])

\* A guard that let its change through counted an administrator other than
\* its target.
GuardFoundAnother ==
    \A r \in Requests : req[r].guarded /\ req[r].pc \in {"write", "commit"}
                          => \E a \in req[r].got : a # req[r].target

\* What a request has locked: the administrators it counted, and its target
\* once the UPDATE is flushed; nothing is counted before the guard runs.
LocksHeld ==
    \A r \in Requests :
        /\ \A a \in req[r].got : lock[a] = r
        /\ req[r].pc = "commit" /\ req[r].set # {} => lock[req[r].target] = r
        /\ req[r].pc \in {"idle", "create", "guard"} => req[r].got = {}

\* The columns a request writes have values it was given.
WritesWereProvided ==
    \A r \in Requests :
        /\ "role" \in req[r].set \/ req[r].pc = "create"
              => req[r].change.role \in Roles
        /\ "active" \in req[r].set => req[r].change.active \in {"yes", "no"}

\* The inductive invariant of the proofs.
GuardInv ==
    /\ TypeOK
    /\ CountedAdminsStay
    /\ GuardFoundAnother
    /\ LocksHeld
    /\ WritesWereProvided

\* A request whose guard ran never leaves the organization without an active
\* administrator, however many removals run at once.
GuardedRemovalKeepsAnAdmin ==
    [][\A r \in Requests :
         req[r].pc = "commit" /\ req[r].guarded /\ req'[r].pc = "idle"
            => ActiveAdmins' # {}]_vars

\* "An org can never be locked out of its own user management."
NeverWithoutAdmin == ActiveAdmins # {}

=============================================================================
