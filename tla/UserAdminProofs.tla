--------------------------- MODULE UserAdminProofs ---------------------------
(***************************************************************************)
(* Proofs about UserAdmin, for any number of users and requests.           *)
(***************************************************************************)
EXTENDS UserAdmin, TLAPS

\* The columns the ORM writes are the ones the payload provides.
LEMMA DirtyIsProvided ==
    ASSUME NEW row \in Row, NEW ch \in Change
    PROVE  /\ Dirty(row, ch) \subseteq {"role", "active"}
           /\ "role" \in Dirty(row, ch) => ch.role \in Roles
           /\ "active" \in Dirty(row, ch) => ch.active \in {"yes", "no"}
<1>1. Changed(row, ch).role = (IF ch.role = "keep" THEN row.role ELSE ch.role)
  BY DEF Changed, Row
<1>2. Changed(row, ch).active = (IF ch.active = "keep" THEN row.active ELSE ch.active)
  BY DEF Changed, Row
<1>3. QED
  BY <1>1, <1>2 DEF Dirty, Change, Roles

LEMMA ApplyType ==
    ASSUME NEW row \in Row, NEW ch \in Change, NEW cols \in SUBSET {"role", "active"},
           "role" \in cols => ch.role \in Roles,
           "active" \in cols => ch.active \in {"yes", "no"}
    PROVE  /\ Apply(row, ch, cols) \in Row
           /\ cols = {} => Apply(row, ch, cols) = row
BY DEF Apply, Row, Change

LEMMA NoRequestType == NoRequest \in Request
<1>1. (CHOOSE u \in Users : TRUE) \in Users
  BY UserAdminAssumption
<1>2. QED
  BY <1>1 DEF NoRequest, Request, Change, Roles

LEMMA InitGuard == Init => GuardInv
<1> SUFFICES ASSUME Init PROVE GuardInv
  OBVIOUS
<1>1. TypeOK
  BY NoRequestType DEF Init, TypeOK, Onboarded, Row, Roles
<1>2. \A r \in Requests : /\ req[r].got = {} /\ req[r].set = {}
                          /\ req[r].pc = "idle" /\ req[r].guarded = FALSE
  BY DEF Init, NoRequest
<1>3. QED
  BY <1>1, <1>2 DEF GuardInv, CountedAdminsStay, GuardFoundAnother, LocksHeld,
     WritesWereProvided

\* The invariant after a step of one request, from what the step does to that
\* request, to the locks of the others and to the rows they have counted.
LEMMA StepByStep ==
    ASSUME GuardInv, NEW r \in Requests, Step(r)
    PROVE  GuardInv'
<1> USE DEF GuardInv
<1>1. CASE \E u \in Users, ch \in Change : Load(r, u, ch)
  <2>1. PICK u \in Users, ch \in Change : Load(r, u, ch)
    BY <1>1
  <2>2. user[u] \in Row
    BY DEF TypeOK
  <2>3. /\ Dirty(user[u], ch) \subseteq {"role", "active"}
        /\ "role" \in Dirty(user[u], ch) => ch.role \in Roles
        /\ "active" \in Dirty(user[u], ch) => ch.active \in {"yes", "no"}
    BY <2>2, DirtyIsProvided
  <2>4. NeedsGuard(user[u], ch) \in BOOLEAN
    BY DEF NeedsGuard, IsActiveAdmin
  <2> DEFINE new == [pc |-> IF NeedsGuard(user[u], ch) THEN "guard" ELSE "write",
                     target |-> u, change |-> ch, todo |-> {}, got |-> {},
                     guarded |-> NeedsGuard(user[u], ch),
                     set |-> Dirty(user[u], ch)]
  <2>5. req' = [req EXCEPT ![r] = new] /\ user' = user /\ lock' = lock
    BY <2>1 DEF Load
  <2>6. new \in Request
    BY <2>3, <2>4 DEF Request
  <2>7. TypeOK'
    BY <2>5, <2>6 DEF TypeOK
  <2>8. \A s \in Requests : req'[s] = IF s = r THEN new ELSE req[s]
    BY <2>5 DEF TypeOK
  <2>9. /\ new.got = {} /\ new.pc # "commit" /\ new.pc # "create"
        /\ new.guarded => new.pc = "guard"
        /\ new.set = Dirty(user[u], ch) /\ new.change = ch
    BY <2>4
  <2> HIDE DEF new
  <2>10. CountedAdminsStay' /\ GuardFoundAnother'
    BY <2>5, <2>8, <2>9 DEF CountedAdminsStay, GuardFoundAnother
  <2>11. LocksHeld'
    BY <2>5, <2>8, <2>9 DEF LocksHeld
  <2>12. WritesWereProvided'
    BY <2>3, <2>5, <2>8, <2>9 DEF WritesWereProvided
  <2>13. QED
    BY <2>7, <2>10, <2>11, <2>12
<1>2. CASE SnapshotAdmins(r)
  <2>1. /\ req' = [req EXCEPT ![r].pc = "lock", ![r].todo = ActiveAdmins]
        /\ user' = user /\ lock' = lock /\ req[r].pc = "guard"
    BY <1>2 DEF SnapshotAdmins
  <2>2. req[r] \in Request /\ ActiveAdmins \in SUBSET Users
    BY DEF TypeOK, ActiveAdmins
  <2>3. TypeOK'
    BY <2>1, <2>2 DEF TypeOK, Request
  <2>4. \A s \in Requests :
          /\ req'[s].got = req[s].got /\ req'[s].set = req[s].set
          /\ req'[s].change = req[s].change /\ req'[s].target = req[s].target
          /\ req'[s].guarded = req[s].guarded
          /\ s # r => req'[s].pc = req[s].pc
          /\ req'[r].pc = "lock"
    BY <2>1, <2>2 DEF TypeOK, Request
  <2>5. CountedAdminsStay' /\ LocksHeld'
    <3>1. \A s \in Requests : req'[s].got = req[s].got
      BY <2>4
    <3>2. CountedAdminsStay'
      BY <2>1, <3>1 DEF CountedAdminsStay
    <3>3. ASSUME NEW s \in Requests
          PROVE  /\ \A a \in req'[s].got : lock'[a] = s
                 /\ req'[s].pc = "commit" /\ req'[s].set # {} => lock'[req'[s].target] = s
                 /\ req'[s].pc \in {"idle", "create", "guard"} => req'[s].got = {}
      <4>1. /\ \A a \in req[s].got : lock[a] = s
            /\ req[s].pc = "commit" /\ req[s].set # {} => lock[req[s].target] = s
            /\ req[s].pc \in {"idle", "create", "guard"} => req[s].got = {}
        BY DEF LocksHeld
      <4>2. lock' = lock /\ (req'[s].pc = req[s].pc \/ req'[s].pc = "lock")
        BY <2>1, <2>4
      <4>3. req'[s].got = req[s].got /\ req'[s].set = req[s].set /\ req'[s].target = req[s].target
        BY <2>4
      <4>4. QED
        BY <4>1, <4>2, <4>3
    <3>4. QED
      BY <3>2, <3>3 DEF LocksHeld
  <2>6. \A s \in Requests : req'[s].pc \in {"write", "commit"} => req'[s].pc = req[s].pc
    BY <2>4
  <2>7. GuardFoundAnother'
    BY <2>4, <2>6 DEF GuardFoundAnother
  <2>8. WritesWereProvided'
    BY <2>1, <2>4 DEF WritesWereProvided
  <2>9. QED
    BY <2>3, <2>5, <2>7, <2>8
<1>3. CASE LockAdmin(r)
  <2>1. PICK a \in req[r].todo :
          /\ Free(a, r)
          /\ lock' = [lock EXCEPT ![a] = r]
          /\ req' = [req EXCEPT ![r].todo = req[r].todo \ {a},
                                ![r].got = IF IsActiveAdmin(user[a])
                                           THEN req[r].got \cup {a} ELSE req[r].got]
    BY <1>3 DEF LockAdmin
  <2>2. user' = user /\ req[r].pc = "lock"
    BY <1>3 DEF LockAdmin
  <2>3. req[r] \in Request /\ a \in Users
    BY DEF TypeOK, Request
  <2> DEFINE newgot == IF IsActiveAdmin(user[a]) THEN req[r].got \cup {a} ELSE req[r].got
  <2>4. newgot \in SUBSET Users /\ newgot \subseteq req[r].got \cup {a}
        /\ (a \in newgot => a \in req[r].got \/ IsActiveAdmin(user[a]))
    BY <2>3 DEF Request
  <2>5. /\ req'[r].got = newgot /\ req'[r].pc = "lock"
        /\ req'[r].set = req[r].set /\ req'[r].change = req[r].change
        /\ \A s \in Requests : s # r => req'[s] = req[s]
    BY <2>1, <2>2, <2>3 DEF TypeOK, Request
  <2>6. TypeOK'
    BY <2>1, <2>2, <2>3, <2>4 DEF TypeOK, Request
  <2> HIDE DEF newgot
  <2>7. CountedAdminsStay'
    BY <2>2, <2>4, <2>5 DEF CountedAdminsStay
  <2>8. GuardFoundAnother' /\ WritesWereProvided'
    BY <2>2, <2>5 DEF GuardFoundAnother, WritesWereProvided
  <2>9. \A u \in Users : lock'[u] = IF u = a THEN r ELSE lock[u]
    BY <2>1, <2>3 DEF TypeOK
  <2>10. \A s \in Requests : s # r => lock[a] # s
    BY <2>1, UserAdminAssumption DEF Free
  <2>11. \A s \in Requests : req[s].got \subseteq Users /\ req[s].target \in Users
    BY DEF TypeOK, Request
  <2>12. LocksHeld'
    BY <2>2, <2>4, <2>5, <2>9, <2>10, <2>11 DEF LocksHeld
  <2>13. QED
    BY <2>6, <2>7, <2>8, <2>12
<1>4. CASE PassGuard(r)
  <2>1. /\ req' = [req EXCEPT ![r].pc = "write"] /\ user' = user /\ lock' = lock
        /\ req[r].pc = "lock" /\ \E a \in req[r].got : a # req[r].target
    BY <1>4 DEF PassGuard
  <2>2. req[r] \in Request
    BY DEF TypeOK
  <2>3. TypeOK'
    BY <2>1, <2>2 DEF TypeOK, Request
  <2>4. \A s \in Requests :
          /\ req'[s].got = req[s].got /\ req'[s].set = req[s].set
          /\ req'[s].change = req[s].change /\ req'[s].target = req[s].target
          /\ req'[s].guarded = req[s].guarded
          /\ s # r => req'[s].pc = req[s].pc
          /\ req'[r].pc = "write"
    BY <2>1, <2>2 DEF TypeOK, Request
  <2>5. CountedAdminsStay' /\ GuardFoundAnother' /\ LocksHeld' /\ WritesWereProvided'
    BY <2>1, <2>4 DEF CountedAdminsStay, GuardFoundAnother, LocksHeld, WritesWereProvided
  <2>6. QED
    BY <2>3, <2>5
<1>5. CASE Write(r)
  <2>1. /\ req' = [req EXCEPT ![r].pc = "commit"] /\ user' = user /\ req[r].pc = "write"
        /\ \/ req[r].set = {} /\ lock' = lock
           \/ Free(req[r].target, r) /\ lock' = [lock EXCEPT ![req[r].target] = r]
    BY <1>5 DEF Write
  <2>2. req[r] \in Request
    BY DEF TypeOK
  <2>3. TypeOK'
    BY <2>1, <2>2 DEF TypeOK, Request
  <2>4. \A s \in Requests :
          /\ req'[s].got = req[s].got /\ req'[s].set = req[s].set
          /\ req'[s].change = req[s].change /\ req'[s].target = req[s].target
          /\ req'[s].guarded = req[s].guarded
          /\ s # r => req'[s].pc = req[s].pc
          /\ req'[r].pc = "commit"
    BY <2>1, <2>2 DEF TypeOK, Request
  <2>5. CountedAdminsStay' /\ GuardFoundAnother' /\ WritesWereProvided'
    BY <2>1, <2>4 DEF CountedAdminsStay, GuardFoundAnother, WritesWereProvided
  <2>6. \A u \in Users : \A s \in Requests :
          lock[u] = s => lock'[u] = s
    BY <2>1, <2>2, UserAdminAssumption DEF TypeOK, Request, Free
  <2>7. req[r].set # {} => lock'[req[r].target] = r
    BY <2>1, <2>2 DEF TypeOK, Request
  <2>8. \A s \in Requests : req[s].got \subseteq Users /\ req[s].target \in Users
    BY DEF TypeOK, Request
  <2>9. LocksHeld'
    BY <2>1, <2>4, <2>6, <2>7, <2>8 DEF LocksHeld
  <2>10. QED
    BY <2>3, <2>5, <2>9
<1>6. ASSUME req' = [req EXCEPT ![r] = NoRequest],
             \/ lock' = Released(r)
             \/ lock' = lock,
             user' \in [Users -> Row],
             \A s \in Requests \ {r} : \A a \in req[s].got : user'[a] = user[a]
      PROVE  GuardInv'
  <2>1. NoRequest \in Request /\ NoRequest.got = {} /\ NoRequest.pc = "idle"
        /\ NoRequest.set = {} /\ NoRequest.guarded = FALSE
    BY NoRequestType DEF NoRequest
  <2>2. \A u \in Users : \A s \in Requests :
          lock[u] = s /\ s # r => lock'[u] = s
    BY <1>6 DEF Released
  <2>3. lock' \in [Users -> Requests \cup {NoOne}]
    BY <1>6 DEF Released, TypeOK
  <2>4. TypeOK'
    BY <1>6, <2>1, <2>3 DEF TypeOK
  <2>5. \A s \in Requests : req'[s] = IF s = r THEN NoRequest ELSE req[s]
    BY <1>6 DEF TypeOK
  <2>6. \A s \in Requests : req[s].got \subseteq Users /\ req[s].target \in Users
    BY DEF TypeOK, Request
  <2>7. CountedAdminsStay'
    BY <1>6, <2>1, <2>5 DEF CountedAdminsStay
  <2>8. GuardFoundAnother' /\ WritesWereProvided'
    BY <2>1, <2>5 DEF GuardFoundAnother, WritesWereProvided
  <2>9. LocksHeld'
    BY <2>1, <2>2, <2>5, <2>6 DEF LocksHeld
  <2>10. QED
    BY <2>4, <2>7, <2>8, <2>9
<1>7. CASE RejectLastAdmin(r) \/ Abort(r) \/ InsertDuplicate(r)
  BY <1>6, <1>7 DEF RejectLastAdmin, Abort, InsertDuplicate, TypeOK
<1>8. CASE Commit(r)
  <2> DEFINE t == req[r].target
             new == Apply(user[t], req[r].change, req[r].set)
  <2>1. /\ user' = [user EXCEPT ![t] = new] /\ req[r].pc = "commit"
        /\ req' = [req EXCEPT ![r] = NoRequest] /\ lock' = Released(r)
    BY <1>8 DEF Commit
  <2>2. t \in Users /\ user[t] \in Row /\ req[r].change \in Change
        /\ req[r].set \in SUBSET {"role", "active"}
    BY DEF TypeOK, Request
  <2>3. new \in Row /\ (req[r].set = {} => new = user[t])
    BY <2>2, ApplyType DEF WritesWereProvided
  <2> HIDE DEF new
  <2>4. user' \in [Users -> Row]
    BY <2>1, <2>2, <2>3 DEF TypeOK
  <2>5. ASSUME NEW s \in Requests \ {r}, NEW a \in req[s].got
        PROVE  user'[a] = user[a]
    <3>1. a \in Users /\ lock[a] = s
      BY DEF TypeOK, Request, LocksHeld
    <3>2. CASE req[r].set = {}
      BY <2>1, <2>2, <2>3, <3>1, <3>2 DEF TypeOK
    <3>3. CASE req[r].set # {}
      <4>1. lock[t] = r
        BY <2>1, <3>3 DEF LocksHeld
      <4>2. QED
        BY <2>1, <3>1, <4>1 DEF TypeOK
    <3>4. QED
      BY <3>2, <3>3
  <2>6. QED
    BY <1>6, <2>1, <2>4, <2>5
<1>9. CASE \E u \in Users, role \in Roles : CheckEmail(r, u, role)
  <2>1. PICK u \in Users, role \in Roles : CheckEmail(r, u, role)
    BY <1>9
  <2> DEFINE new == [pc |-> "create", target |-> u,
                     change |-> [role |-> role, active |-> "keep"],
                     todo |-> {}, got |-> {}, guarded |-> FALSE, set |-> {}]
  <2>2. req' = [req EXCEPT ![r] = new] /\ user' = user /\ lock' = lock
    BY <2>1 DEF CheckEmail
  <2>3. new \in Request
    BY DEF Request, Change
  <2>4. /\ new.got = {} /\ new.pc = "create" /\ new.set = {} /\ new.guarded = FALSE
        /\ new.change.role \in Roles
    OBVIOUS
  <2>5. \A s \in Requests : req'[s] = IF s = r THEN new ELSE req[s]
    BY <2>2 DEF TypeOK
  <2> HIDE DEF new
  <2>6. TypeOK'
    BY <2>2, <2>3 DEF TypeOK
  <2>7. CountedAdminsStay' /\ GuardFoundAnother'
    BY <2>2, <2>4, <2>5 DEF CountedAdminsStay, GuardFoundAnother
  <2>8. LocksHeld' /\ WritesWereProvided'
    BY <2>2, <2>4, <2>5 DEF LocksHeld, WritesWereProvided
  <2>9. QED
    BY <2>6, <2>7, <2>8
<1>10. CASE Insert(r)
  <2> DEFINE t == req[r].target
             new == [exists |-> TRUE, role |-> req[r].change.role, active |-> "yes"]
  <2>1. /\ user' = [user EXCEPT ![t] = new] /\ req[r].pc = "create" /\ ~user[t].exists
        /\ req' = [req EXCEPT ![r] = NoRequest] /\ lock' = lock
    BY <1>10 DEF Insert
  <2>2. new \in Row
    BY <2>1 DEF WritesWereProvided, Row
  <2>3. user' \in [Users -> Row]
    BY <2>1, <2>2 DEF TypeOK
  <2>4. ASSUME NEW s \in Requests \ {r}, NEW a \in req[s].got
        PROVE  user'[a] = user[a]
    <3>1. a \in Users /\ user[a].exists
      BY DEF TypeOK, Request, CountedAdminsStay, IsActiveAdmin
    <3>2. QED
      BY <2>1, <3>1 DEF TypeOK
  <2>5. QED
    BY <1>6, <2>1, <2>3, <2>4
<1>11. QED
  BY <1>1, <1>2, <1>3, <1>4, <1>5, <1>7, <1>8, <1>9, <1>10 DEF Step

LEMMA NextGuard == GuardInv /\ [Next]_vars => GuardInv'
<1> SUFFICES ASSUME GuardInv, [Next]_vars PROVE GuardInv'
  OBVIOUS
<1>1. CASE Next
  BY <1>1, StepByStep DEF Next
<1>2. CASE UNCHANGED vars
  BY <1>2 DEF vars, GuardInv, TypeOK, CountedAdminsStay, GuardFoundAnother, LocksHeld,
     WritesWereProvided, IsActiveAdmin
<1>3. QED
  BY <1>1, <1>2

\* The invariant behind the last-admin guard of UserService: whatever
\* requests interleave, an administrator a guard counted is locked, stays
\* active and is not the one being removed.
THEOREM GuardInvariant == Spec => []GuardInv
BY InitGuard, NextGuard, PTL DEF Spec

\* The rows, locks and requests of user management keep their types.
THEOREM UserAdminTypes == Spec => []TypeOK
<1>1. GuardInv => TypeOK
  BY DEF GuardInv
<1>2. QED
  BY <1>1, GuardInvariant, PTL

\* _guard_last_admin: an administrator counted under FOR UPDATE stays one
\* until the request that counted it ends.
THEOREM CountedStay == Spec => []CountedAdminsStay
<1>1. GuardInv => CountedAdminsStay
  BY DEF GuardInv
<1>2. QED
  BY <1>1, GuardInvariant, PTL

\* _guard_last_admin: a removal that went through the guard leaves an active
\* administrator behind, for any number of concurrent requests.
THEOREM GuardedRemovals == Spec => GuardedRemovalKeepsAnAdmin
<1>1. ASSUME GuardInv, [Next]_vars, NEW r \in Requests,
             req[r].pc = "commit", req[r].guarded, req'[r].pc = "idle"
      PROVE  ActiveAdmins' # {}
  <2>1. PICK a \in req[r].got : a # req[r].target
    BY <1>1 DEF GuardInv, GuardFoundAnother
  <2>2. a \in Users /\ IsActiveAdmin(user[a]) /\ lock[a] = r
    BY <1>1 DEF GuardInv, TypeOK, Request, CountedAdminsStay, LocksHeld
  <2>3. PICK s \in Requests : Step(s)
    BY <1>1 DEF Next, vars
  <2>4. s = r
    <3>1. ASSUME s # r PROVE req'[r] = req[r]
      BY <2>3, <3>1, <1>1 DEF Step, Load, SnapshotAdmins, LockAdmin, PassGuard,
         RejectLastAdmin, Write, Commit, Abort, CheckEmail, Insert, InsertDuplicate,
         GuardInv, TypeOK
    <3>2. QED
      BY <1>1, <3>1
  <2>5. Commit(r) \/ Abort(r)
    BY <1>1, <2>3, <2>4 DEF Step, Load, SnapshotAdmins, LockAdmin, PassGuard,
       RejectLastAdmin, Write, CheckEmail, Insert, InsertDuplicate
  <2>6. user'[a] = user[a]
    BY <1>1, <2>1, <2>2, <2>5 DEF Commit, Abort, GuardInv, TypeOK
  <2>7. QED
    BY <2>2, <2>6 DEF ActiveAdmins, IsActiveAdmin
<1>2. GuardInv /\ [Next]_vars
        => [\A r \in Requests :
              req[r].pc = "commit" /\ req[r].guarded /\ req'[r].pc = "idle"
                => ActiveAdmins' # {}]_vars
  BY <1>1
<1>3. QED
  BY <1>2, GuardInvariant, PTL DEF Spec, GuardedRemovalKeepsAnAdmin
=============================================================================
