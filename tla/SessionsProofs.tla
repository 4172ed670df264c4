---------------------------- MODULE SessionsProofs ----------------------------
(***************************************************************************)
(* Proofs about Sessions, for any number of subjects, workers, requests    *)
(* and refresh tokens and any lifetimes.                                   *)
(***************************************************************************)
EXTENDS Sessions, TLAPS

LEMMA IdleType == Idle \in Request
BY DEF Idle, Request, Roles, Statuses

LEMMA UnusedRowType == UnusedRow \in RefreshRow
BY DEF UnusedRow, RefreshRow

LEMMA RolledBackType ==
    ASSUME TypeOK, NEW r
    PROVE  /\ RolledBack(r) \in [Rows -> RefreshRow]
           /\ \A t \in Rows : /\ RolledBack(r)[t].state = refresh[t].state
                              /\ RolledBack(r)[t].subject = refresh[t].subject
                                 \/ refresh[t].state = "unused"
<1>1. ASSUME NEW t \in Rows
      PROVE  /\ RolledBack(r)[t] \in RefreshRow
             /\ RolledBack(r)[t].state = refresh[t].state
             /\ RolledBack(r)[t].subject = refresh[t].subject \/ refresh[t].state = "unused"
  <2>1. refresh[t] \in RefreshRow
    BY DEF TypeOK
  <2>2. [refresh[t] EXCEPT !.holder = None] \in RefreshRow
        /\ [refresh[t] EXCEPT !.holder = None].state = refresh[t].state
        /\ [refresh[t] EXCEPT !.holder = None].subject = refresh[t].subject
    BY <2>1 DEF RefreshRow
  <2>3. UnusedRow.state = "unused"
    BY DEF UnusedRow
  <2>4. QED
    BY <2>1, <2>2, <2>3, UnusedRowType DEF RolledBack
<1>2. QED
  BY <1>1 DEF RolledBack

\* revoke_subject, revoke_org keep the denylist a map from keys to seconds.
LEMMA RevokeOnType ==
    ASSUME TypeOK, NEW w \in Workers, NEW k \in Keys, RevokeOn(w, k)
    PROVE  /\ cutoff' \in [Workers -> [Keys -> Nat \cup {Never}]]
           /\ killed' \in [Workers -> SUBSET AccessToken]
<1>1. Revoke(cutoff[w], k) \in [Keys -> Nat \cup {Never}]
  BY DEF TypeOK, Revoke, Never
<1>2. Covered(k) \subseteq AccessToken
  BY DEF TypeOK, Covered
<1>3. QED
  BY <1>1, <1>2 DEF TypeOK, RevokeOn

LEMMA IdleShape == /\ WellFormed(Idle)
                   /\ Idle.op = "none" /\ Idle.row = None /\ Idle.new = None
BY DEF WellFormed, Idle

LEMMA InitTypes == Init => SessionTypeInv
<1> SUFFICES ASSUME Init PROVE SessionTypeInv
  OBVIOUS
<1>1. TypeOK
  BY IdleType, UnusedRowType, SessionsAssumption
     DEF Init, TypeOK, Account, Roles, Statuses, Keys, Never
<1>2. RequestShape
  BY IdleShape DEF Init, RequestShape
<1>3. RowsHaveSubjects
  <2>1. \A r \in Requests : req[r].row \notin Rows
    BY IdleShape, SessionsAssumption DEF Init
  <2>2. QED
    BY <2>1 DEF Init, UnusedRow, RowsHaveSubjects
<1>4. QED
  BY <1>1, <1>2, <1>3 DEF SessionTypeInv

\* A step of one request that leaves the clock, the accounts and the
\* organization alone.
LEMMA RequestTypes ==
    ASSUME SessionTypeInv, NEW r \in Requests, NEW new \in Request, WellFormed(new),
           req' = [req EXCEPT ![r] = new],
           refresh' \in [Rows -> RefreshRow],
           \A t \in Rows : /\ refresh'[t].state # "unused" => refresh'[t].subject \in Subjects
                           /\ refresh'[t].state = "unused" => refresh[t].state = "unused",
           new.row \in Rows => refresh'[new.row].state # "unused",
           access' \subseteq AccessToken,
           cutoff' \in [Workers -> [Keys -> Nat \cup {Never}]],
           killed' \in [Workers -> SUBSET AccessToken],
           now' = now, account' \in [Subjects -> Account], orgStatus' \in Statuses,
           changes' \in 0..MaxChanges, restarts' = restarts
    PROVE  SessionTypeInv'
<1>1. TypeOK'
  BY DEF SessionTypeInv, TypeOK
<1>2. RequestShape'
  BY DEF SessionTypeInv, TypeOK, RequestShape
<1>3. RowsHaveSubjects'
  BY DEF SessionTypeInv, TypeOK, RowsHaveSubjects
<1>4. QED
  BY <1>1, <1>2, <1>3 DEF SessionTypeInv

LEMMA StepTypes ==
    ASSUME SessionTypeInv, NEW r \in Requests, Step(r)
    PROVE  SessionTypeInv'
<1>t. /\ req[r] \in Request /\ WellFormed(req[r]) /\ now \in Nat
      /\ TypeOK /\ RequestShape /\ RowsHaveSubjects
  BY SessionsAssumption DEF SessionTypeInv, TypeOK, RequestShape
<1>i. Idle \in Request /\ WellFormed(Idle) /\ Idle.row \notin Rows
  BY IdleType, IdleShape, SessionsAssumption
<1>r. req[r].row \in Rows => refresh[req[r].row].state # "unused"
  BY <1>t DEF RowsHaveSubjects
\* A step that leaves the rows and the tokens alone.
<1>m. ASSUME NEW new \in Request, WellFormed(new), req' = [req EXCEPT ![r] = new],
             new.row \in Rows => refresh[new.row].state # "unused",
             UNCHANGED <<now, account, orgStatus, refresh, access, cutoff, killed, bounds>>
      PROVE  SessionTypeInv'
  <2>1. \A t \in Rows : refresh'[t].state # "unused" => refresh'[t].subject \in Subjects
    BY <1>t, <1>m DEF RowsHaveSubjects
  <2>2. QED
    BY <1>t, <1>m, <2>1, RequestTypes DEF TypeOK, bounds
<1>1. ASSUME NEW w \in Workers, NEW s \in Subjects, LoginCredentials(r, w, s)
      PROVE  SessionTypeInv'
  <2> DEFINE new == [Idle EXCEPT !.op = "login", !.pc = "credentials", !.worker = w,
                                 !.sub = s, !.role = account[s].role]
  <2>1. new \in Request
    BY <1>t DEF Idle, Request, TypeOK, Account, Statuses
  <2>2. WellFormed(new) /\ new.row \notin Rows
    BY SessionsAssumption DEF WellFormed, Idle
  <2>3. QED
    BY <1>1, <1>m, <2>1, <2>2 DEF LoginCredentials
<1>2. ASSUME NEW w \in Workers, NEW t \in Rows, RefreshLookup(r, w, t)
      PROVE  SessionTypeInv'
  <2> DEFINE new == [Idle EXCEPT !.op = "refresh", !.pc = "lookup", !.worker = w,
                                 !.sub = refresh[t].subject, !.row = t]
  <2>1. refresh[t].subject \in Subjects
    BY <1>2, <1>t DEF RefreshLookup, RowsHaveSubjects
  <2>2. new \in Request
    BY <2>1 DEF Idle, Request, Roles, Statuses
  <2>3. WellFormed(new) /\ new.row = t /\ refresh[t].state # "unused"
    BY <1>2, <2>1 DEF WellFormed, Idle, RefreshLookup
  <2>4. QED
    BY <1>2, <1>m, <2>2, <2>3 DEF RefreshLookup
<1>3. CASE RefreshConsume(r)
  <2> DEFINE new == [req[r] EXCEPT !.pc = "consumed"]
             row == [refresh[req[r].row] EXCEPT !.holder = r]
  <2>1. new \in Request /\ new.row = req[r].row
    BY <1>t DEF Request
  <2>2. WellFormed(new)
    BY <1>3, <1>t DEF WellFormed, Request, RefreshConsume
  <2>3. req' = [req EXCEPT ![r] = new] /\ refresh' = [refresh EXCEPT ![req[r].row] = row]
    BY <1>3 DEF RefreshConsume
  <2>4. req[r].row \in Rows /\ refresh[req[r].row] \in RefreshRow
    BY <1>3, <1>t DEF RefreshConsume, WellFormed, TypeOK
  <2>5. row \in RefreshRow /\ row.state = refresh[req[r].row].state
        /\ row.subject = refresh[req[r].row].subject
    BY <2>4 DEF RefreshRow
  <2>6. refresh' \in [Rows -> RefreshRow]
    BY <1>t, <2>3, <2>5 DEF TypeOK
  <2>7. \A t \in Rows : /\ refresh'[t].state # "unused" => refresh'[t].subject \in Subjects
                        /\ refresh'[t].state = refresh[t].state
    BY <1>t, <2>3, <2>4, <2>5 DEF RowsHaveSubjects, TypeOK
  <2>8. QED
    BY <1>3, <1>t, <1>r, RequestTypes, <2>1, <2>2, <2>3, <2>6, <2>7
       DEF RefreshConsume, TypeOK, bounds
<1>4. CASE RefreshReused(r)
  BY <1>4, <1>m, <1>i DEF RefreshReused
<1>5. CASE RefreshAccount(r)
  <2> DEFINE new == [req[r] EXCEPT !.pc = "credentials", !.role = account[req[r].sub].role]
  <2>1. req' = [req EXCEPT ![r] = new]
    BY <1>5 DEF RefreshAccount
  <2>2. account[req[r].sub] \in Account
    BY <1>5, <1>t DEF RefreshAccount, WellFormed, TypeOK
  <2>3. new \in Request /\ new.row = req[r].row
    BY <1>t, <2>2 DEF Request, Account
  <2>4. WellFormed(new)
    BY <1>5, <1>t DEF WellFormed, Request, RefreshAccount
  <2>5. QED
    BY <1>5, <1>m, <1>r, <2>1, <2>3, <2>4 DEF RefreshAccount
<1>6. CASE CheckOrg(r)
  <2> DEFINE new == [req[r] EXCEPT !.pc = "issue"]
  <2>1. new \in Request /\ new.row = req[r].row
    BY <1>t DEF Request
  <2>2. WellFormed(new)
    BY <1>6, <1>t DEF WellFormed, Request, CheckOrg
  <2>3. QED
    BY <1>6, <1>m, <1>r, <2>1, <2>2 DEF CheckOrg
<1>7. CASE Fail(r)
  <2>1. /\ refresh' \in [Rows -> RefreshRow]
        /\ \A t \in Rows : /\ refresh'[t].state # "unused" => refresh'[t].subject \in Subjects
                           /\ refresh'[t].state = refresh[t].state
    BY <1>7, <1>t, RolledBackType DEF Fail, RowsHaveSubjects
  <2>2. QED
    BY <1>7, <1>t, <1>i, <2>1, RequestTypes DEF Fail, TypeOK, bounds
<1>8. ASSUME NEW t \in Rows, IssuePair(r, t)
      PROVE  SessionTypeInv'
  <2> DEFINE new == [req[r] EXCEPT !.pc = "commit", !.new = t]
             row == [refresh[t] EXCEPT !.holder = r, !.expires = now + RefreshTTL]
             tok == [sub |-> req[r].sub, role |-> req[r].role, iat |-> now]
  <2>1. req' = [req EXCEPT ![r] = new] /\ refresh' = [refresh EXCEPT ![t] = row]
        /\ access' = access \cup {tok} /\ req[r].pc = "issue"
        /\ UNCHANGED <<now, account, orgStatus, cutoff, killed, bounds>>
        /\ refresh[t].state = "unused"
    BY <1>8 DEF IssuePair
  <2>2. new \in Request /\ new.row = req[r].row
    BY <1>t DEF Request
  <2>3. WellFormed(new)
    BY <1>t, <2>1, SessionsAssumption DEF WellFormed, Request
  <2>4. tok \in AccessToken
    BY <1>t, <2>1 DEF WellFormed, AccessToken, Request
  <2>e. now + RefreshTTL \in Nat
    BY <1>t, SessionsAssumption
  <2>5. row \in RefreshRow /\ row.state = "unused"
    BY <1>t, <2>1, <2>e DEF TypeOK, RefreshRow
  <2> HIDE DEF row, new, tok
  <2>6. refresh' \in [Rows -> RefreshRow]
    BY <1>t, <2>1, <2>5 DEF TypeOK
  <2>7. \A u \in Rows : /\ refresh'[u].state # "unused" => refresh'[u].subject \in Subjects
                        /\ refresh'[u].state = refresh[u].state
    BY <1>t, <2>1, <2>5 DEF TypeOK, RowsHaveSubjects
  <2>8. QED
    BY <1>t, <1>r, <2>1, <2>2, <2>3, <2>4, <2>6, <2>7, RequestTypes DEF TypeOK, bounds
<1>9. CASE CommitPair(r)
  <2> DEFINE issued(t) == [refresh[t] EXCEPT !.state = "valid", !.subject = req[r].sub,
                                             !.parent = req[r].row, !.holder = None]
             spent(t) == [refresh[t] EXCEPT !.state = "revoked", !.ended = "rotated",
                                            !.holder = None]
  <2>1. \A t \in Rows : refresh'[t] = IF t = req[r].new THEN issued(t)
                                     ELSE IF t = req[r].row THEN spent(t) ELSE refresh[t]
    BY <1>9 DEF CommitPair
  <2>2. DOMAIN refresh' = Rows /\ refresh' = [t \in Rows |-> refresh'[t]]
    BY <1>9 DEF CommitPair
  <2>3. req[r].sub \in Subjects /\ req[r].row \in Rows \cup {None}
    BY <1>9, <1>t DEF CommitPair, WellFormed, Request
  <2>4. \A t \in Rows : issued(t) \in RefreshRow /\ issued(t).subject \in Subjects
                        /\ issued(t).state = "valid"
    BY <1>t, <2>3 DEF TypeOK, RefreshRow
  <2>5. \A t \in Rows : spent(t) \in RefreshRow /\ spent(t).subject = refresh[t].subject
                        /\ spent(t).state = "revoked"
    BY <1>t DEF TypeOK, RefreshRow
  <2> HIDE DEF issued, spent
  <2>6. refresh' \in [Rows -> RefreshRow]
    BY <1>t, <2>1, <2>2, <2>4, <2>5 DEF TypeOK
  <2>7. \A t \in Rows : /\ refresh'[t].state # "unused" => refresh'[t].subject \in Subjects
                        /\ refresh'[t].state = "unused" => refresh[t].state = "unused"
    BY <1>t, <1>r, <2>1, <2>4, <2>5 DEF RowsHaveSubjects
  <2>8. QED
    BY <1>9, <1>t, <1>i, <2>6, <2>7, RequestTypes DEF CommitPair, TypeOK, bounds
<1>10. ASSUME NEW w \in Workers, NEW t \in Rows, Logout(r, w, t)
       PROVE  SessionTypeInv'
  <2> DEFINE row == [refresh[t] EXCEPT !.holder = r]
             new == [Idle EXCEPT !.op = "logout", !.pc = "commit", !.worker = w,
                                 !.row = IF refresh[t].state = "valid" THEN t ELSE None]
  <2>1. /\ refresh' = IF refresh[t].state = "valid" THEN [refresh EXCEPT ![t] = row]
                      ELSE refresh
        /\ refresh[t].state # "unused" /\ RevokeOn(w, refresh[t].subject)
        /\ req' = [req EXCEPT ![r] = new]
        /\ UNCHANGED <<now, account, orgStatus, access, bounds>>
    BY <1>10 DEF Logout
  <2>2. refresh[t].subject \in Keys
    BY <1>t, <2>1 DEF RowsHaveSubjects, Keys
  <2>3. /\ cutoff' \in [Workers -> [Keys -> Nat \cup {Never}]]
        /\ killed' \in [Workers -> SUBSET AccessToken]
    BY <1>t, <2>1, <2>2, RevokeOnType
  <2>4. new \in Request
    BY DEF Idle, Request, Roles, Statuses
  <2>5. WellFormed(new) /\ (new.row \in Rows => new.row = t)
    BY SessionsAssumption DEF WellFormed, Idle
  <2>6. row \in RefreshRow /\ row.state = refresh[t].state /\ row.subject = refresh[t].subject
    BY <1>t DEF TypeOK, RefreshRow
  <2> HIDE DEF new, row
  <2>7. refresh' \in [Rows -> RefreshRow]
    BY <1>t, <2>1, <2>6 DEF TypeOK
  <2>8. \A u \in Rows : /\ refresh'[u].state # "unused" => refresh'[u].subject \in Subjects
                        /\ refresh'[u].state = refresh[u].state
    BY <1>t, <2>1, <2>6 DEF TypeOK, RowsHaveSubjects
  <2>9. QED
    BY <1>t, <2>1, <2>3, <2>4, <2>5, <2>7, <2>8, RequestTypes DEF TypeOK, bounds
<1>11. CASE CommitLogout(r)
  <2> DEFINE spent(t) == [refresh[t] EXCEPT !.state = "revoked", !.ended = "logout",
                                            !.holder = None]
  <2>1. /\ \A t \in Rows : refresh'[t] = IF t = req[r].row THEN spent(t) ELSE refresh[t]
        /\ refresh' = [t \in Rows |-> refresh'[t]]
    BY <1>11 DEF CommitLogout
  <2>2. \A t \in Rows : spent(t) \in RefreshRow /\ spent(t).subject = refresh[t].subject
                        /\ spent(t).state = "revoked"
    BY <1>t DEF TypeOK, RefreshRow
  <2> HIDE DEF spent
  <2>3. refresh' \in [Rows -> RefreshRow]
    BY <1>t, <2>1, <2>2 DEF TypeOK
  <2>4. \A t \in Rows : /\ refresh'[t].state # "unused" => refresh'[t].subject \in Subjects
                        /\ refresh'[t].state = "unused" => refresh[t].state = "unused"
    BY <1>t, <1>r, <2>1, <2>2 DEF RowsHaveSubjects
  <2>5. QED
    BY <1>11, <1>t, <1>i, <2>3, <2>4, RequestTypes DEF CommitLogout, TypeOK, bounds
\* A step that leaves the rows alone and may write the denylist, an account,
\* or the organization.
<1>n. ASSUME NEW new \in Request, WellFormed(new), req' = [req EXCEPT ![r] = new],
             new.row \notin Rows,
             UNCHANGED <<now, refresh, access, restarts>>,
             account' \in [Subjects -> Account], orgStatus' \in Statuses,
             cutoff' \in [Workers -> [Keys -> Nat \cup {Never}]],
             killed' \in [Workers -> SUBSET AccessToken],
             changes' \in 0..MaxChanges
      PROVE  SessionTypeInv'
  <2>1. \A t \in Rows : refresh'[t].state # "unused" => refresh'[t].subject \in Subjects
    BY <1>t, <1>n DEF RowsHaveSubjects
  <2>2. QED
    BY <1>t, <1>n, <2>1, RequestTypes DEF TypeOK
<1>c. changes < MaxChanges => changes + 1 \in 0..MaxChanges
  BY <1>t, SessionsAssumption DEF TypeOK
<1>12. ASSUME NEW w \in Workers, NEW u \in CompanyUsers, NEW active \in BOOLEAN,
              NEW role \in {"company_admin", "member"}, ChangeAccount(r, w, u, role, active)
       PROVE  SessionTypeInv'
  <2> DEFINE new == [Idle EXCEPT !.op = "account", !.pc = "commit", !.worker = w,
                                 !.sub = u, !.role = role, !.active = active]
  <2>1. new \in Request
    BY DEF Idle, Request, Roles, Statuses, Subjects
  <2>2. WellFormed(new) /\ new.row \notin Rows
    BY SessionsAssumption DEF WellFormed, Idle, Subjects
  <2>3. /\ cutoff' \in [Workers -> [Keys -> Nat \cup {Never}]]
        /\ killed' \in [Workers -> SUBSET AccessToken]
    <3>1. u \in Keys
      BY DEF Keys, Subjects
    <3>2. RevokeOn(w, u) \/ UNCHANGED <<cutoff, killed>>
      BY <1>12 DEF ChangeAccount
    <3>3. QED
      BY <1>t, <3>1, <3>2, RevokeOnType DEF TypeOK
  <2>4. QED
    BY <1>12, <1>t, <1>n, <1>c, <2>1, <2>2, <2>3 DEF ChangeAccount, TypeOK
<1>13. CASE CommitAccount(r)
  <2>1. req[r].sub \in Subjects /\ [role |-> req[r].role, active |-> req[r].active] \in Account
    BY <1>13, <1>t DEF CommitAccount, WellFormed, Request, Account
  <2>2. account' \in [Subjects -> Account]
    BY <1>13, <1>t, <2>1 DEF CommitAccount, TypeOK
  <2>3. QED
    BY <1>13, <1>t, <1>i, <1>n, <2>2 DEF CommitAccount, TypeOK, bounds
<1>14. ASSUME NEW w \in Workers, NEW status \in Statuses, SetStatus(r, w, status)
       PROVE  SessionTypeInv'
  <2> DEFINE new == [Idle EXCEPT !.op = "org", !.pc = "commit", !.worker = w,
                                 !.status = IF status = orgStatus THEN "keep" ELSE status]
  <2>1. new \in Request
    BY DEF Idle, Request, Roles, Statuses
  <2>2. WellFormed(new) /\ new.row \notin Rows
    BY SessionsAssumption DEF WellFormed, Idle
  <2>3. /\ cutoff' \in [Workers -> [Keys -> Nat \cup {Never}]]
        /\ killed' \in [Workers -> SUBSET AccessToken]
    <3>1. Org \in Keys
      BY DEF Keys
    <3>2. RevokeOn(w, Org) \/ UNCHANGED <<cutoff, killed>>
      BY <1>14 DEF SetStatus
    <3>3. QED
      BY <1>t, <3>1, <3>2, RevokeOnType DEF TypeOK
  <2>4. QED
    BY <1>14, <1>t, <1>n, <1>c, <2>1, <2>2, <2>3 DEF SetStatus, TypeOK
<1>15. CASE CommitStatus(r)
  <2>1. req[r].status \in Statuses \cup {"keep"}
    BY <1>t DEF Request
  <2>2. QED
    BY <1>15, <1>t, <1>i, <1>n, <2>1 DEF CommitStatus, TypeOK, bounds
<1>16. QED
  BY <1>1, <1>2, <1>3, <1>4, <1>5, <1>6, <1>7, <1>8, <1>9, <1>10, <1>11, <1>12, <1>13,
     <1>14, <1>15 DEF Step

LEMMA TickTypes ==
    ASSUME SessionTypeInv, Tick
    PROVE  SessionTypeInv'
<1>1. TypeOK'
  BY SessionsAssumption DEF SessionTypeInv, TypeOK, Tick, bounds
<1>2. RequestShape' /\ RowsHaveSubjects'
  BY DEF SessionTypeInv, RequestShape, RowsHaveSubjects, WellFormed, Tick
<1>3. QED
  BY <1>1, <1>2 DEF SessionTypeInv

LEMMA RestartTypes ==
    ASSUME SessionTypeInv, NEW w \in Workers, Restart(w)
    PROVE  SessionTypeInv'
<1>t. TypeOK /\ RequestShape /\ RowsHaveSubjects
  BY DEF SessionTypeInv
<1>1. \A t \in Rows : refresh'[t] = refresh[t] \/ refresh'[t] = RolledBack(refresh[t].holder)[t]
  BY DEF Restart
<1>2. \A t \in Rows : /\ refresh'[t] \in RefreshRow
                      /\ refresh'[t].state = refresh[t].state
                      /\ refresh'[t].subject = refresh[t].subject
                         \/ refresh[t].state = "unused"
  <2> SUFFICES ASSUME NEW t \in Rows
               PROVE  /\ refresh'[t] \in RefreshRow
                      /\ refresh'[t].state = refresh[t].state
                      /\ refresh'[t].subject = refresh[t].subject
                         \/ refresh[t].state = "unused"
    OBVIOUS
  <2>1. CASE refresh'[t] = refresh[t]
    BY <1>t, <2>1 DEF TypeOK
  <2>2. CASE refresh'[t] = RolledBack(refresh[t].holder)[t]
    <3> DEFINE h == refresh[t].holder
    <3>1. /\ RolledBack(h) \in [Rows -> RefreshRow]
          /\ RolledBack(h)[t].state = refresh[t].state
          /\ RolledBack(h)[t].subject = refresh[t].subject \/ refresh[t].state = "unused"
      BY <1>t, RolledBackType
    <3>2. QED
      BY <2>2, <3>1
  <2>3. QED
    BY <1>1, <2>1, <2>2
<1>3. refresh' \in [Rows -> RefreshRow]
  BY <1>2 DEF Restart
<1>4. \A r \in Requests : req'[r] = Idle \/ req'[r] = req[r]
  BY DEF Restart
<1>5. req' \in [Requests -> Request]
  BY <1>t, <1>4, IdleType DEF Restart, TypeOK
<1>6. cutoff' \in [Workers -> [Keys -> Nat \cup {Never}]]
  BY <1>t DEF Restart, TypeOK
<1>7. killed' \in [Workers -> SUBSET AccessToken]
  BY <1>t DEF Restart, TypeOK
<1>8. TypeOK'
  BY <1>t, <1>3, <1>5, <1>6, <1>7, SessionsAssumption DEF Restart, TypeOK
<1>9. RequestShape'
  BY <1>t, <1>4, IdleShape DEF RequestShape
<1>10. RowsHaveSubjects'
  BY <1>t, <1>2, <1>4, IdleShape, SessionsAssumption DEF RowsHaveSubjects
<1>11. QED
  BY <1>8, <1>9, <1>10 DEF SessionTypeInv

LEMMA NextTypes == SessionTypeInv /\ [Next]_vars => SessionTypeInv'
<1> SUFFICES ASSUME SessionTypeInv, [Next]_vars PROVE SessionTypeInv'
  OBVIOUS
<1>1. CASE UNCHANGED vars
  BY <1>1 DEF vars, SessionTypeInv, TypeOK, RequestShape, RowsHaveSubjects, WellFormed
<1>2. QED
  BY <1>1, TickTypes, RestartTypes, StepTypes DEF Next

\* Types, the shape of every request and the owner of every row hold
\* throughout (the inductive form of SessionTypes).
THEOREM SessionTypeInvariant == Spec => []SessionTypeInv
BY InitTypes, NextTypes, PTL DEF Spec

\* Every request, row, token and denylist stays of its kind.
THEOREM SessionTypes == Spec => []TypeOK
<1>1. SessionTypeInv => TypeOK
  BY DEF SessionTypeInv
<1>2. QED
  BY <1>1, SessionTypeInvariant, PTL

-----------------------------------------------------------------------------
(* The denylist *)

\* Revoking covers every token of the key, whose iat has come, and evicts
\* only cutoffs whose tokens have all expired.
LEMMA RevokeCovers ==
    ASSUME TypeOK, DenylistInv, NEW w \in Workers, NEW k \in Keys, RevokeOn(w, k),
           now' = now, access' = access
    PROVE  DenylistInv'
<1>n. now \in Nat /\ AccessTTL \in Nat
  BY SessionsAssumption DEF TypeOK
<1>1. \A tok \in access' : tok.iat <= now'
  BY DEF DenylistInv
<1>2. ASSUME NEW v \in Workers, NEW tok \in killed'[v]
      PROVE  tok \in access' /\ (IsExpired(tok)' \/ IsRevoked(tok, cutoff'[v]))
  <2>1. CASE v # w
    <3>1. cutoff'[v] = cutoff[v] /\ killed'[v] = killed[v]
      BY <2>1 DEF RevokeOn, TypeOK
    <3>2. tok \in access /\ (IsExpired(tok) \/ IsRevoked(tok, cutoff[v]))
      BY <1>2, <3>1 DEF DenylistInv
    <3>3. QED
      BY <3>1, <3>2 DEF IsExpired, IsRevoked
  <2>2. CASE v = w
    <3> DEFINE list == cutoff[w]
               next == Revoke(list, k)
    <3>1. cutoff'[w] = next /\ tok \in killed[w] \cup Covered(k)
      BY <1>2, <2>2 DEF RevokeOn, TypeOK
    <3>2. list \in [Keys -> Nat \cup {Never}] /\ tok \in AccessToken
      BY <3>1 DEF TypeOK, Covered
    <3>3. tok.sub \in Keys /\ Org \in Keys /\ tok.iat \in Nat /\ tok.sub \in Subjects
      BY <3>2 DEF AccessToken, Keys
    <3>4. \A j \in Keys : next[j] = IF j = k THEN now
                                    ELSE IF j \in SameDict(k) /\ list[j] < now - AccessTTL
                                    THEN Never ELSE list[j]
      BY DEF Revoke
    <3>5. CASE tok \in Covered(k)
      <4>1. tok.iat <= now
        BY <3>5 DEF Covered, DenylistInv
      <4>2. (k = Org /\ tok.sub \in CompanyUsers) \/ k = tok.sub
        BY <3>5 DEF Covered
      <4>3. next[k] = now
        BY <3>4
      <4>4. QED
        BY <2>2, <3>1, <3>5, <4>1, <4>2, <4>3 DEF IsRevoked, Covered
    <3>6. CASE tok \in killed[w]
      <4>1. tok \in access /\ (IsExpired(tok) \/ IsRevoked(tok, list))
        BY <3>6 DEF DenylistInv
      <4>2. CASE IsExpired(tok)
        BY <4>1, <4>2 DEF IsExpired
      <4>3. ASSUME NEW j \in Keys, tok.iat <= list[j]
            PROVE  IsExpired(tok) \/ tok.iat <= next[j]
        <5>1. list[j] \in Nat \cup {-1}
          BY <3>2 DEF Never
        <5>2. CASE next[j] = list[j]
          BY <4>3, <5>2
        <5>3. CASE j = k
          <6>1. tok.iat <= now
            BY <3>6 DEF DenylistInv
          <6>2. QED
            BY <3>4, <5>3, <6>1
        <5>4. CASE list[j] < now - AccessTTL
          BY <1>n, <3>3, <4>3, <5>1, <5>4 DEF IsExpired
        <5>5. QED
          BY <3>4, <5>2, <5>3, <5>4
      <4>4. QED
        BY <2>2, <3>1, <3>3, <4>1, <4>2, <4>3 DEF IsRevoked, IsExpired
    <3>7. QED
      BY <3>1, <3>5, <3>6
  <2>3. QED
    BY <2>1, <2>2
<1>3. QED
  BY <1>1, <1>2 DEF DenylistInv

\* Tokens the steps of a request add are issued now; nothing else of the
\* denylist's invariant changes.
LEMMA TokensAdded ==
    ASSUME TypeOK, DenylistInv, UNCHANGED <<now, cutoff, killed>>,
           access \subseteq access',
           \A tok \in access' : tok \in access \/ tok.iat = now
    PROVE  DenylistInv'
<1>n. now \in Nat
  BY SessionsAssumption DEF TypeOK
<1>1. \A tok \in access' : tok.iat <= now'
  BY <1>n DEF DenylistInv
<1>2. \A w \in Workers : \A tok \in killed'[w] :
        tok \in access' /\ (IsExpired(tok)' \/ IsRevoked(tok, cutoff'[w]))
  BY DEF DenylistInv, IsExpired, IsRevoked
<1>3. QED
  BY <1>1, <1>2 DEF DenylistInv

LEMMA DenylistStep == SessionTypeInv /\ DenylistInv /\ [Next]_vars => DenylistInv'
<1> SUFFICES ASSUME SessionTypeInv, DenylistInv, [Next]_vars PROVE DenylistInv'
  OBVIOUS
<1>t. TypeOK /\ RowsHaveSubjects
  BY DEF SessionTypeInv
<1>k. CompanyUsers \subseteq Keys /\ Subjects \subseteq Keys /\ Org \in Keys
  BY DEF Keys, Subjects
<1>1. CASE Tick
  <2>1. \A tok \in access : tok.iat \in Nat
    BY <1>t DEF TypeOK, AccessToken
  <2>2. now \in Nat /\ now' = now + 1 /\ AccessTTL \in Nat
    BY <1>1, <1>t, SessionsAssumption DEF Tick, TypeOK
  <2>3. access' = access /\ cutoff' = cutoff /\ killed' = killed
    BY <1>1 DEF Tick
  <2>4. \A tok \in access : tok.iat <= now'
    BY <2>1, <2>2 DEF DenylistInv
  <2>5. \A tok \in access : IsExpired(tok) => IsExpired(tok)'
    BY <2>1, <2>2 DEF IsExpired
  <2>6. \A tok, w : IsRevoked(tok, cutoff[w]) => IsRevoked(tok, cutoff'[w])
    BY <2>3
  <2>7. \A w \in Workers : \A tok \in killed'[w] :
          tok \in access' /\ (IsExpired(tok)' \/ IsRevoked(tok, cutoff'[w]))
    BY <2>3, <2>5, <2>6 DEF DenylistInv
  <2>8. QED
    BY <2>3, <2>4, <2>7 DEF DenylistInv
<1>2. ASSUME NEW w \in Workers, Restart(w) PROVE DenylistInv'
  <2>1. now' = now /\ access' = access
    BY <1>2 DEF Restart
  <2>2. ASSUME NEW v \in Workers, NEW tok \in killed'[v]
        PROVE  tok \in access /\ (IsExpired(tok) \/ IsRevoked(tok, cutoff'[v]))
    <3>1. v # w
      BY <1>t, <1>2, <2>2 DEF Restart, TypeOK
    <3>2. cutoff'[v] = cutoff[v] /\ killed'[v] = killed[v]
      BY <1>t, <1>2, <3>1 DEF Restart, TypeOK
    <3>3. QED
      BY <2>2, <3>2 DEF DenylistInv
  <2>3. QED
    BY <2>1, <2>2 DEF DenylistInv, IsExpired, IsRevoked
<1>3. ASSUME NEW r \in Requests, Step(r) PROVE DenylistInv'
  <2>1. CASE /\ UNCHANGED <<now, cutoff, killed>> /\ access \subseteq access'
             /\ \A tok \in access' : tok \in access \/ tok.iat = now
    BY <1>t, <2>1, TokensAdded
  <2>2. CASE /\ UNCHANGED <<now, access>>
             /\ (\E w \in Workers, k \in Keys : RevokeOn(w, k))
                \/ UNCHANGED <<cutoff, killed>>
    BY <1>t, <2>1, <2>2, RevokeCovers
  <2>3. ASSUME NEW w \in Workers, NEW t \in Rows, Logout(r, w, t)
        PROVE  DenylistInv'
    <3>1. refresh[t].subject \in Keys
      BY <1>t, <1>k, <2>3 DEF Logout, RowsHaveSubjects
    <3>2. QED
      BY <2>2, <2>3, <3>1 DEF Logout
  <2>4. ASSUME NEW w \in Workers, NEW u \in CompanyUsers, NEW active \in BOOLEAN,
               NEW role \in {"company_admin", "member"},
               ChangeAccount(r, w, u, role, active)
        PROVE  DenylistInv'
    BY <1>k, <2>2, <2>4 DEF ChangeAccount
  <2>5. ASSUME NEW w \in Workers, NEW status \in Statuses, SetStatus(r, w, status)
        PROVE  DenylistInv'
    BY <1>k, <2>2, <2>5 DEF SetStatus
  <2>6. ASSUME NEW t \in Rows, IssuePair(r, t) PROVE DenylistInv'
    BY <2>1, <2>6 DEF IssuePair
  <2>7. CASE \/ \E w \in Workers, s \in Subjects : LoginCredentials(r, w, s)
             \/ \E w \in Workers, t \in Rows : RefreshLookup(r, w, t)
             \/ RefreshConsume(r) \/ RefreshReused(r) \/ RefreshAccount(r)
             \/ CheckOrg(r) \/ Fail(r) \/ CommitPair(r) \/ CommitLogout(r)
             \/ CommitAccount(r) \/ CommitStatus(r)
    BY <2>1, <2>7 DEF LoginCredentials, RefreshLookup, RefreshConsume, RefreshReused,
       RefreshAccount, CheckOrg, Fail, CommitPair, CommitLogout, CommitAccount, CommitStatus
  <2>8. QED
    BY <1>3, <2>3, <2>4, <2>5, <2>6, <2>7 DEF Step
<1>4. CASE UNCHANGED vars
  BY <1>t, <1>4, TokensAdded DEF vars
<1>5. QED
  BY <1>1, <1>2, <1>3, <1>4 DEF Next

\* A worker that revoked a token rejects it until the token expires: whatever
\* cutoffs it evicts or raises, for any lifetimes and any order of requests.
THEOREM RevokedStaysRejected == Spec => []RevokedIsRejected
<1>1. Init => DenylistInv
  BY DEF Init, DenylistInv
<1>2. DenylistInv => RevokedIsRejected
  BY DEF DenylistInv, RevokedIsRejected, Accepted
<1>3. QED
  BY <1>1, <1>2, DenylistStep, SessionTypeInvariant, PTL DEF Spec

-----------------------------------------------------------------------------
(* Rotation *)

\* Steps that change no committed row but its holder keep every family of
\* tokens as it was.
LEMMA FamiliesKept ==
    ASSUME EndedIsRevoked, RotationIsSingleUse,
           \A t \in Rows : /\ refresh'[t].state = refresh[t].state
                           /\ refresh'[t].ended = refresh[t].ended
                           /\ refresh[t].state # "unused" =>
                                refresh'[t].parent = refresh[t].parent
    PROVE  EndedIsRevoked' /\ RotationIsSingleUse'
<1>1. EndedIsRevoked'
  BY DEF EndedIsRevoked
<1>2. \A t \in Rows : Successors(t)' = Successors(t)
  BY DEF Successors
<1>3. RotationIsSingleUse'
  BY <1>2 DEF RotationIsSingleUse
<1>4. QED
  BY <1>1, <1>3

\* A step of one request, from what it does to the rows it holds: those of
\* the others are left alone and none is taken from them.
LEMMA HeldByRequest ==
    ASSUME SessionTypeInv, RowsHeld, NEW r \in Requests, NEW new \in Request,
           req' = [req EXCEPT ![r] = new],
           \A t \in Rows : refresh[t].holder \notin {r, None} => refresh'[t] = refresh[t],
           \A t \in Rows : refresh'[t].holder \notin {r, None} => refresh'[t] = refresh[t],
           new.row # None /\ new.pc # "lookup" =>
               refresh'[new.row].holder = r /\ refresh'[new.row].state = "valid",
           new.new # None =>
               refresh'[new.new].holder = r /\ refresh'[new.new].state = "unused",
           \A t \in Rows : refresh'[t].holder = r =>
               (new.row # None /\ new.pc # "lookup" /\ new.row = t) \/ new.new = t
    PROVE  RowsHeld'
<1>t. /\ req \in [Requests -> Request] /\ None \notin Requests
      /\ \A q \in Requests : req[q].row \in Rows \cup {None} /\ req[q].new \in Rows \cup {None}
  BY SessionsAssumption DEF SessionTypeInv, TypeOK, Request
<1>1. req'[r] = new /\ \A q \in Requests \ {r} : req'[q] = req[q]
  BY <1>t
<1>2. ASSUME NEW q \in Requests
      PROVE  /\ HasRow(q)' => /\ refresh'[req'[q].row].holder = q
                              /\ refresh'[req'[q].row].state = "valid"
             /\ req'[q].new # None => /\ refresh'[req'[q].new].holder = q
                                      /\ refresh'[req'[q].new].state = "unused"
             /\ \A t \in Rows : refresh'[t].holder = q =>
                    (HasRow(q)' /\ req'[q].row = t) \/ req'[q].new = t
  <2>1. CASE q = r
    BY <1>1, <2>1 DEF HasRow
  <2>2. CASE q # r
    <3>1. req'[q] = req[q] /\ q \notin {r, None} /\ (HasRow(q)' <=> HasRow(q))
      BY <1>1, <1>t, <2>2 DEF HasRow
    <3>2. HasRow(q) => refresh[req[q].row].holder = q /\ refresh[req[q].row].state = "valid"
                       /\ req[q].row \in Rows
      BY <1>t DEF RowsHeld, HasRow
    <3>3. req[q].new # None => refresh[req[q].new].holder = q
                               /\ refresh[req[q].new].state = "unused" /\ req[q].new \in Rows
      BY <1>t DEF RowsHeld
    <3>4. \A t \in Rows : refresh[t].holder = q => (HasRow(q) /\ req[q].row = t) \/ req[q].new = t
      BY DEF RowsHeld
    <3>5. QED
      BY <3>1, <3>2, <3>3, <3>4
  <2>3. QED
    BY <2>1, <2>2
<1>3. QED
  BY <1>2 DEF RowsHeld

\* A request that is idle or only looked a row up holds none.
LEMMA HoldsNothing ==
    ASSUME SessionTypeInv, RowsHeld, NEW r \in Requests, req[r].pc \in {"idle", "lookup"}
    PROVE  \A t \in Rows : refresh[t].holder # r
<1>1. WellFormed(req[r])
  BY DEF SessionTypeInv, RequestShape
<1>2. ~HasRow(r) /\ req[r].new = None
  BY <1>1 DEF WellFormed, HasRow
<1>3. QED
  BY <1>2, SessionsAssumption DEF RowsHeld

\* RolledBack undoes only what the request holds.
LEMMA RolledBackKeeps ==
    ASSUME TypeOK, EndedIsRevoked, NEW r \in Requests, NEW t \in Rows
    PROVE  /\ RolledBack(r)[t].state = refresh[t].state
           /\ RolledBack(r)[t].ended = refresh[t].ended
           /\ refresh[t].state # "unused" => RolledBack(r)[t].parent = refresh[t].parent
           /\ refresh[t].holder # r => RolledBack(r)[t] = refresh[t]
           /\ refresh[t].holder = r => RolledBack(r)[t].holder = None
<1>1. refresh[t] \in RefreshRow
  BY DEF TypeOK
<1>2. refresh[t].state = "unused" => refresh[t].ended = "no"
  BY DEF EndedIsRevoked
<1>3. CASE refresh[t].holder # r
  BY <1>3, SessionsAssumption DEF RolledBack
<1>4. CASE refresh[t].holder = r /\ refresh[t].state = "unused"
  BY <1>2, <1>4 DEF RolledBack, UnusedRow
<1>5. CASE refresh[t].holder = r /\ refresh[t].state # "unused"
  <2>1. RolledBack(r)[t] = [refresh[t] EXCEPT !.holder = None]
    BY <1>5 DEF RolledBack
  <2>2. QED
    BY <1>1, <1>5, <2>1 DEF RefreshRow
<1>6. QED
  BY <1>3, <1>4, <1>5

LEMMA RotationStep ==
    ASSUME SessionTypeInv, RotationInv, NEW r \in Requests, Step(r)
    PROVE  RotationInv'
<1>t. /\ TypeOK /\ RowsHaveSubjects /\ RowsHeld /\ EndedIsRevoked /\ RotationIsSingleUse
      /\ req[r] \in Request /\ WellFormed(req[r]) /\ None \notin Rows \cup Requests
      /\ req \in [Requests -> Request]
  BY SessionsAssumption DEF SessionTypeInv, RotationInv, TypeOK, RequestShape
<1>i. Idle \in Request /\ Idle.row = None /\ Idle.new = None
  BY IdleType, IdleShape
<1>h. \A t \in Rows : refresh[t].holder = r => (HasRow(r) /\ req[r].row = t) \/ req[r].new = t
  BY <1>t DEF RowsHeld
<1>o. /\ HasRow(r) => refresh[req[r].row].holder = r /\ refresh[req[r].row].state = "valid"
      /\ req[r].new # None => refresh[req[r].new].holder = r
                              /\ refresh[req[r].new].state = "unused"
  BY <1>t DEF RowsHeld
\* A step that leaves the rows alone and keeps what the request holds.
<1>m. ASSUME NEW new \in Request, req' = [req EXCEPT ![r] = new], refresh' = refresh,
             new.new = None,
             \/ /\ new.row = None \/ new.pc = "lookup"
                /\ req[r].pc \in {"idle", "lookup"}
             \/ /\ new.row = req[r].row /\ new.pc # "lookup" /\ req[r].pc # "lookup"
                /\ req[r].new = None
             \/ /\ new.row = None /\ req[r].row = None /\ req[r].new = None
      PROVE  RotationInv'
  <2>1. EndedIsRevoked' /\ RotationIsSingleUse'
    BY <1>t, <1>m, FamiliesKept
  <2>2. /\ new.row # None /\ new.pc # "lookup" =>
             refresh'[new.row].holder = r /\ refresh'[new.row].state = "valid"
        /\ \A t \in Rows : refresh'[t].holder = r =>
             (new.row # None /\ new.pc # "lookup" /\ new.row = t) \/ new.new = t
    BY <1>t, <1>m, <1>h, <1>o, HoldsNothing DEF HasRow
  <2>3. RowsHeld'
    BY <1>t, <1>m, <2>2, HeldByRequest
  <2>4. QED
    BY <2>1, <2>3 DEF RotationInv
<1>1. ASSUME NEW w \in Workers, NEW s \in Subjects, LoginCredentials(r, w, s)
      PROVE  RotationInv'
  <2> DEFINE new == [Idle EXCEPT !.op = "login", !.pc = "credentials", !.worker = w,
                                 !.sub = s, !.role = account[s].role]
  <2>1. new \in Request /\ new.row = None /\ new.new = None
    BY <1>t DEF Idle, Request, TypeOK, Account, Statuses
  <2>2. QED
    BY <1>1, <1>m, <2>1 DEF LoginCredentials
<1>2. ASSUME NEW w \in Workers, NEW t \in Rows, RefreshLookup(r, w, t)
      PROVE  RotationInv'
  <2> DEFINE new == [Idle EXCEPT !.op = "refresh", !.pc = "lookup", !.worker = w,
                                 !.sub = refresh[t].subject, !.row = t]
  <2>1. new \in Request /\ new.pc = "lookup" /\ new.new = None
    BY <1>t DEF Idle, Request, Roles, Statuses, TypeOK, RefreshRow
  <2>2. QED
    BY <1>2, <1>m, <2>1 DEF RefreshLookup
<1>3. CASE RefreshConsume(r)
  <2> DEFINE p == req[r].row
             row == [refresh[p] EXCEPT !.holder = r]
  <2>1. /\ req' = [req EXCEPT ![r] = [req[r] EXCEPT !.pc = "consumed"]] /\ refresh' = [refresh EXCEPT ![p] = row]
        /\ refresh[p].holder = None /\ refresh[p].state = "valid" /\ req[r].pc = "lookup"
    BY <1>3 DEF RefreshConsume
  <2>2. p \in Rows /\ refresh[p] \in RefreshRow
    BY <1>3, <1>t DEF RefreshConsume, WellFormed, TypeOK
  <2>3. PICK new \in Request : /\ req' = [req EXCEPT ![r] = new]
                               /\ new.row = p /\ new.pc = "consumed" /\ new.new = None
    <3> DEFINE q == [req[r] EXCEPT !.pc = "consumed"]
    <3>1. q \in Request /\ q.row = p /\ q.pc = "consumed" /\ q.new = None
      BY <1>t, <2>1 DEF Request, WellFormed
    <3>2. QED
      BY <2>1, <3>1
  <2>4. row.holder = r /\ row.state = refresh[p].state /\ row.ended = refresh[p].ended
        /\ row.parent = refresh[p].parent
    BY <2>2 DEF RefreshRow
  <2> HIDE DEF row
  <2>5. refresh'[p] = row /\ \A t \in Rows \ {p} : refresh'[t] = refresh[t]
    BY <1>t, <2>1, <2>2 DEF TypeOK
  <2>6. EndedIsRevoked' /\ RotationIsSingleUse'
    BY <1>t, <2>4, <2>5, FamiliesKept
  <2>7. \A t \in Rows : refresh[t].holder # r
    BY <2>1, HoldsNothing, <1>t
  <2>a. \A u \in Rows : /\ refresh[u].holder \notin {r, None} => refresh'[u] = refresh[u]
                        /\ refresh'[u].holder \notin {r, None} => refresh'[u] = refresh[u]
    BY <1>t, <2>1, <2>4, <2>5
  <2>b. \A u \in Rows : refresh'[u].holder = r =>
               (new.row # None /\ new.pc # "lookup" /\ new.row = u) \/ new.new = u
    BY <1>t, <2>2, <2>3, <2>5, <2>7
  <2>c. refresh'[new.row].holder = r /\ refresh'[new.row].state = "valid"
    BY <2>1, <2>3, <2>4, <2>5
  <2>8. RowsHeld'
    <3>1. RowsHeld /\ new \in Request /\ req' = [req EXCEPT ![r] = new]
      BY <1>t, <2>3
    <3>2. \A u \in Rows : refresh[u].holder \notin {r, None} => refresh'[u] = refresh[u]
      BY <2>a
    <3>3. \A u \in Rows : refresh'[u].holder \notin {r, None} => refresh'[u] = refresh[u]
      BY <2>a
    <3>4. new.row # None /\ new.pc # "lookup" =>
               refresh'[new.row].holder = r /\ refresh'[new.row].state = "valid"
      BY <2>c
    <3>5. new.new # None =>
               refresh'[new.new].holder = r /\ refresh'[new.new].state = "unused"
      BY <2>3, <2>c
    <3>6. \A u \in Rows : refresh'[u].holder = r =>
               (new.row # None /\ new.pc # "lookup" /\ new.row = u) \/ new.new = u
      BY <2>b
    <3>7. QED
      BY <3>1, <3>2, <3>3, <3>4, <3>5, <3>6, HeldByRequest
  <2>9. QED
    BY <2>6, <2>8 DEF RotationInv
<1>4. CASE RefreshReused(r)
  BY <1>4, <1>m, <1>i DEF RefreshReused
<1>5. CASE RefreshAccount(r)
  <2> DEFINE new == [req[r] EXCEPT !.pc = "credentials", !.role = account[req[r].sub].role]
  <2>1. req' = [req EXCEPT ![r] = new] /\ req[r].pc = "consumed" /\ refresh' = refresh
    BY <1>5 DEF RefreshAccount
  <2>2. account[req[r].sub] \in Account
    BY <1>t, <2>1 DEF WellFormed, TypeOK
  <2>3. new \in Request /\ new.row = req[r].row /\ new.pc = "credentials" /\ new.new = None
        /\ req[r].new = None
    BY <1>t, <2>1, <2>2 DEF Request, Account, WellFormed
  <2>4. QED
    BY <1>m, <2>1, <2>3
<1>6. CASE CheckOrg(r)
  <2> DEFINE new == [req[r] EXCEPT !.pc = "issue"]
  <2>1. req' = [req EXCEPT ![r] = new] /\ req[r].pc = "credentials" /\ refresh' = refresh
    BY <1>6 DEF CheckOrg
  <2>2. new \in Request /\ new.row = req[r].row /\ new.pc = "issue" /\ new.new = None
        /\ req[r].new = None
    BY <1>t, <2>1 DEF Request, WellFormed
  <2>3. QED
    BY <1>m, <2>1, <2>2
<1>7. CASE Fail(r)
  <2>1. refresh' = RolledBack(r) /\ req' = [req EXCEPT ![r] = Idle]
    BY <1>7 DEF Fail
  <2>2. \A t \in Rows : /\ refresh'[t].state = refresh[t].state
                        /\ refresh'[t].ended = refresh[t].ended
                        /\ refresh[t].state # "unused" =>
                             refresh'[t].parent = refresh[t].parent
                        /\ refresh[t].holder # r => refresh'[t] = refresh[t]
                        /\ refresh[t].holder = r => refresh'[t].holder = None
    BY <1>t, <2>1, RolledBackKeeps
  <2>3. EndedIsRevoked' /\ RotationIsSingleUse'
    BY <1>t, <2>2, FamiliesKept
  <2>a. \A u \in Rows : /\ refresh[u].holder \notin {r, None} => refresh'[u] = refresh[u]
                        /\ refresh'[u].holder \notin {r, None} => refresh'[u] = refresh[u]
    BY <1>t, <2>2
  <2>b. \A u \in Rows : refresh'[u].holder # r
    BY <1>t, <2>2
  <2>4. RowsHeld'
    BY <1>t, <1>i, <2>1, <2>a, <2>b, HeldByRequest
  <2>5. QED
    BY <2>3, <2>4 DEF RotationInv
<1>8. ASSUME NEW t \in Rows, IssuePair(r, t)
      PROVE  RotationInv'
  <2> DEFINE row == [refresh[t] EXCEPT !.holder = r, !.expires = now + RefreshTTL]
  <2>1. /\ req' = [req EXCEPT ![r] = [req[r] EXCEPT !.pc = "commit", !.new = t]]
        /\ refresh' = [refresh EXCEPT ![t] = row]
        /\ refresh[t].state = "unused" /\ refresh[t].holder = None /\ req[r].pc = "issue"
    BY <1>8 DEF IssuePair
  <2>2. PICK new \in Request :
             /\ req' = [req EXCEPT ![r] = new] /\ new.row = req[r].row
             /\ new.pc = "commit" /\ new.new = t /\ req[r].new = None
    <3> DEFINE q == [req[r] EXCEPT !.pc = "commit", !.new = t]
    <3>1. /\ q \in Request /\ q.row = req[r].row /\ q.pc = "commit" /\ q.new = t
          /\ req[r].new = None
      BY <1>t, <2>1 DEF Request, WellFormed
    <3>2. QED
      BY <2>1, <3>1
  <2>3. refresh[t] \in RefreshRow
    BY <1>t DEF TypeOK
  <2>4. row.holder = r /\ row.state = "unused" /\ row.ended = refresh[t].ended
    BY <2>1, <2>3 DEF RefreshRow
  <2> HIDE DEF row
  <2>5. refresh'[t] = row /\ \A u \in Rows \ {t} : refresh'[u] = refresh[u]
    BY <1>t, <2>1 DEF TypeOK
  <2>6. EndedIsRevoked' /\ RotationIsSingleUse'
    BY <1>t, <2>1, <2>4, <2>5, FamiliesKept
  <2>7. HasRow(r) <=> new.row # None /\ new.pc # "lookup"
    BY <2>1, <2>2 DEF HasRow
  <2>8. new.row # None => new.row \in Rows /\ new.row # t
                          /\ refresh'[new.row] = refresh[new.row]
    BY <1>o, <1>t, <2>1, <2>2, <2>5, <2>7 DEF Request
  <2>9. new.row # None => refresh'[new.row].holder = r /\ refresh'[new.row].state = "valid"
    BY <1>o, <2>2, <2>7, <2>8
  <2>10. \A u \in Rows : refresh'[u].holder = r =>
               (new.row # None /\ new.pc # "lookup" /\ new.row = u) \/ new.new = u
    BY <1>h, <1>t, <2>2, <2>5, <2>7
  <2>a. \A u \in Rows : /\ refresh[u].holder \notin {r, None} => refresh'[u] = refresh[u]
                        /\ refresh'[u].holder \notin {r, None} => refresh'[u] = refresh[u]
    BY <1>t, <2>1, <2>4, <2>5
  <2>c. refresh'[new.new].holder = r /\ refresh'[new.new].state = "unused"
    BY <2>2, <2>4, <2>5
  <2>11. RowsHeld'
    <3>1. RowsHeld /\ new \in Request /\ req' = [req EXCEPT ![r] = new]
      BY <1>t, <2>2
    <3>2. \A u \in Rows : refresh[u].holder \notin {r, None} => refresh'[u] = refresh[u]
      BY <2>a
    <3>3. \A u \in Rows : refresh'[u].holder \notin {r, None} => refresh'[u] = refresh[u]
      BY <2>a
    <3>4. new.row # None /\ new.pc # "lookup" =>
               refresh'[new.row].holder = r /\ refresh'[new.row].state = "valid"
      BY <2>9
    <3>5. new.new # None =>
               refresh'[new.new].holder = r /\ refresh'[new.new].state = "unused"
      BY <2>2, <2>c
    <3>6. \A u \in Rows : refresh'[u].holder = r =>
               (new.row # None /\ new.pc # "lookup" /\ new.row = u) \/ new.new = u
      BY <2>10
    <3>7. QED
      BY <3>1, <3>2, <3>3, <3>4, <3>5, <3>6, HeldByRequest
  <2>12. QED
    BY <2>6, <2>11 DEF RotationInv
\* A commit or a roll-back ends with the request idle and its rows free.
<1>f. ASSUME req' = [req EXCEPT ![r] = Idle],
             \A u \in Rows : refresh[u].holder # r => refresh'[u] = refresh[u],
             \A u \in Rows : refresh[u].holder = r => refresh'[u].holder = None
      PROVE  RowsHeld'
  <2>1. \A u \in Rows : refresh[u].holder \notin {r, None} => refresh'[u] = refresh[u]
    BY <1>f
  <2>2. \A u \in Rows : refresh'[u].holder \notin {r, None} => refresh'[u] = refresh[u]
    BY <1>f
  <2>3. \A u \in Rows : refresh'[u].holder # r
    BY <1>f, <1>t
  <2>4. QED
    BY <1>t, <1>i, <1>f, <2>1, <2>2, <2>3, HeldByRequest
<1>9. CASE CommitPair(r)
  <2>p. PICK n, p : n = req[r].new /\ p = req[r].row
    OBVIOUS
  <2> DEFINE issued == [refresh[n] EXCEPT !.state = "valid", !.subject = req[r].sub,
                                               !.parent = p, !.holder = None]
             spent == [refresh[p] EXCEPT !.state = "revoked", !.ended = "rotated",
                                         !.holder = None]
  <2>1. /\ \A t \in Rows : refresh'[t] = IF t = n THEN issued
                                        ELSE IF t = p THEN spent ELSE refresh[t]
        /\ req' = [req EXCEPT ![r] = Idle]
        /\ req[r].op \in {"login", "refresh"} /\ req[r].pc = "commit"
    BY <1>9, <2>p DEF CommitPair
  <2>2. n \in Rows /\ p \in Rows \cup {None} /\ (HasRow(r) <=> p # None)
    BY <1>t, <2>1, <2>p DEF WellFormed, Request, HasRow
  <2>3. /\ refresh[n].holder = r /\ refresh[n].state = "unused" /\ refresh[n].ended = "no"
        /\ n # p
        /\ p \in Rows => /\ refresh[p].holder = r /\ refresh[p].state = "valid"
                         /\ refresh[p].ended = "no"
    BY <1>t, <1>o, <2>2, <2>p DEF EndedIsRevoked
  <2>4. issued.state = "valid" /\ issued.ended = "no" /\ issued.parent = p
        /\ issued.holder = None
    BY <1>t, <2>2, <2>3 DEF TypeOK, RefreshRow
  <2>5. p \in Rows => /\ spent.state = "revoked" /\ spent.ended = "rotated"
                      /\ spent.holder = None /\ spent.parent = refresh[p].parent
    BY <1>t DEF TypeOK, RefreshRow
  <2> HIDE DEF issued, spent
  <2>6. RowsHeld'
    <3>1. \A u \in Rows : refresh[u].holder # r => refresh'[u] = refresh[u]
      BY <2>1, <2>2, <2>3
    <3>2. \A u \in Rows : refresh[u].holder = r => refresh'[u].holder = None
      BY <1>h, <2>p, <2>1, <2>2, <2>4, <2>5
    <3>3. QED
      BY <1>f, <2>1, <3>1, <3>2
  <2>7. EndedIsRevoked'
    BY <1>t, <2>1, <2>2, <2>4, <2>5 DEF EndedIsRevoked
  <2>8. /\ \A t \in Rows \ {p} : Successors(t)' = Successors(t)
        /\ p \in Rows => Successors(p)' = Successors(p) \cup {n}
    <3>1. ASSUME NEW t \in Rows, NEW c \in Rows \ {n}
          PROVE  c \in Successors(t)' <=> c \in Successors(t)
      BY <2>1, <2>2, <2>3, <2>5 DEF Successors
    <3>2. ASSUME NEW t \in Rows
          PROVE  n \notin Successors(t) /\ (n \in Successors(t)' <=> t = p)
      BY <2>1, <2>2, <2>3, <2>4 DEF Successors
    <3>3. \A t \in Rows : Successors(t) \subseteq Rows /\ Successors(t)' \subseteq Rows
      BY DEF Successors
    <3>4. ASSUME NEW t \in Rows, t # p
          PROVE  Successors(t)' = Successors(t)
      <4>1. \A c : c \in Successors(t)' <=> c \in Successors(t)
        BY <3>1, <3>2, <3>3, <3>4
      <4>2. QED
        BY <4>1
    <3>5. ASSUME p \in Rows
          PROVE  Successors(p)' = Successors(p) \cup {n}
      <4>1. \A c : c \in Successors(p)' <=> c \in Successors(p) \cup {n}
        BY <2>2, <3>1, <3>2, <3>3, <3>5
      <4>2. QED
        BY <4>1
    <3>6. QED
      BY <3>4, <3>5
  <2>9. RotationIsSingleUse'
    <3> SUFFICES ASSUME NEW t \in Rows
                 PROVE  IF refresh'[t].ended = "rotated"
                        THEN \E c \in Rows : Successors(t)' = {c}
                        ELSE Successors(t)' = {}
      BY DEF RotationIsSingleUse
    <3>1. CASE t = p
      <4>1. Successors(p) = {}
        BY <1>t, <2>3, <3>1 DEF RotationIsSingleUse
      <4>2. Successors(p)' = {n}
        BY <2>8, <3>1, <4>1
      <4>3. refresh'[p].ended = "rotated"
        BY <2>1, <2>3, <2>5, <3>1
      <4>4. QED
        BY <2>2, <3>1, <4>2, <4>3
    <3>2. CASE t # p
      <4>1. refresh'[t].ended = refresh[t].ended
        BY <2>1, <2>3, <2>4, <3>2
      <4>2. QED
        BY <1>t, <2>8, <3>2, <4>1 DEF RotationIsSingleUse
    <3>3. QED
      BY <3>1, <3>2
  <2>10. QED
    BY <2>6, <2>7, <2>9 DEF RotationInv
<1>10. ASSUME NEW w \in Workers, NEW t \in Rows, Logout(r, w, t)
       PROVE  RotationInv'
  <2> DEFINE row == [refresh[t] EXCEPT !.holder = r]
             entry == IF refresh[t].state = "valid" THEN t ELSE None
  <2>1. /\ refresh' = IF refresh[t].state = "valid" THEN [refresh EXCEPT ![t] = row]
                      ELSE refresh
        /\ refresh[t].holder = None /\ req[r].pc = "idle"
        /\ req' = [req EXCEPT ![r] = [Idle EXCEPT !.op = "logout", !.pc = "commit",
                                                  !.worker = w, !.row = entry]]
    BY <1>10 DEF Logout
  <2>2. PICK new \in Request : /\ req' = [req EXCEPT ![r] = new] /\ new.row = entry
                               /\ new.new = None /\ new.pc = "commit"
    <3> DEFINE q == [Idle EXCEPT !.op = "logout", !.pc = "commit", !.worker = w,
                                 !.row = entry]
    <3>1. q \in Request /\ q.row = entry /\ q.new = None /\ q.pc = "commit"
      BY DEF Idle, Request, Roles, Statuses
    <3>2. QED
      BY <2>1, <3>1
  <2>3. CASE refresh[t].state # "valid"
    BY <1>m, <2>1, <2>2, <2>3
  <2>4. CASE refresh[t].state = "valid"
    <3>1. row.holder = r /\ row.state = "valid" /\ row.ended = refresh[t].ended
          /\ row.parent = refresh[t].parent
      BY <1>t, <2>4 DEF TypeOK, RefreshRow
    <3> HIDE DEF row
    <3>2. refresh'[t] = row /\ \A u \in Rows \ {t} : refresh'[u] = refresh[u]
      BY <1>t, <2>1, <2>4 DEF TypeOK
    <3>3. EndedIsRevoked' /\ RotationIsSingleUse'
      BY <1>t, <2>4, <3>1, <3>2, FamiliesKept
    <3>4. \A u \in Rows : refresh[u].holder # r
      BY <1>t, <2>1, HoldsNothing
    <3>5. RowsHeld'
      <4>1. RowsHeld /\ new \in Request /\ req' = [req EXCEPT ![r] = new]
        BY <1>t, <2>2
      <4>2. \A u \in Rows : refresh[u].holder \notin {r, None} => refresh'[u] = refresh[u]
        BY <2>1, <3>2
      <4>3. \A u \in Rows : refresh'[u].holder \notin {r, None} => refresh'[u] = refresh[u]
        BY <3>1, <3>2
      <4>4. new.row # None /\ new.pc # "lookup" =>
               refresh'[new.row].holder = r /\ refresh'[new.row].state = "valid"
        BY <2>2, <2>4, <3>1, <3>2
      <4>5. new.new # None =>
               refresh'[new.new].holder = r /\ refresh'[new.new].state = "unused"
        BY <2>2
      <4>6. \A u \in Rows : refresh'[u].holder = r =>
               (new.row # None /\ new.pc # "lookup" /\ new.row = u) \/ new.new = u
        BY <1>t, <2>2, <2>4, <3>2, <3>4
      <4>7. QED
        BY <4>1, <4>2, <4>3, <4>4, <4>5, <4>6, HeldByRequest
    <3>6. QED
      BY <3>3, <3>5 DEF RotationInv
  <2>5. QED
    BY <2>3, <2>4
<1>11. CASE CommitLogout(r)
  <2>p. PICK p : p = req[r].row
    OBVIOUS
  <2> DEFINE spent == [refresh[p] EXCEPT !.state = "revoked", !.ended = "logout",
                                         !.holder = None]
  <2>1. /\ \A t \in Rows : refresh'[t] = IF t = p THEN spent ELSE refresh[t]
        /\ req' = [req EXCEPT ![r] = Idle]
        /\ req[r].op = "logout" /\ req[r].pc = "commit" /\ req[r].new = None
    BY <1>11, <1>t, <2>p DEF CommitLogout, WellFormed
  <2>2. /\ HasRow(r) <=> p # None
        /\ p \in Rows => /\ refresh[p].holder = r /\ refresh[p].state = "valid"
                         /\ refresh[p].ended = "no"
    BY <1>t, <1>o, <2>1, <2>p DEF HasRow, EndedIsRevoked
  <2>3. p \in Rows => /\ spent.state = "revoked" /\ spent.ended = "logout"
                      /\ spent.holder = None /\ spent.parent = refresh[p].parent
    BY <1>t DEF TypeOK, RefreshRow
  <2> HIDE DEF spent
  <2>4. RowsHeld'
    <3>1. \A u \in Rows : refresh[u].holder # r => refresh'[u] = refresh[u]
      BY <2>1, <2>2
    <3>2. \A u \in Rows : refresh[u].holder = r => refresh'[u].holder = None
      BY <1>h, <1>t, <2>p, <2>1, <2>2, <2>3
    <3>3. QED
      BY <1>f, <2>1, <3>1, <3>2
  <2>5. EndedIsRevoked'
    BY <1>t, <2>1, <2>3 DEF EndedIsRevoked
  <2>6. \A t \in Rows : Successors(t)' = Successors(t)
    BY <2>1, <2>2, <2>3 DEF Successors
  <2>7. RotationIsSingleUse'
    <3>1. \A t \in Rows : refresh'[t].ended = "rotated" <=> refresh[t].ended = "rotated"
      BY <2>1, <2>2, <2>3
    <3>2. QED
      BY <1>t, <2>6, <3>1 DEF RotationIsSingleUse
  <2>8. QED
    BY <2>4, <2>5, <2>7 DEF RotationInv
<1>12. ASSUME NEW w \in Workers, NEW u \in CompanyUsers, NEW active \in BOOLEAN,
              NEW role \in {"company_admin", "member"}, ChangeAccount(r, w, u, role, active)
       PROVE  RotationInv'
  <2> DEFINE new == [Idle EXCEPT !.op = "account", !.pc = "commit", !.worker = w,
                                 !.sub = u, !.role = role, !.active = active]
  <2>1. new \in Request /\ new.row = None /\ new.new = None
    BY DEF Idle, Request, Roles, Statuses, Subjects
  <2>2. QED
    BY <1>12, <1>m, <2>1 DEF ChangeAccount
<1>13. CASE CommitAccount(r)
  <2>1. req[r].row = None /\ req[r].new = None
    BY <1>13, <1>t DEF CommitAccount, WellFormed
  <2>2. QED
    BY <1>13, <1>i, <1>m, <2>1 DEF CommitAccount
<1>14. ASSUME NEW w \in Workers, NEW status \in Statuses, SetStatus(r, w, status)
       PROVE  RotationInv'
  <2> DEFINE new == [Idle EXCEPT !.op = "org", !.pc = "commit", !.worker = w,
                                 !.status = IF status = orgStatus THEN "keep" ELSE status]
  <2>1. new \in Request /\ new.row = None /\ new.new = None
    BY DEF Idle, Request, Roles, Statuses
  <2>2. QED
    BY <1>14, <1>m, <2>1 DEF SetStatus
<1>15. CASE CommitStatus(r)
  <2>1. req[r].row = None /\ req[r].new = None
    BY <1>15, <1>t DEF CommitStatus, WellFormed
  <2>2. QED
    BY <1>15, <1>i, <1>m, <2>1 DEF CommitStatus
<1>16. QED
  BY <1>1, <1>2, <1>3, <1>4, <1>5, <1>6, <1>7, <1>8, <1>9, <1>10, <1>11, <1>12, <1>13,
     <1>14, <1>15 DEF Step

LEMMA RotationRestart ==
    ASSUME SessionTypeInv, RotationInv, NEW w \in Workers, Restart(w)
    PROVE  RotationInv'
<1>t. /\ TypeOK /\ RowsHeld /\ EndedIsRevoked /\ RotationIsSingleUse
      /\ None \notin Requests /\ req \in [Requests -> Request]
      /\ \A q \in Requests : req[q].row \in Rows \cup {None} /\ req[q].new \in Rows \cup {None}
      /\ \A t \in Rows : refresh[t].holder \in Requests \cup {None}
  BY SessionsAssumption DEF SessionTypeInv, RotationInv, TypeOK, Request, RefreshRow
<1>i. Idle.row = None /\ Idle.new = None
  BY IdleShape
<1>1. \A q \in Requests : req'[q] = IF req[q].worker = w THEN Idle ELSE req[q]
  BY DEF Restart
<1>2. ASSUME NEW t \in Rows, refresh[t].holder # None, req[refresh[t].holder].worker = w
      PROVE  /\ refresh'[t].state = refresh[t].state
             /\ refresh'[t].ended = refresh[t].ended
             /\ refresh[t].state # "unused" => refresh'[t].parent = refresh[t].parent
             /\ refresh'[t].holder = None
  <2>1. PICK h \in Requests : h = refresh[t].holder
    BY <1>t, <1>2
  <2>2. refresh'[t] = RolledBack(h)[t]
    BY <1>2, <2>1 DEF Restart
  <2>3. QED
    BY <1>t, <2>1, <2>2, RolledBackKeeps
<1>3. ASSUME NEW t \in Rows, ~(refresh[t].holder # None /\ req[refresh[t].holder].worker = w)
      PROVE  refresh'[t] = refresh[t]
  BY <1>3 DEF Restart
<1>4. EndedIsRevoked' /\ RotationIsSingleUse'
  BY <1>t, <1>2, <1>3, FamiliesKept
<1>5. ASSUME NEW q \in Requests
      PROVE  /\ HasRow(q)' => /\ refresh'[req'[q].row].holder = q
                              /\ refresh'[req'[q].row].state = "valid"
             /\ req'[q].new # None => /\ refresh'[req'[q].new].holder = q
                                      /\ refresh'[req'[q].new].state = "unused"
             /\ \A t \in Rows : refresh'[t].holder = q =>
                    (HasRow(q)' /\ req'[q].row = t) \/ req'[q].new = t
  <2>1. CASE req[q].worker = w
    <3>1. ~HasRow(q)' /\ req'[q].new = None
      BY <1>1, <1>i, <2>1 DEF HasRow
    <3>2. \A t \in Rows : refresh'[t].holder # q
      BY <1>t, <1>2, <1>3, <2>1
    <3>3. QED
      BY <3>1, <3>2
  <2>2. CASE req[q].worker # w
    <3>1. req'[q] = req[q] /\ (HasRow(q)' <=> HasRow(q))
      BY <1>1, <2>2 DEF HasRow
    <3>2. \A t \in Rows : refresh[t].holder = q => refresh'[t] = refresh[t]
      BY <1>3, <2>2
    <3>3. \A t \in Rows : refresh'[t].holder = q => refresh[t].holder = q
      BY <1>t, <1>2, <1>3
    <3>4. HasRow(q) => /\ req[q].row \in Rows /\ refresh[req[q].row].holder = q
                       /\ refresh[req[q].row].state = "valid"
      BY <1>t DEF RowsHeld, HasRow
    <3>5. req[q].new # None => /\ req[q].new \in Rows /\ refresh[req[q].new].holder = q
                               /\ refresh[req[q].new].state = "unused"
      BY <1>t DEF RowsHeld
    <3>6. \A t \in Rows : refresh[t].holder = q => (HasRow(q) /\ req[q].row = t) \/ req[q].new = t
      BY <1>t DEF RowsHeld
    <3>7. QED
      BY <3>1, <3>2, <3>3, <3>4, <3>5, <3>6
  <2>3. QED
    BY <2>1, <2>2
<1>6. RowsHeld'
  BY <1>5 DEF RowsHeld
<1>7. QED
  BY <1>4, <1>6 DEF RotationInv

LEMMA RotationNext == SessionTypeInv /\ RotationInv /\ [Next]_vars => RotationInv'
<1> SUFFICES ASSUME SessionTypeInv, RotationInv, [Next]_vars PROVE RotationInv'
  OBVIOUS
<1>1. CASE Tick \/ UNCHANGED vars
  <2>1. refresh' = refresh /\ req' = req
    BY <1>1 DEF Tick, vars
  <2>2. EndedIsRevoked' /\ RotationIsSingleUse'
    BY <2>1, FamiliesKept DEF RotationInv
  <2>3. RowsHeld'
    BY <2>1 DEF RotationInv, RowsHeld, HasRow
  <2>4. QED
    BY <2>2, <2>3 DEF RotationInv
<1>2. QED
  BY <1>1, RotationRestart, RotationStep DEF Next

\* Rotation is single-use (AUD-01), for any number of refreshes and logouts
\* that race with one token, restarts between any two of their statements
\* included.
THEOREM Rotation == Spec => []RotationIsSingleUse
<1>1. Init => RotationInv
  <2> SUFFICES ASSUME Init PROVE RotationInv
    OBVIOUS
  <2>1. \A t \in Rows : /\ refresh[t].state = "unused" /\ refresh[t].holder = None
                        /\ refresh[t].ended = "no"
    BY DEF Init, UnusedRow
  <2>2. \A r \in Requests : ~HasRow(r) /\ req[r].new = None
    BY IdleShape DEF Init, HasRow
  <2>3. \A t \in Rows : Successors(t) = {}
    BY <2>1 DEF Successors
  <2>4. RowsHeld
    BY <2>1, <2>2, SessionsAssumption DEF RowsHeld
  <2>5. EndedIsRevoked /\ RotationIsSingleUse
    BY <2>1, <2>3 DEF EndedIsRevoked, RotationIsSingleUse
  <2>6. QED
    BY <2>4, <2>5 DEF RotationInv
<1>2. RotationInv => RotationIsSingleUse
  BY DEF RotationInv
<1>3. QED
  BY <1>1, <1>2, RotationNext, SessionTypeInvariant, PTL DEF Spec
===============================================================================
