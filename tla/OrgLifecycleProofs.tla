------------------------- MODULE OrgLifecycleProofs -------------------------
(***************************************************************************)
(* Proofs about OrgLifecycle, for any number of companies, grants,         *)
(* row-adding transactions and requests.                                   *)
(***************************************************************************)
EXTENDS OrgLifecycle, TLAPS

Names == Slug \cup {AnySlug}
Text  == Status \cup Hold \cup Table \cup {""}

Loaded == [op : {"idle", "onboard", "status", "hold", "erase", "begun", "insert",
                 "approve", "deny", "revoke"},
           org : Org, grant : Grant, slug : Names, from : Text, to : Text,
           email : BOOLEAN, row : RowLabel, overtaken : BOOLEAN]

\* The types the proofs need; a request carries a value of the column it writes.
Shapes ==
    /\ org \in [Org -> [exists : BOOLEAN, slug : Names, status : Status, hold : Hold]]
    /\ rows \in [Org -> [Table -> SUBSET RowLabel]]
    /\ grant \in [Grant -> SupportGrant]
    /\ req \in [Req -> Loaded]
    /\ \A r \in Req : /\ req[r].op = "status" => req[r].to \in Status
                      /\ req[r].op = "hold" => req[r].to \in Hold
                      /\ req[r].op \in {"begun", "insert"} => req[r].to \in Table

\* What the row lock of an erasure keeps true of the company it loaded.
ErasersHold == \A r \in Req : req[r].op = "erase" =>
    /\ Required \subseteq hooks
    /\ org[req[r].org].exists
    /\ org[req[r].org].hold = req[r].from

\* FOR UPDATE on the company waits for every foreign key check, and they for it.
LocksExclude ==
    /\ \A r, s \in Req, o \in Org : ~(HoldsOrg(r, o) /\ HoldsKeyShare(s, o))
    /\ \A r, s \in Req, g \in Grant : HoldsGrant(r, g) /\ HoldsGrant(s, g) => r = s

\* What the row lock of a decision keeps true of the grant it loaded.
DecidersHold == \A r \in Req : req[r].op \in {"approve", "deny", "revoke"} =>
    /\ grant[req[r].grant].exists
    /\ grant[req[r].grant].status
          \in IF req[r].op = "revoke" THEN Revocable ELSE {"requested"}

\* A grant nobody asked for yet is a request; an erased company was onboarded.
Beginnings ==
    /\ \A g \in Grant : ~grant[g].exists => grant[g].status = "requested"
    /\ erased \subseteq {o \in Org : org[o].exists}

\* A row with a foreign key that is being inserted saw no erasure of its company
\* since: the erasure would have waited for it.
NoneOutlives == \A r \in Req :
    req[r].op \in {"begun", "insert"} /\ req[r].to \in WithForeignKey
        => req[r].row # "survivor"

\* A status change that no commit overtook still knows the status.
StatusIsFresh == \A r \in Req : req[r].op = "status" =>
    /\ org[req[r].org].exists
    /\ ~req[r].overtaken => org[req[r].org].status = req[r].from

OrgInv == /\ Shapes /\ ErasersHold /\ LocksExclude /\ DecidersHold /\ Beginnings
          /\ NoneOutlives /\ StatusIsFresh
          /\ OnboardingIsWhole /\ ErasureIsComplete

----------------------------------------------------------------------------
\* A free request slot is well-formed.
LEMMA IdleShape == Idle \in Loaded /\ Idle.op = "idle"
<1>1. 1 \in Org /\ 1 \in Grant
  BY OrgAssumption DEF Org, Grant
<1>2. QED
  BY <1>1 DEF Idle, Loaded, Names, Text, RowLabel

\* The first states satisfy the invariant.
LEMMA InitOrg == Init => OrgInv
<1> SUFFICES ASSUME Init PROVE OrgInv
  OBVIOUS
<1>1. 1 \in Org /\ 1 \in Grant
  BY OrgAssumption DEF Org, Grant
<1>2. \A r \in Req : req[r] = Idle /\ req[r].op = "idle"
  BY IdleShape DEF Init
<1>3. Shapes
  <2>1. req \in [Req -> Loaded]
    BY IdleShape DEF Init
  <2>2. grant \in [Grant -> SupportGrant]
    BY <1>1 DEF Init, SupportGrant, GrantStatus
  <2>3. org \in [Org -> [exists : BOOLEAN, slug : Names, status : Status, hold : Hold]]
    BY DEF Init, Names, Status, Hold
  <2>4. rows \in [Org -> [Table -> SUBSET RowLabel]]
    BY DEF Init
  <2>5. QED
    BY <1>2, <2>1, <2>2, <2>3, <2>4 DEF Shapes
<1>4. ErasersHold /\ LocksExclude /\ DecidersHold /\ NoneOutlives /\ StatusIsFresh
  BY <1>2 DEF ErasersHold, LocksExclude, DecidersHold, NoneOutlives,
     StatusIsFresh, HoldsOrg, HoldsKeyShare, HoldsGrant
<1>5. Beginnings /\ OnboardingIsWhole /\ ErasureIsComplete
  BY DEF Init, Beginnings, OnboardingIsWhole, ErasureIsComplete
<1>6. QED
  BY <1>3, <1>4, <1>5 DEF OrgInv

\* What a request holds may be held when it is what the invariant says of it and
\* its row lock was free.
Admissible(q) ==
    /\ q.op = "status" => /\ q.to \in Status /\ org[q.org].exists
                          /\ q.from = org[q.org].status
    /\ q.op = "hold" => q.to \in Hold
    /\ q.op = "erase" => /\ Required \subseteq hooks
                         /\ org[q.org].exists
                         /\ org[q.org].hold = q.from
                         /\ \A s \in Req : ~HoldsKeyShare(s, q.org)
    /\ q.op \in {"begun", "insert"} =>
          /\ q.to \in Table
          /\ q.to \in WithForeignKey => q.row # "survivor"
    /\ q.op = "insert" /\ q.to \in WithForeignKey => OrgFree(q.org)
    /\ q.op \in {"approve", "deny", "revoke"} =>
          /\ LockGrant(q.grant)
          /\ grant[q.grant].exists
          /\ grant[q.grant].status
                \in IF q.op = "revoke" THEN Revocable ELSE {"requested"}

\* A step that only loads or takes a lock.
LEMMA SlotKeeps ==
    ASSUME OrgInv, NEW r \in Req, NEW q \in Loaded, Admissible(q),
           req' = [req EXCEPT ![r] = q], UNCHANGED <<org, rows, grant, hooks, erased>>
    PROVE  OrgInv'
<1>1. /\ req' = [req EXCEPT ![r] = q]
      /\ org' = org /\ rows' = rows /\ grant' = grant /\ hooks' = hooks
      /\ erased' = erased
  OBVIOUS
<1>2. /\ req' \in [Req -> Loaded]
      /\ \A s \in Req : req'[s] = IF s = r THEN q ELSE req[s]
  BY <1>1 DEF OrgInv, Shapes
<1>3. Shapes'
  BY <1>1, <1>2 DEF OrgInv, Shapes, Admissible
<1>4. ErasersHold' /\ DecidersHold' /\ StatusIsFresh'
  BY <1>1, <1>2 DEF OrgInv, ErasersHold, DecidersHold, StatusIsFresh, Admissible
<1>5. LocksExclude'
  <2>1. ASSUME NEW s \in Req, NEW t \in Req, NEW o \in Org, HoldsOrg(s, o)',
               HoldsKeyShare(t, o)'
        PROVE  FALSE
    BY <1>2, <2>1 DEF OrgInv, LocksExclude, HoldsOrg, HoldsKeyShare, OrgFree,
       Admissible
  <2>2. ASSUME NEW s \in Req, NEW t \in Req, NEW g \in Grant, HoldsGrant(s, g)',
               HoldsGrant(t, g)'
        PROVE  s = t
    BY <1>2, <2>2 DEF OrgInv, LocksExclude, HoldsGrant, LockGrant, Admissible
  <2>3. QED
    BY <2>1, <2>2 DEF LocksExclude
<1>6. NoneOutlives'
  BY <1>1, <1>2 DEF OrgInv, NoneOutlives, Admissible
<1>7. Beginnings' /\ OnboardingIsWhole' /\ ErasureIsComplete'
  BY <1>1 DEF OrgInv, Beginnings, OnboardingIsWhole, ErasureIsComplete
<1>8. QED
  BY <1>3, <1>4, <1>5, <1>6, <1>7 DEF OrgInv

\* A load may begin when what it loaded is admissible.
LEMMA BeginKeeps ==
    ASSUME OrgInv, NEW r \in Req, NEW q \in Loaded, BeginWith(r, q), Admissible(q)
    PROVE  OrgInv'
BY SlotKeeps DEF BeginWith

\* The other requests of a step that commits or rolls back: each keeps what it
\* loaded, ends, or learns that its row was written.
Undisturbed ==
    /\ req' \in [Req -> Loaded]
    /\ \A s \in Req : req'[s].op # "idle" =>
          /\ req'[s].op = req[s].op /\ req'[s].org = req[s].org
          /\ req'[s].grant = req[s].grant
          /\ req'[s].from = req[s].from /\ req'[s].to = req[s].to
          /\ req[s].op \in {"begun", "insert"} /\ req[s].to \in WithForeignKey
                => req'[s].row = req[s].row
          /\ req[s].overtaken => req'[s].overtaken

\* A request that ends leaves the others alone.
LEMMA EndIsQuiet ==
    ASSUME OrgInv, NEW r \in Req, req' = [req EXCEPT ![r] = Idle]
    PROVE  Undisturbed
BY IdleShape DEF OrgInv, Shapes, Undisturbed

\* A request that commits a write of a company's row tells the ones that loaded it.
LEMMA CommitIsQuiet ==
    ASSUME OrgInv, NEW r \in Req, NEW o \in Org, CommitOrg(r, o)
    PROVE  /\ Undisturbed
           /\ \A s \in Req : req'[s].op = "status" /\ req[s].org = o => req'[s].overtaken
<1>1. \A s \in Req : req'[s] = IF s = r THEN Idle ELSE
          [req[s] EXCEPT !.overtaken =
              req[s].overtaken \/ (req[s].op # "idle" /\ req[s].org = o)]
  BY DEF CommitOrg
<1>2. req \in [Req -> Loaded]
  BY DEF OrgInv, Shapes
<1>3. ASSUME NEW s \in Req, s # r
      PROVE  /\ req'[s] \in Loaded
             /\ req'[s].op = req[s].op /\ req'[s].org = req[s].org
             /\ req'[s].grant = req[s].grant
             /\ req'[s].from = req[s].from /\ req'[s].to = req[s].to
             /\ req'[s].row = req[s].row
             /\ req'[s].overtaken = (req[s].overtaken \/ (req[s].op # "idle" /\ req[s].org = o))
  <2>1. req'[s] = [req[s] EXCEPT !.overtaken =
                      req[s].overtaken \/ (req[s].op # "idle" /\ req[s].org = o)]
    BY <1>1, <1>3
  <2>2. req[s] \in Loaded
    BY <1>2
  <2>3. QED
    BY <2>1, <2>2 DEF Loaded
<1>4. req'[r] = Idle
  BY <1>1
<1>5. req' \in [Req -> Loaded]
  <2>1. \A s \in Req : req'[s] \in Loaded
    BY <1>3, <1>4, IdleShape
  <2>2. req' = [s \in Req |-> req'[s]]
    BY DEF CommitOrg
  <2>3. QED
    BY <2>1, <2>2
<1>6. QED
  BY <1>3, <1>4, <1>5, IdleShape DEF Undisturbed

\* An erasure that commits labels what is in flight, which is no insert that
\* its lock would have waited for.
LEMMA OutliveIsQuiet ==
    ASSUME OrgInv, NEW r \in Req, NEW o \in Org, HoldsOrg(r, o), OutliveErasure(r, o)
    PROVE  /\ Undisturbed
           /\ \A s \in Req : req'[s].op = "status" /\ req[s].org = o => req'[s].overtaken
<1>1. req \in [Req -> Loaded]
  BY DEF OrgInv, Shapes
<1>2. req'[r] = Idle
  BY DEF OutliveErasure
<1>3. ASSUME NEW s \in Req, s # r, req[s].op = "idle" \/ req[s].org # o
      PROVE  req'[s] = req[s]
  BY <1>3 DEF OutliveErasure
<1>4. ASSUME NEW s \in Req, s # r, req[s].op # "idle", req[s].org = o
      PROVE  /\ req'[s] \in Loaded
             /\ req'[s].op = req[s].op /\ req'[s].org = req[s].org
             /\ req'[s].grant = req[s].grant
             /\ req'[s].from = req[s].from /\ req'[s].to = req[s].to
             /\ req[s].op \in {"begun", "insert"} /\ req[s].to \in WithForeignKey
                   => req'[s].row = req[s].row
             /\ req'[s].overtaken
  <2>1. PICK label \in RowLabel :
            /\ req'[s] = [req[s] EXCEPT !.overtaken = TRUE, !.row = label]
            /\ req[s].op # "insert" => label = req[s].row
    <3>1. PICK label : label = IF req[s].op = "insert" THEN "survivor" ELSE req[s].row
      OBVIOUS
    <3>2. req'[s] = [req[s] EXCEPT !.overtaken = TRUE, !.row = label]
      BY <1>4, <3>1 DEF OutliveErasure
    <3>3. label \in RowLabel /\ (req[s].op # "insert" => label = req[s].row)
      BY <1>1, <3>1 DEF Loaded, RowLabel
    <3>4. QED
      BY <3>2, <3>3
  <2>2. req[s] \in Loaded
    BY <1>1
  <2>3. ~(req[s].op = "insert" /\ req[s].to \in WithForeignKey)
    BY <1>4 DEF OrgInv, LocksExclude, HoldsKeyShare
  <2>4. QED
    BY <2>1, <2>2, <2>3 DEF Loaded
<1>5. req' \in [Req -> Loaded]
  <2>1. \A s \in Req : req'[s] \in Loaded
    BY <1>1, <1>2, <1>3, <1>4, IdleShape
  <2>2. req' = [s \in Req |-> req'[s]]
    BY DEF OutliveErasure
  <2>3. QED
    BY <2>1, <2>2
<1>6. Undisturbed
  <2>1. ASSUME NEW s \in Req, req'[s].op # "idle"
        PROVE  /\ req'[s].op = req[s].op /\ req'[s].org = req[s].org
               /\ req'[s].grant = req[s].grant
               /\ req'[s].from = req[s].from /\ req'[s].to = req[s].to
               /\ req[s].op \in {"begun", "insert"} /\ req[s].to \in WithForeignKey
                     => req'[s].row = req[s].row
               /\ req[s].overtaken => req'[s].overtaken
    <3>1. s # r
      BY <1>2, <2>1, IdleShape
    <3>2. QED
      BY <1>3, <1>4, <3>1
  <2>2. QED
    BY <1>5, <2>1 DEF Undisturbed
<1>7. QED
  BY <1>2, <1>3, <1>4, <1>6, IdleShape

\* What such a step preserves whatever it wrote, and what depends on its writes.
LEMMA QuietKeeps ==
    ASSUME OrgInv, Undisturbed, hooks \subseteq hooks'
    PROVE  /\ LocksExclude'
           /\ \A r \in Req : /\ req'[r].op = "status" => req'[r].to \in Status
                             /\ req'[r].op = "hold" => req'[r].to \in Hold
                             /\ req'[r].op \in {"begun", "insert"} => req'[r].to \in Table
           /\ UNCHANGED org => ErasersHold' /\ StatusIsFresh'
           /\ UNCHANGED grant => DecidersHold'
           /\ NoneOutlives'
<1>1. req \in [Req -> Loaded] /\ req' \in [Req -> Loaded]
  BY DEF OrgInv, Shapes, Undisturbed
<1>2. LocksExclude'
  <2>1. ASSUME NEW s \in Req, NEW t \in Req, NEW o \in Org, HoldsOrg(s, o)',
               HoldsKeyShare(t, o)'
        PROVE  FALSE
    BY <2>1 DEF OrgInv, LocksExclude, HoldsOrg, HoldsKeyShare, Undisturbed
  <2>2. ASSUME NEW s \in Req, NEW t \in Req, NEW g \in Grant, HoldsGrant(s, g)',
               HoldsGrant(t, g)'
        PROVE  s = t
    BY <2>2 DEF OrgInv, LocksExclude, HoldsGrant, Undisturbed
  <2>3. QED
    BY <2>1, <2>2 DEF LocksExclude
<1>3. \A r \in Req : /\ req'[r].op = "status" => req'[r].to \in Status
                     /\ req'[r].op = "hold" => req'[r].to \in Hold
                     /\ req'[r].op \in {"begun", "insert"} => req'[r].to \in Table
  BY DEF OrgInv, Shapes, Undisturbed
<1>4. ASSUME UNCHANGED org PROVE ErasersHold' /\ StatusIsFresh'
  BY <1>1, <1>4 DEF OrgInv, ErasersHold, StatusIsFresh, Undisturbed, Loaded
<1>5. ASSUME UNCHANGED grant PROVE DecidersHold'
  BY <1>5 DEF OrgInv, DecidersHold, Undisturbed
<1>6. NoneOutlives'
  BY DEF OrgInv, NoneOutlives, Undisturbed
<1>7. QED
  BY <1>2, <1>3, <1>4, <1>5, <1>6

----------------------------------------------------------------------------
Swept == [rows : [Table -> SUBSET RowLabel], report : SUBSET Table]

\* One delete statement: its table is empty and on the report if it had rows,
\* and of the others only those it cascades to lose theirs.
Deletes(acc, t, after) ==
    /\ after \in Swept
    /\ after.rows[t] = {}
    /\ \A u \in Table : after.rows[u] \in {{}, acc.rows[u]}
    /\ \A u \in Table \ ({t} \cup CascadesFrom(t)) : after.rows[u] = acc.rows[u]
    /\ after.report = acc.report \cup (IF acc.rows[t] = {} THEN {} ELSE {t})

\* What the delete statement of the code does.
LEMMA DeleteResult ==
    ASSUME NEW acc \in Swept, NEW t \in Table
    PROVE  Deletes(acc, t, Delete(acc, t))
<1>1. CASE acc.rows[t] = {}
  <2>1. Delete(acc, t) = acc
    BY <1>1 DEF Delete
  <2>2. QED
    BY <1>1, <2>1 DEF Swept, Deletes
<1>2. CASE acc.rows[t] # {}
  <2>1. Delete(acc, t) = [rows |-> [u \in Table |-> IF u \in {t} \cup CascadesFrom(t)
                                    THEN {} ELSE acc.rows[u]],
                          report |-> acc.report \cup {t}]
    BY <1>2 DEF Delete
  <2>2. [u \in Table |-> IF u \in {t} \cup CascadesFrom(t) THEN {} ELSE acc.rows[u]]
           \in [Table -> SUBSET RowLabel]
    BY DEF Swept
  <2>3. acc.report \cup {t} \in SUBSET Table
    BY DEF Swept
  <2>4. Delete(acc, t) \in Swept
    BY <2>1, <2>2, <2>3 DEF Swept
  <2>5. QED
    BY <1>2, <2>1, <2>4 DEF Deletes
<1>3. QED
  BY <1>1, <1>2

\* The deletes in the order of the erasure, from what the tables hold before.
LEMMA SweepResult ==
    ASSUME NEW before \in [Table -> SUBSET RowLabel]
    PROVE  LET a0 == [rows |-> before, report |-> {}]
               a1 == DeleteForOrgUsers(a0)
               a2 == Delete(a1, "access")
               a3 == Delete(a2, "connectors")
               a4 == Delete(a3, "entities")
               a5 == Delete(a4, "users")
           IN  /\ a5.rows \in [Table -> SUBSET RowLabel]
               /\ \A t \in WithForeignKey : a5.rows[t] = {}
               /\ a5.report \cap WithForeignKey
                      = {t \in WithForeignKey : before[t] # {}}
<1> DEFINE a0 == [rows |-> before, report |-> {}]
           a1 == DeleteForOrgUsers(a0)
           a2 == Delete(a1, "access")
           a3 == Delete(a2, "connectors")
           a4 == Delete(a3, "entities")
           a5 == Delete(a4, "users")
<1>1. /\ "access" \in Table /\ "connectors" \in Table /\ "entities" \in Table
      /\ "users" \in Table /\ "refresh_tokens" \in Table
      /\ WithForeignKey = {"access", "connectors", "entities", "users"}
  BY DEF Table, Required, WithForeignKey
<1>2. /\ CascadesFrom("access") = {} /\ CascadesFrom("refresh_tokens") = {}
      /\ CascadesFrom("connectors") = {"access"}
      /\ CascadesFrom("entities") = {"access"}
      /\ CascadesFrom("users") = {"connectors", "access"}
  BY DEF CascadesFrom
<1>4. a0 \in Swept
  BY DEF Swept
<1>5. /\ a1 \in Swept
      /\ \A t \in WithForeignKey : a1.rows[t] = before[t]
      /\ a1.report \cap WithForeignKey = {}
  <2>1. CASE a0.rows["users"] = {}
    BY <1>4, <2>1 DEF DeleteForOrgUsers
  <2>2. CASE a0.rows["users"] # {}
    <3>1. a1 = Delete(a0, "refresh_tokens")
      BY <2>2 DEF DeleteForOrgUsers
    <3>2. Deletes(a0, "refresh_tokens", a1)
      BY <1>1, <1>4, <3>1, DeleteResult
    <3>3. \A t \in WithForeignKey : a1.rows[t] = a0.rows[t]
      BY <3>2, <1>1, <1>2 DEF Deletes
    <3>4. a1.report \cap WithForeignKey = {}
      BY <3>2, <1>1 DEF Deletes
    <3>5. QED
      BY <3>2, <3>3, <3>4 DEF Deletes
  <2>3. QED
    BY <2>1, <2>2
<1> HIDE DEF a1
<1>6. /\ a2 \in Swept /\ a2.rows["access"] = {}
      /\ \A t \in {"connectors", "entities", "users"} : a2.rows[t] = before[t]
      /\ a2.report = a1.report \cup (IF before["access"] = {} THEN {} ELSE {"access"})
  <2>1. Deletes(a1, "access", a2)
    BY <1>1, <1>5, DeleteResult
  <2>2. QED
    BY <2>1, <1>1, <1>2, <1>5 DEF Deletes
<1> HIDE DEF a2
<1>7. /\ a3 \in Swept /\ a3.rows["access"] = {} /\ a3.rows["connectors"] = {}
      /\ \A t \in {"entities", "users"} : a3.rows[t] = before[t]
      /\ a3.report = a2.report \cup (IF before["connectors"] = {} THEN {} ELSE {"connectors"})
  <2>1. Deletes(a2, "connectors", a3)
    BY <1>1, <1>6, DeleteResult
  <2>2. QED
    BY <2>1, <1>1, <1>2, <1>6 DEF Deletes
<1> HIDE DEF a3
<1>8. /\ a4 \in Swept /\ a4.rows["access"] = {} /\ a4.rows["connectors"] = {}
      /\ a4.rows["entities"] = {} /\ a4.rows["users"] = before["users"]
      /\ a4.report = a3.report \cup (IF before["entities"] = {} THEN {} ELSE {"entities"})
  <2>1. Deletes(a3, "entities", a4)
    BY <1>1, <1>7, DeleteResult
  <2>2. QED
    BY <2>1, <1>1, <1>2, <1>7 DEF Deletes
<1> HIDE DEF a4
<1>9. /\ a5 \in Swept
      /\ \A t \in WithForeignKey : a5.rows[t] = {}
      /\ a5.report = a4.report \cup (IF before["users"] = {} THEN {} ELSE {"users"})
  <2>1. Deletes(a4, "users", a5)
    BY <1>1, <1>8, DeleteResult
  <2>2. QED
    BY <2>1, <1>1, <1>8 DEF Deletes
<1> HIDE DEF a5
<1>10. a5.report \cap WithForeignKey = {t \in WithForeignKey : before[t] # {}}
  BY <1>1, <1>5, <1>6, <1>7, <1>8, <1>9
<1>11. a5.rows \in [Table -> SUBSET RowLabel]
  BY <1>9 DEF Swept
<1>12. QED
  BY <1>9, <1>10, <1>11 DEF a1, a2, a3, a4, a5

\* The erasure empties every table that hangs on the company, fills none, and
\* its report names those that had rows: no cascade runs ahead of the count.
LEMMA EraseTablesResult ==
    ASSUME NEW o \in Org, rows \in [Org -> [Table -> SUBSET RowLabel]], Required \subseteq hooks
    PROVE  LET done == EraseTables(o)
           IN  /\ done.rows \in [Table -> SUBSET RowLabel]
               /\ \A t \in WithForeignKey : done.rows[t] = {}
               /\ done.report \cap WithForeignKey
                      = {t \in WithForeignKey : rows[o][t] # {}}
<1>1. "access" \in hooks /\ "connectors" \in hooks /\ "entities" \in hooks
  BY DEF Required
<1>2. PICK before : before = rows[o]
  OBVIOUS
<1>3. before \in [Table -> SUBSET RowLabel]
  BY <1>2
<1>4. EraseTables(o) = Delete(Delete(Delete(Delete(
          DeleteForOrgUsers([rows |-> before, report |-> {}]),
          "access"), "connectors"), "entities"), "users")
  BY <1>1, <1>2 DEF EraseTables, DeleteAllInOrg, RunHooks, EraseEntityGraph,
     EraseConnectorData, EraseAccessData, RunHook
<1>5. QED
  BY <1>2, <1>3, <1>4, SweepResult

----------------------------------------------------------------------------
\* The loads: each keeps what it read in the request, under its row lock.
LEMMA LoadsKeep ==
    ASSUME OrgInv, NEW r \in Req,
           \/ \E s \in Slug : OnboardLoad(r, s)
           \/ \E o \in Org, s \in Status : LoadStatus(r, o, s)
           \/ \E o \in Org, h \in Hold : LoadLegalHold(r, o, h)
           \/ \E o \in Org : EraseLoad(r, o)
           \/ \E o \in Org, t \in Table : BeginInsert(r, o, t)
           \/ \E g \in Grant : \/ ApproveLoad(r, g) \/ DenyLoad(r, g)
                               \/ CompanyRevokeLoad(r, g) \/ PlatformRevokeLoad(r, g)
    PROVE  OrgInv'
<1> USE IdleShape
<1>1. CASE \E s \in Slug : OnboardLoad(r, s)
  <2>1. PICK s \in Slug : OnboardLoad(r, s)
    BY <1>1
  <2>2. PICK q : q = [Idle EXCEPT !.op = "onboard", !.slug = s]
    OBVIOUS
  <2>3. q \in Loaded /\ q.op = "onboard"
    BY <2>2 DEF Loaded, Names
  <2>4. QED
    BY <2>1, <2>2, <2>3, BeginKeeps DEF OnboardLoad, Admissible
<1>2. CASE \E o \in Org, s \in Status : LoadStatus(r, o, s)
  <2>1. PICK o \in Org, s \in Status : LoadStatus(r, o, s)
    BY <1>2
  <2>2. PICK q : q = [Idle EXCEPT !.op = "status", !.org = o,
                                  !.from = org[o].status, !.to = s]
    OBVIOUS
  <2>3. org[o].status \in Status
    BY DEF OrgInv, Shapes
  <2>4. /\ q \in Loaded /\ q.op = "status" /\ q.to \in Status
        /\ q.from = org[q.org].status /\ q.org = o
    BY <2>2, <2>3 DEF Loaded, Text
  <2>5. QED
    BY <2>1, <2>2, <2>4, BeginKeeps DEF LoadStatus, GetById, Admissible
<1>3. CASE \E o \in Org, h \in Hold : LoadLegalHold(r, o, h)
  <2>1. PICK o \in Org, h \in Hold : LoadLegalHold(r, o, h)
    BY <1>3
  <2>2. PICK q : q = [Idle EXCEPT !.op = "hold", !.org = o,
                                  !.from = org[o].hold, !.to = h]
    OBVIOUS
  <2>3. org[o].hold \in Hold
    BY DEF OrgInv, Shapes
  <2>4. q \in Loaded /\ q.op = "hold" /\ q.to \in Hold
    BY <2>2, <2>3 DEF Loaded, Text
  <2>5. QED
    BY <2>1, <2>2, <2>4, BeginKeeps DEF LoadLegalHold, Admissible
<1>4. CASE \E o \in Org : EraseLoad(r, o)
  <2>1. PICK o \in Org : EraseLoad(r, o)
    BY <1>4
  <2>2. PICK q : q = [Idle EXCEPT !.op = "erase", !.org = o, !.from = org[o].hold]
    OBVIOUS
  <2>3. org[o].hold \in Hold
    BY DEF OrgInv, Shapes
  <2>4. q \in Loaded /\ q.op = "erase" /\ q.org = o /\ q.from = org[o].hold
    BY <2>2, <2>3 DEF Loaded, Text
  <2>5. /\ Required \subseteq hooks /\ org[o].exists
        /\ \A s \in Req : ~HoldsKeyShare(s, o)
    BY <2>1 DEF EraseLoad, HooksConfigured, GetById, GetForUpdate
  <2>6. BeginWith(r, q)
    BY <2>1, <2>2 DEF EraseLoad
  <2>7. QED
    BY <2>4, <2>5, <2>6, BeginKeeps DEF Admissible
<1>5. CASE \E o \in Org, t \in Table : BeginInsert(r, o, t)
  <2>1. PICK o \in Org, t \in Table : BeginInsert(r, o, t)
    BY <1>5
  <2>2. PICK q : q = [Idle EXCEPT !.op = "begun", !.org = o, !.to = t]
    OBVIOUS
  <2>3. q \in Loaded /\ q.op = "begun" /\ q.to = t /\ q.row = "fresh"
    BY <2>2 DEF Loaded, Text, Idle
  <2>4. BeginWith(r, q)
    BY <2>1, <2>2 DEF BeginInsert
  <2>5. QED
    BY <2>3, <2>4, BeginKeeps DEF Admissible
<1>6. CASE \E g \in Grant : \/ ApproveLoad(r, g) \/ DenyLoad(r, g)
                            \/ CompanyRevokeLoad(r, g) \/ PlatformRevokeLoad(r, g)
  <2>1. PICK g \in Grant : \/ ApproveLoad(r, g) \/ DenyLoad(r, g)
                           \/ CompanyRevokeLoad(r, g) \/ PlatformRevokeLoad(r, g)
    BY <1>6
  <2>2. grant[g].org \in Org
    BY DEF OrgInv, Shapes, SupportGrant
  <2>3. grant[g].exists /\ LockGrant(g)
    BY <2>1 DEF ApproveLoad, DenyLoad, CompanyRevokeLoad, PlatformRevokeLoad,
       LoadRequested, GetInOrg, GetForRequester
  <2>4. CASE ApproveLoad(r, g) \/ DenyLoad(r, g)
    <3>1. PICK op \in {"approve", "deny"} : LoadRequested(r, g, op)
      BY <2>4 DEF ApproveLoad, DenyLoad
    <3>2. PICK q : q = [Idle EXCEPT !.op = op, !.grant = g, !.org = grant[g].org,
                            !.email = (rows[grant[g].org]["users"] # {})]
      OBVIOUS
    <3>3. q \in Loaded /\ q.op = op /\ q.grant = g
      BY <2>2, <3>2 DEF Loaded
    <3>4. BeginWith(r, q) /\ grant[g].status = "requested"
      BY <3>1, <3>2 DEF LoadRequested
    <3>5. QED
      BY <2>3, <3>3, <3>4, BeginKeeps DEF Admissible
  <2>5. CASE CompanyRevokeLoad(r, g) \/ PlatformRevokeLoad(r, g)
    <3>1. LoadRevocable(r, g)
      BY <2>5 DEF CompanyRevokeLoad, PlatformRevokeLoad
    <3>2. PICK q : q = [Idle EXCEPT !.op = "revoke", !.grant = g, !.org = grant[g].org]
      OBVIOUS
    <3>3. q \in Loaded /\ q.op = "revoke" /\ q.grant = g
      BY <2>2, <3>2 DEF Loaded
    <3>4. BeginWith(r, q) /\ grant[g].status \in Revocable
      BY <3>1, <3>2 DEF LoadRevocable
    <3>5. QED
      BY <2>3, <3>3, <3>4, BeginKeeps DEF Admissible
  <2>6. QED
    BY <2>1, <2>4, <2>5
<1>7. QED
  BY <1>1, <1>2, <1>3, <1>4, <1>5, <1>6

\* The INSERT takes its key share of a company that no erasure holds.
LEMMA InsertRowsKeeps ==
    ASSUME OrgInv, NEW r \in Req, InsertRows(r)
    PROVE  OrgInv'
<1>1. req[r] \in Loaded /\ req[r].op = "begun"
  BY DEF OrgInv, Shapes, InsertRows
<1>2. PICK q : q = [req[r] EXCEPT !.op = "insert"]
  OBVIOUS
<1>3. /\ q \in Loaded /\ q.op = "insert" /\ q.to = req[r].to /\ q.org = req[r].org
      /\ q.row = req[r].row
  BY <1>1, <1>2 DEF Loaded
<1>4. q.to \in Table /\ (q.to \in WithForeignKey => q.row # "survivor")
  BY <1>1, <1>3 DEF OrgInv, Shapes, NoneOutlives
<1>5. q.to \in WithForeignKey => OrgFree(q.org)
  BY <1>3 DEF InsertRows
<1>6. Admissible(q)
  BY <1>3, <1>4, <1>5 DEF Admissible
<1>7. req' = [req EXCEPT ![r] = q] /\ UNCHANGED <<org, rows, grant, hooks, erased>>
  BY <1>2 DEF InsertRows
<1>8. QED
  BY <1>3, <1>6, <1>7, SlotKeeps

\* A request that rolls back leaves nothing.
LEMMA RollbackKeeps ==
    ASSUME OrgInv, NEW r \in Req, Rollback(r)
    PROVE  OrgInv'
<1>1. /\ req' = [req EXCEPT ![r] = Idle]
      /\ org' = org /\ rows' = rows /\ grant' = grant /\ hooks' = hooks
      /\ erased' = erased
  BY DEF Rollback
<1>2. Undisturbed
  BY <1>1, EndIsQuiet
<1>3. Shapes'
  BY <1>1, <1>2, QuietKeeps DEF OrgInv, Shapes, Undisturbed
<1>4. Beginnings' /\ OnboardingIsWhole' /\ ErasureIsComplete'
  BY <1>1 DEF OrgInv, Beginnings, OnboardingIsWhole, ErasureIsComplete
<1>5. QED
  BY <1>1, <1>2, <1>3, <1>4, QuietKeeps DEF OrgInv

\* Onboarding writes a company nobody has loaded, with its first user.
LEMMA OnboardKeeps ==
    ASSUME OrgInv, NEW r \in Req, NEW taken \in BOOLEAN, Onboard(r, taken)
    PROVE  OrgInv'
<1>1. CASE Rollback(r)
  BY <1>1, RollbackKeeps
<1>2. CASE ~Rollback(r)
  <2>1. PICK o \in Org : /\ ~org[o].exists
                         /\ AddOrganization(o, req[r].slug)
                         /\ AddUser(o)
    BY <1>2 DEF Onboard
  <2>2. /\ req' = [req EXCEPT ![r] = Idle]
        /\ grant' = grant /\ hooks' = hooks /\ erased' = erased
    BY <1>2 DEF Onboard
  <2>3. PICK slug \in Names : slug = req[r].slug
    BY DEF OrgInv, Shapes, Loaded
  <2>4. /\ org' = [org EXCEPT ![o] = [exists |-> TRUE, slug |-> slug,
                                      status |-> "active", hold |-> "clear"]]
        /\ rows' = [rows EXCEPT ![o]["users"] = {"fresh"}]
    BY <2>1, <2>3 DEF AddOrganization, AddUser
  <2>5. o \notin erased /\ "users" \in Table
    BY <2>1 DEF OrgInv, Beginnings, Table
  <2>6. Undisturbed
    BY <2>2, EndIsQuiet
  <2>7. Shapes'
    <3>1. org' \in [Org -> [exists : BOOLEAN, slug : Names, status : Status, hold : Hold]]
      BY <2>4 DEF OrgInv, Shapes, Status, Hold
    <3>2. rows' \in [Org -> [Table -> SUBSET RowLabel]]
      BY <2>4, <2>5 DEF OrgInv, Shapes, RowLabel
    <3>3. QED
      BY <2>2, <2>6, <3>1, <3>2, QuietKeeps DEF OrgInv, Shapes, Undisturbed
  <2>8. \A p \in Org : p # o => org'[p] = org[p] /\ rows'[p] = rows[p]
    BY <2>4 DEF OrgInv, Shapes
  <2>9. ErasersHold'
    <3>1. ASSUME NEW s \in Req, req'[s].op = "erase"
          PROVE  /\ Required \subseteq hooks'
                 /\ org'[req'[s].org].exists
                 /\ org'[req'[s].org].hold = req'[s].from
      <4>1. /\ req[s].op = "erase" /\ req'[s].org = req[s].org /\ req'[s].from = req[s].from
        BY <2>6, <3>1 DEF Undisturbed
      <4>2. req[s].org \in Org /\ req[s].org # o
        BY <2>1, <4>1 DEF OrgInv, Shapes, Loaded, ErasersHold
      <4>3. QED
        BY <2>2, <2>8, <4>1, <4>2 DEF OrgInv, ErasersHold
    <3>2. QED
      BY <3>1 DEF ErasersHold
  <2>10. StatusIsFresh'
    <3>1. \A s \in Req : req[s].op = "status" => req[s].org # o
      BY <2>1 DEF OrgInv, StatusIsFresh
    <3>2. QED
      BY <2>2, <2>6, <2>8, <3>1 DEF OrgInv, Shapes, StatusIsFresh, Undisturbed, Loaded
  <2>11. Beginnings' /\ OnboardingIsWhole' /\ ErasureIsComplete'
    BY <2>2, <2>4, <2>5, <2>8 DEF OrgInv, Shapes, Beginnings, OnboardingIsWhole,
       ErasureIsComplete
  <2>12. QED
    BY <2>2, <2>6, <2>7, <2>9, <2>10, <2>11, QuietKeeps DEF OrgInv
<1>3. QED
  BY <1>1, <1>2

\* A status change writes a row no erasure holds and overtakes those that loaded it.
LEMMA SetStatusKeeps ==
    ASSUME OrgInv, NEW r \in Req, SetStatus(r)
    PROVE  OrgInv'
<1>1. PICK o \in Org, from \in Text, to \in Text :
         /\ o = req[r].org /\ from = req[r].from
         /\ to = req[r].to /\ to \in Status
  BY DEF OrgInv, Shapes, Loaded, SetStatus
<1>2. /\ org' = [org EXCEPT ![o].status = IF to = from THEN org[o].status ELSE to]
      /\ OrgFree(o) /\ CommitOrg(r, o)
      /\ rows' = rows /\ grant' = grant /\ hooks' = hooks /\ erased' = erased
  BY <1>1 DEF SetStatus, Flush
<1>3. /\ Undisturbed
      /\ \A s \in Req : req'[s].op = "status" /\ req[s].org = o => req'[s].overtaken
  BY <1>2, CommitIsQuiet
<1>4. /\ org' \in [Org -> [exists : BOOLEAN, slug : Names, status : Status, hold : Hold]]
      /\ \A p \in Org : /\ org'[p].exists = org[p].exists /\ org'[p].hold = org[p].hold
                        /\ p # o => org'[p] = org[p]
  BY <1>1, <1>2 DEF OrgInv, Shapes
<1>5. Shapes'
  BY <1>2, <1>3, <1>4, QuietKeeps DEF OrgInv, Shapes, Undisturbed
<1>6. ErasersHold'
  <2>1. ASSUME NEW s \in Req, req'[s].op = "erase"
        PROVE  /\ Required \subseteq hooks'
               /\ org'[req'[s].org].exists
               /\ org'[req'[s].org].hold = req'[s].from
    <3>1. /\ req[s].op = "erase" /\ req'[s].org = req[s].org /\ req'[s].from = req[s].from
      BY <1>3, <2>1 DEF Undisturbed
    <3>2. req[s].org \in Org
      BY DEF OrgInv, Shapes, Loaded
    <3>3. QED
      BY <1>2, <1>4, <3>1, <3>2 DEF OrgInv, ErasersHold
  <2>2. QED
    BY <2>1 DEF ErasersHold
<1>7. StatusIsFresh'
  <2>1. ASSUME NEW s \in Req, req'[s].op = "status"
        PROVE  /\ org'[req'[s].org].exists
               /\ ~req'[s].overtaken => org'[req'[s].org].status = req'[s].from
    <3>1. /\ req[s].op = "status" /\ req'[s].org = req[s].org
          /\ req'[s].from = req[s].from /\ (req[s].overtaken => req'[s].overtaken)
      BY <1>3, <2>1 DEF Undisturbed
    <3>2. req[s].org \in Org
      BY DEF OrgInv, Shapes, Loaded
    <3>3. req[s].org = o => req'[s].overtaken
      BY <1>3, <2>1
    <3>4. QED
      BY <1>4, <3>1, <3>2, <3>3 DEF OrgInv, StatusIsFresh
  <2>2. QED
    BY <2>1 DEF StatusIsFresh
<1>8. Beginnings' /\ OnboardingIsWhole' /\ ErasureIsComplete'
  BY <1>2, <1>4 DEF OrgInv, Beginnings, OnboardingIsWhole, ErasureIsComplete
<1>9. QED
  BY <1>2, <1>3, <1>5, <1>6, <1>7, <1>8, QuietKeeps DEF OrgInv

\* A legal hold is written to a row no erasure holds.
LEMMA SetLegalHoldKeeps ==
    ASSUME OrgInv, NEW r \in Req, SetLegalHold(r)
    PROVE  OrgInv'
<1>1. PICK o \in Org, from \in Text, to \in Text :
         /\ o = req[r].org /\ from = req[r].from
         /\ to = req[r].to /\ to \in Hold
  BY DEF OrgInv, Shapes, Loaded, SetLegalHold
<1>2. /\ org' = [org EXCEPT ![o].hold = IF to = from THEN org[o].hold ELSE to]
      /\ OrgFree(o) /\ CommitOrg(r, o)
      /\ rows' = rows /\ grant' = grant /\ hooks' = hooks /\ erased' = erased
  BY <1>1 DEF SetLegalHold, Flush
<1>3. Undisturbed
  BY <1>2, CommitIsQuiet
<1>4. /\ org' \in [Org -> [exists : BOOLEAN, slug : Names, status : Status, hold : Hold]]
      /\ \A p \in Org : /\ org'[p].exists = org[p].exists
                        /\ org'[p].status = org[p].status
                        /\ p # o => org'[p] = org[p]
  BY <1>1, <1>2 DEF OrgInv, Shapes
<1>5. Shapes'
  BY <1>2, <1>3, <1>4, QuietKeeps DEF OrgInv, Shapes, Undisturbed
<1>6. ErasersHold'
  <2>1. ASSUME NEW s \in Req, req'[s].op = "erase"
        PROVE  /\ Required \subseteq hooks'
               /\ org'[req'[s].org].exists
               /\ org'[req'[s].org].hold = req'[s].from
    <3>1. /\ req[s].op = "erase" /\ req'[s].org = req[s].org /\ req'[s].from = req[s].from
      BY <1>3, <2>1 DEF Undisturbed
    <3>2. req[s].org \in Org /\ req[s].org # o
      BY <1>2, <3>1 DEF OrgInv, Shapes, Loaded, OrgFree, HoldsOrg
    <3>3. QED
      BY <1>2, <1>4, <3>1, <3>2 DEF OrgInv, ErasersHold
  <2>2. QED
    BY <2>1 DEF ErasersHold
<1>7. StatusIsFresh'
  <2>1. ASSUME NEW s \in Req, req'[s].op = "status"
        PROVE  /\ org'[req'[s].org].exists
               /\ ~req'[s].overtaken => org'[req'[s].org].status = req'[s].from
    <3>1. /\ req[s].op = "status" /\ req'[s].org = req[s].org
          /\ req'[s].from = req[s].from /\ (req[s].overtaken => req'[s].overtaken)
      BY <1>3, <2>1 DEF Undisturbed
    <3>2. req[s].org \in Org
      BY DEF OrgInv, Shapes, Loaded
    <3>3. QED
      BY <1>4, <3>1, <3>2 DEF OrgInv, StatusIsFresh
  <2>2. QED
    BY <2>1 DEF StatusIsFresh
<1>8. Beginnings' /\ OnboardingIsWhole' /\ ErasureIsComplete'
  BY <1>2, <1>4 DEF OrgInv, Beginnings, OnboardingIsWhole, ErasureIsComplete
<1>9. QED
  BY <1>2, <1>3, <1>5, <1>6, <1>7, <1>8, QuietKeeps DEF OrgInv

\* Rows that land in an erased company were inserted after its erasure.
LEMMA InsertCommitsKeeps ==
    ASSUME OrgInv, NEW r \in Req, InsertCommits(r)
    PROVE  OrgInv'
<1>1. PICK o \in Org, t \in Table, label \in RowLabel :
         o = req[r].org /\ t = req[r].to /\ label = req[r].row
  BY DEF OrgInv, Shapes, Loaded, InsertCommits
<1>2. PICK land : land = rows[o][t] \cup {label}
  OBVIOUS
<1>3. /\ rows' = [rows EXCEPT ![o][t] = land]
      /\ req' = [req EXCEPT ![r] = Idle]
      /\ org' = org /\ grant' = grant /\ hooks' = hooks /\ erased' = erased
  BY <1>1, <1>2 DEF InsertCommits
<1>4. Undisturbed
  BY <1>3, EndIsQuiet
<1>5. /\ rows' \in [Org -> [Table -> SUBSET RowLabel]]
      /\ \A p \in Org, u \in Table :
            rows'[p][u] = IF p = o /\ u = t THEN land ELSE rows[p][u]
  <2>1. rows \in [Org -> [Table -> SUBSET RowLabel]]
    BY DEF OrgInv, Shapes
  <2>2. land \in SUBSET RowLabel
    BY <1>1, <1>2, <2>1
  <2>3. QED
    BY <1>3, <2>1, <2>2
<1>6. Shapes'
  BY <1>3, <1>4, <1>5, QuietKeeps DEF OrgInv, Shapes, Undisturbed
<1>7. "users" \in Table /\ WithForeignKey \subseteq Table
  BY DEF Table, WithForeignKey
<1>8. OnboardingIsWhole'
  <2>1. land # {} /\ (\A p \in Org : rows[p]["users"] # {} => rows'[p]["users"] # {})
    BY <1>2, <1>5, <1>7
  <2>2. QED
    BY <1>3, <2>1 DEF OrgInv, OnboardingIsWhole
<1>9. ErasureIsComplete'
  <2>1. t \in WithForeignKey => label # "survivor"
    BY <1>1 DEF OrgInv, NoneOutlives, InsertCommits
  <2>2. erased \subseteq Org
    BY DEF OrgInv, Beginnings
  <2>3. ASSUME NEW p \in erased, NEW u \in WithForeignKey PROVE "survivor" \notin rows'[p][u]
    <3>1. "survivor" \notin rows[p][u] /\ p \in Org /\ u \in Table
      BY <1>7, <2>2 DEF OrgInv, ErasureIsComplete
    <3>2. QED
      BY <1>2, <1>5, <2>1, <3>1
  <2>4. QED
    BY <1>3, <2>3 DEF ErasureIsComplete
<1>10. Beginnings'
  BY <1>3 DEF OrgInv, Beginnings
<1>11. QED
  BY <1>3, <1>4, <1>6, <1>8, <1>9, <1>10, QuietKeeps DEF OrgInv

\* The erasure keeps everybody's locks: it empties the tables under its own.
LEMMA EraseKeeps ==
    ASSUME OrgInv, NEW r \in Req, EraseOrganization(r)
    PROVE  OrgInv'
<1>1. PICK o \in Org : o = req[r].org
  BY DEF OrgInv, Shapes, Loaded
<1>2. PICK done : done = EraseTables(o)
  OBVIOUS
<1>3. /\ done.rows \in [Table -> SUBSET RowLabel]
      /\ \A t \in WithForeignKey : done.rows[t] = {}
  BY <1>2, EraseTablesResult DEF OrgInv, Shapes, ErasersHold, EraseOrganization
<1>4. /\ req[r].op = "erase" /\ HoldsOrg(r, o)
      /\ rows' = [rows EXCEPT ![o] = Outlive(done.rows)]
      /\ org' = [org EXCEPT ![o].status = "offboarded"]
      /\ erased' = erased \cup {o}
      /\ hooks' = hooks
      /\ OutliveErasure(r, o)
      /\ grant' = [g \in Grant |-> IF g \in ScrubWaitsFor(o)
                                   THEN [grant[g] EXCEPT !.email = FALSE] ELSE grant[g]]
  BY <1>1, <1>2 DEF EraseOrganization, ScrubDeciderEmails, HoldsOrg
<1>5. /\ Undisturbed
      /\ \A s \in Req : req'[s].op = "status" /\ req[s].org = o => req'[s].overtaken
  BY <1>4, OutliveIsQuiet
<1>6. /\ org' \in [Org -> [exists : BOOLEAN, slug : Names, status : Status, hold : Hold]]
      /\ \A p \in Org : /\ org'[p].exists = org[p].exists /\ org'[p].hold = org[p].hold
                        /\ p # o => org'[p] = org[p]
  BY <1>4 DEF OrgInv, Shapes, Status
<1>7. /\ grant' \in [Grant -> SupportGrant]
      /\ \A g \in Grant : /\ grant'[g].exists = grant[g].exists
                          /\ grant'[g].status = grant[g].status
  BY <1>4 DEF OrgInv, Shapes, SupportGrant
<1>8. /\ rows' \in [Org -> [Table -> SUBSET RowLabel]]
      /\ \A p \in Org : p # o => rows'[p] = rows[p]
      /\ \A t \in WithForeignKey : rows'[o][t] = {}
  <2>1. PICK found : found = Outlive(done.rows)
    OBVIOUS
  <2>2. found \in [Table -> SUBSET RowLabel] /\ \A t \in WithForeignKey : found[t] = {}
    BY <1>3, <2>1 DEF Outlive, RowLabel, WithForeignKey
  <2>3. QED
    BY <1>4, <2>1, <2>2 DEF OrgInv, Shapes
<1>9. Shapes'
  BY <1>4, <1>5, <1>6, <1>7, <1>8, QuietKeeps DEF OrgInv, Shapes, Undisturbed
<1>10. org[o].exists
  BY <1>1, <1>4 DEF OrgInv, ErasersHold
<1>11. ErasersHold'
  <2>1. ASSUME NEW s \in Req, req'[s].op = "erase"
        PROVE  /\ Required \subseteq hooks'
               /\ org'[req'[s].org].exists
               /\ org'[req'[s].org].hold = req'[s].from
    <3>1. /\ req[s].op = "erase" /\ req'[s].org = req[s].org /\ req'[s].from = req[s].from
      BY <1>5, <2>1 DEF Undisturbed
    <3>2. req[s].org \in Org
      BY DEF OrgInv, Shapes, Loaded
    <3>3. QED
      BY <1>4, <1>6, <3>1, <3>2 DEF OrgInv, ErasersHold
  <2>2. QED
    BY <2>1 DEF ErasersHold
<1>12. StatusIsFresh'
  <2>1. ASSUME NEW s \in Req, req'[s].op = "status"
        PROVE  /\ org'[req'[s].org].exists
               /\ ~req'[s].overtaken => org'[req'[s].org].status = req'[s].from
    <3>1. /\ req[s].op = "status" /\ req'[s].org = req[s].org
          /\ req'[s].from = req[s].from /\ (req[s].overtaken => req'[s].overtaken)
      BY <1>5, <2>1 DEF Undisturbed
    <3>2. req[s].org \in Org
      BY DEF OrgInv, Shapes, Loaded
    <3>3. req[s].org = o => req'[s].overtaken
      BY <1>5, <2>1
    <3>4. QED
      BY <1>6, <3>1, <3>2, <3>3 DEF OrgInv, StatusIsFresh
  <2>2. QED
    BY <2>1 DEF StatusIsFresh
<1>13. DecidersHold'
  <2>1. ASSUME NEW s \in Req, req'[s].op \in {"approve", "deny", "revoke"}
        PROVE  /\ grant'[req'[s].grant].exists
               /\ grant'[req'[s].grant].status
                     \in IF req'[s].op = "revoke" THEN Revocable ELSE {"requested"}
    <3>1. req'[s].op = req[s].op /\ req'[s].grant = req[s].grant
      BY <1>5, <2>1 DEF Undisturbed
    <3>2. req[s].grant \in Grant
      BY DEF OrgInv, Shapes, Loaded
    <3>3. QED
      BY <1>7, <2>1, <3>1, <3>2 DEF OrgInv, DecidersHold
  <2>2. QED
    BY <2>1 DEF DecidersHold
<1>15. Beginnings' /\ OnboardingIsWhole'
  BY <1>4, <1>6, <1>7, <1>8, <1>10 DEF OrgInv, Beginnings, OnboardingIsWhole
<1>16. ErasureIsComplete'
  <2>1. erased \subseteq Org
    BY DEF OrgInv, Beginnings
  <2>2. QED
    BY <1>3, <1>4, <1>8, <2>1 DEF OrgInv, ErasureIsComplete
<1>17. QED
  BY <1>4, <1>5, <1>9, <1>11, <1>12, <1>13, <1>15, <1>16, QuietKeeps DEF OrgInv

\* A step that writes one grant nobody else holds, and touches no company.
LEMMA GrantWriteKeeps ==
    ASSUME OrgInv, Undisturbed, NEW g \in Grant, NEW new \in SupportGrant,
           grant' = [grant EXCEPT ![g] = new], new.exists,
           \A s \in Req : req'[s].op \in {"approve", "deny", "revoke"} => req'[s].grant # g,
           UNCHANGED <<org, rows, hooks, erased>>
    PROVE  OrgInv'
<1>1. /\ grant' \in [Grant -> SupportGrant]
      /\ \A h \in Grant : grant'[h] = IF h = g THEN new ELSE grant[h]
  BY DEF OrgInv, Shapes
<1>2. Shapes'
  BY <1>1, QuietKeeps DEF OrgInv, Shapes, Undisturbed
<1>3. DecidersHold'
  <2>1. ASSUME NEW s \in Req, req'[s].op \in {"approve", "deny", "revoke"}
        PROVE  /\ grant'[req'[s].grant].exists
               /\ grant'[req'[s].grant].status
                     \in IF req'[s].op = "revoke" THEN Revocable ELSE {"requested"}
    <3>1. req'[s].op = req[s].op /\ req'[s].grant = req[s].grant
      BY <2>1 DEF Undisturbed
    <3>2. req[s].grant \in Grant /\ req[s].grant # g
      BY <2>1, <3>1 DEF OrgInv, Shapes, Loaded
    <3>3. QED
      BY <1>1, <2>1, <3>1, <3>2 DEF OrgInv, DecidersHold
  <2>2. QED
    BY <2>1 DEF DecidersHold
<1>4. Beginnings'
  BY <1>1 DEF OrgInv, Beginnings
<1>5. OnboardingIsWhole' /\ ErasureIsComplete'
  BY DEF OrgInv, OnboardingIsWhole, ErasureIsComplete
<1>6. QED
  BY <1>2, <1>3, <1>4, <1>5, QuietKeeps DEF OrgInv

\* A new grant is one nobody decides on.
LEMMA RequestAccessKeeps ==
    ASSUME OrgInv, NEW r \in Req, NEW o \in Org, RequestAccess(r, o)
    PROVE  OrgInv'
<1>1. PICK g \in Grant :
         /\ ~grant[g].exists
         /\ grant' = [grant EXCEPT ![g] = [exists |-> TRUE, org |-> o,
                         status |-> "requested", email |-> FALSE, expired |-> FALSE]]
  BY DEF RequestAccess
<1>2. PICK new : new = [exists |-> TRUE, org |-> o, status |-> "requested",
                        email |-> FALSE, expired |-> FALSE]
  OBVIOUS
<1>3. new \in SupportGrant /\ new.exists
  BY <1>2 DEF SupportGrant, GrantStatus
<1>4. UNCHANGED <<org, rows, hooks, req, erased>>
  BY DEF RequestAccess
<1>5. Undisturbed
  BY <1>4 DEF OrgInv, Shapes, Undisturbed
<1>6. \A s \in Req : req'[s].op \in {"approve", "deny", "revoke"} => req'[s].grant # g
  BY <1>1, <1>4 DEF OrgInv, DecidersHold
<1>7. QED
  BY <1>1, <1>2, <1>3, <1>4, <1>5, <1>6, GrantWriteKeeps

\* A decision is written by the one request that holds the grant.
LEMMA DecisionKeeps ==
    ASSUME OrgInv, NEW r \in Req, Approve(r) \/ Deny(r) \/ Revoke(r)
    PROVE  OrgInv'
<1>1. /\ req[r].op \in {"approve", "deny", "revoke"}
      /\ req' = [req EXCEPT ![r] = Idle]
      /\ UNCHANGED <<org, rows, hooks, erased>>
  BY DEF Approve, Deny, Revoke, Decide
<1>2. PICK g \in Grant : g = req[r].grant
  BY DEF OrgInv, Shapes, Loaded
<1>3. /\ grant[g] \in SupportGrant /\ grant[g].exists /\ req[r].email \in BOOLEAN
  BY <1>1, <1>2 DEF OrgInv, Shapes, DecidersHold, Loaded
<1>4. PICK new \in SupportGrant : new.exists /\ grant' = [grant EXCEPT ![g] = new]
  <2>1. PICK was, email : was = grant[g] /\ email = req[r].email
    OBVIOUS
  <2>2. was \in SupportGrant /\ was.exists /\ email \in BOOLEAN
    BY <1>3, <2>1
  <2>3. CASE Approve(r)
    <3>1. PICK new : new = [[was EXCEPT !.email = email]
                               EXCEPT !.status = "approved", !.expired = FALSE]
      OBVIOUS
    <3>2. new \in SupportGrant /\ new.exists
      BY <2>2, <3>1 DEF SupportGrant, GrantStatus
    <3>3. grant' = [grant EXCEPT ![g] = new]
      BY <1>2, <2>1, <2>3, <3>1 DEF Approve, Decide, StampDecision
    <3>4. QED
      BY <3>2, <3>3
  <2>4. CASE Deny(r)
    <3>1. PICK new : new = [[was EXCEPT !.email = email] EXCEPT !.status = "denied"]
      OBVIOUS
    <3>2. new \in SupportGrant /\ new.exists
      BY <2>2, <3>1 DEF SupportGrant, GrantStatus
    <3>3. grant' = [grant EXCEPT ![g] = new]
      BY <1>2, <2>1, <2>4, <3>1 DEF Deny, Decide, StampDecision
    <3>4. QED
      BY <3>2, <3>3
  <2>5. CASE Revoke(r)
    <3>1. PICK new : new = [was EXCEPT !.status = "revoked"]
      OBVIOUS
    <3>2. new \in SupportGrant /\ new.exists
      BY <2>2, <3>1 DEF SupportGrant, GrantStatus
    <3>3. grant' = [grant EXCEPT ![g] = new]
      BY <1>2, <2>1, <2>5, <3>1 DEF Revoke, Decide
    <3>4. QED
      BY <3>2, <3>3
  <2>6. QED
    BY <2>3, <2>4, <2>5
<1>5. Undisturbed
  BY <1>1, EndIsQuiet
<1>6. ASSUME NEW s \in Req, req'[s].op \in {"approve", "deny", "revoke"}
      PROVE  req'[s].grant # g
  <2>1. s # r
    BY <1>1, <1>6, IdleShape DEF OrgInv, Shapes
  <2>2. req'[s] = req[s]
    BY <1>1, <2>1 DEF OrgInv, Shapes
  <2>3. HoldsGrant(r, g)
    BY <1>1, <1>2 DEF HoldsGrant
  <2>4. ~HoldsGrant(s, g)
    BY <2>1, <2>3 DEF OrgInv, LocksExclude
  <2>5. QED
    BY <1>6, <2>2, <2>4 DEF HoldsGrant
<1>7. QED
  BY <1>1, <1>4, <1>5, <1>6, GrantWriteKeeps

\* The clock changes no decision.
LEMMA ExpireKeeps ==
    ASSUME OrgInv, NEW g \in Grant, Expire(g)
    PROVE  OrgInv'
<1>1. /\ grant' = [grant EXCEPT ![g].expired = TRUE]
      /\ UNCHANGED <<org, rows, hooks, req, erased>>
  BY DEF Expire
<1>2. /\ grant' \in [Grant -> SupportGrant]
      /\ \A h \in Grant : /\ grant'[h].exists = grant[h].exists
                          /\ grant'[h].status = grant[h].status
  BY <1>1 DEF OrgInv, Shapes, SupportGrant
<1>3. Undisturbed
  BY <1>1 DEF OrgInv, Shapes, Undisturbed
<1>4. Shapes'
  BY <1>1, <1>2 DEF OrgInv, Shapes
<1>5. DecidersHold'
  BY <1>1, <1>2 DEF OrgInv, Shapes, Loaded, DecidersHold
<1>6. Beginnings' /\ OnboardingIsWhole' /\ ErasureIsComplete'
  BY <1>1, <1>2 DEF OrgInv, Beginnings, OnboardingIsWhole, ErasureIsComplete
<1>7. QED
  BY <1>1, <1>3, <1>4, <1>5, <1>6, QuietKeeps DEF OrgInv

\* A step that changes at most the set of registered hooks, which only grows.
LEMMA RestKeeps ==
    ASSUME OrgInv, RegisterErasureHook \/ UNCHANGED vars
    PROVE  OrgInv'
<1>1. UNCHANGED <<org, rows, grant, req, erased>> /\ hooks \subseteq hooks'
  BY DEF RegisterErasureHook, vars
<1>2. Undisturbed
  BY <1>1 DEF OrgInv, Shapes, Undisturbed
<1>3. Shapes'
  BY <1>1 DEF OrgInv, Shapes
<1>4. Beginnings' /\ OnboardingIsWhole' /\ ErasureIsComplete'
  BY <1>1 DEF OrgInv, Beginnings, OnboardingIsWhole, ErasureIsComplete
<1>5. QED
  BY <1>1, <1>2, <1>3, <1>4, QuietKeeps DEF OrgInv

----------------------------------------------------------------------------
Loads(r) ==
    \/ \E s \in Slug : OnboardLoad(r, s)
    \/ \E o \in Org, s \in Status : LoadStatus(r, o, s)
    \/ \E o \in Org, h \in Hold : LoadLegalHold(r, o, h)
    \/ \E o \in Org : EraseLoad(r, o)
    \/ \E o \in Org, t \in Table : BeginInsert(r, o, t)
    \/ \E g \in Grant : \/ ApproveLoad(r, g) \/ DenyLoad(r, g)
                        \/ CompanyRevokeLoad(r, g) \/ PlatformRevokeLoad(r, g)

Decisions(r) == Approve(r) \/ Deny(r) \/ Revoke(r)

\* The steps of the system, by what they do to the invariant.
LEMMA StepCases ==
    ASSUME Next
    PROVE  \/ \E r \in Req : Loads(r)
           \/ \E r \in Req : Rollback(r) /\ req[r].op \in {"erase", "begun", "insert"}
           \/ \E r \in Req, taken \in BOOLEAN : Onboard(r, taken)
           \/ \E r \in Req : SetStatus(r)
           \/ \E r \in Req : SetLegalHold(r)
           \/ \E r \in Req : EraseOrganization(r)
           \/ \E r \in Req, o \in Org : RequestAccess(r, o)
           \/ \E r \in Req : Decisions(r)
           \/ \E r \in Req : InsertRows(r)
           \/ \E r \in Req : InsertCommits(r)
           \/ RegisterErasureHook
           \/ \E g \in Grant : Expire(g)
<1>1. ASSUME NEW r \in Req, PlatformRoutes(r)
      PROVE  \/ Loads(r) \/ SetStatus(r) \/ SetLegalHold(r)
             \/ \E taken \in BOOLEAN : Onboard(r, taken)
  BY <1>1 DEF PlatformRoutes, Loads
<1>2. ASSUME NEW r \in Req, ErasureRoutes(r)
      PROVE  \/ Loads(r)
             \/ Rollback(r) /\ req[r].op \in {"erase", "begun", "insert"}
             \/ EraseOrganization(r)
  <2>1. CASE \E o \in Org : EraseLoad(r, o)
    BY <2>1 DEF Loads
  <2>2. CASE EraseRefused(r)
    BY <2>2 DEF EraseRefused
  <2>3. QED
    BY <1>2, <2>1, <2>2 DEF ErasureRoutes
<1>3. ASSUME NEW r \in Req, PlatformSupportRoutes(r)
      PROVE  Loads(r) \/ Decisions(r) \/ \E o \in Org : RequestAccess(r, o)
  BY <1>3 DEF PlatformSupportRoutes, Loads, Decisions
<1>4. ASSUME NEW r \in Req, CompanySupportRoutes(r)
      PROVE  Loads(r) \/ Decisions(r)
  BY <1>4 DEF CompanySupportRoutes, Loads, Decisions
<1>5. ASSUME NEW r \in Req, TenantWrites(r)
      PROVE  \/ Loads(r) \/ InsertRows(r) \/ InsertCommits(r)
             \/ Rollback(r) /\ req[r].op \in {"erase", "begun", "insert"}
  BY <1>5 DEF TenantWrites, Loads, InsertFails
<1>6. QED
  BY <1>1, <1>2, <1>3, <1>4, <1>5 DEF Next

\* Every step preserves the invariant.
LEMMA StepOrg == OrgInv /\ [Next]_vars => OrgInv'
<1> SUFFICES ASSUME OrgInv, [Next]_vars PROVE OrgInv'
  OBVIOUS
<1>1. CASE UNCHANGED vars
  BY <1>1, RestKeeps
<1>2. CASE Next
  BY <1>2, StepCases, LoadsKeep, RollbackKeeps, OnboardKeeps, SetStatusKeeps,
     SetLegalHoldKeeps, EraseKeeps, RequestAccessKeeps, DecisionKeeps,
     InsertRowsKeeps, InsertCommitsKeeps, RestKeeps, ExpireKeeps, Zenon DEF Loads, Decisions
<1>3. QED
  BY <1>1, <1>2

\* The loads and the writes of the platform leave grants alone; decisions and
\* requests move the one they hold forward.
LEMMA StepGrants ==
    ASSUME OrgInv, Next, NEW g \in Grant
    PROVE  LET was == grant[g].status
               is  == grant'[g].status
           IN  is # was => \/ was = "requested"
                           \/ was = "approved" /\ is = "revoked"
<1>1. CASE UNCHANGED grant
  BY <1>1
<1>2. ASSUME NEW r \in Req, Loads(r) PROVE UNCHANGED grant
  BY <1>2 DEF Loads, OnboardLoad, LoadStatus, LoadLegalHold, EraseLoad, BeginInsert,
     ApproveLoad, DenyLoad, LoadRequested, CompanyRevokeLoad, PlatformRevokeLoad,
     LoadRevocable, BeginWith
<1>3. CASE \E r \in Req : EraseOrganization(r)
  <2>1. PICK waits : grant' = [h \in Grant |-> IF h \in waits
                THEN [grant[h] EXCEPT !.email = FALSE] ELSE grant[h]]
    BY <1>3 DEF EraseOrganization, ScrubDeciderEmails
  <2>2. grant'[g].status = grant[g].status
    BY <2>1 DEF OrgInv, Shapes, SupportGrant
  <2>3. QED
    BY <2>2
<1>4. CASE \E r \in Req, o \in Org : RequestAccess(r, o)
  <2>1. PICK h \in Grant : /\ ~grant[h].exists
                           /\ \E o \in Org : grant' = [grant EXCEPT ![h] =
                                 [exists |-> TRUE, org |-> o, status |-> "requested",
                                  email |-> FALSE, expired |-> FALSE]]
    BY <1>4 DEF RequestAccess
  <2>2. grant'[g].status = grant[g].status
    BY <2>1 DEF OrgInv, Shapes, Beginnings
  <2>3. QED
    BY <2>2
<1>5. CASE \E h \in Grant : Expire(h)
  <2>1. PICK h \in Grant : grant' = [grant EXCEPT ![h].expired = TRUE]
    BY <1>5 DEF Expire
  <2>2. grant'[g].status = grant[g].status
    BY <2>1 DEF OrgInv, Shapes, SupportGrant
  <2>3. QED
    BY <2>2
<1>6. CASE \E r \in Req : Decisions(r)
  <2>1. PICK r \in Req : Decisions(r)
    BY <1>6
  <2>2. PICK h \in Grant : h = req[r].grant
    BY DEF OrgInv, Shapes, Loaded
  <2>3. \A k \in Grant : k # h => grant'[k] = grant[k]
    BY <2>1, <2>2 DEF Decisions, Approve, Deny, Revoke, Decide, OrgInv, Shapes
  <2>4. CASE Approve(r) \/ Deny(r)
    <3>1. grant[h].status = "requested"
      BY <2>2, <2>4 DEF Approve, Deny, Decide, OrgInv, DecidersHold
    <3>2. QED
      BY <2>3, <3>1
  <2>5. CASE Revoke(r)
    <3>1. grant[h].status \in Revocable
      BY <2>2, <2>5 DEF Revoke, Decide, OrgInv, DecidersHold
    <3>2. grant'[h].status = "revoked"
      BY <2>2, <2>5 DEF Revoke, Decide, OrgInv, Shapes, SupportGrant
    <3>3. QED
      BY <2>3, <3>1, <3>2 DEF Revocable
  <2>6. QED
    BY <2>1, <2>4, <2>5 DEF Decisions
<1>7. QED
  BY <1>1, <1>2, <1>3, <1>4, <1>5, <1>6, StepCases DEF Rollback, Onboard, SetStatus,
     SetLegalHold, InsertRows, InsertCommits, RegisterErasureHook

\* Only an erasure records that a company was erased.
LEMMA OnlyErasuresErase ==
    ASSUME OrgInv, Next, event'.action = "org.erased", event' # event
    PROVE  \E r \in Req : EraseOrganization(r)
<1>1. Silence.action # "org.erased"
  BY DEF Silence
<1>2. ASSUME NEW r \in Req, Loads(r) PROVE event' = Silence
  BY <1>2 DEF Loads, OnboardLoad, LoadStatus, LoadLegalHold, EraseLoad, BeginInsert,
     ApproveLoad, DenyLoad, LoadRequested, CompanyRevokeLoad, PlatformRevokeLoad,
     LoadRevocable, BeginWith
<1>3. ASSUME NEW r \in Req, NEW taken \in BOOLEAN, Onboard(r, taken)
      PROVE  event' = Silence \/ event'.action = "org.onboard"
  <2>1. CASE Rollback(r)
    BY <2>1 DEF Rollback
  <2>2. CASE ~Rollback(r)
    <3>1. PICK o \in Org : Record("org.onboard", o, "", "", {})
      BY <1>3, <2>2 DEF Onboard
    <3>2. event'.action = "org.onboard"
      BY <3>1 DEF Record, BuildRow
    <3>3. QED
      BY <3>2
  <2>3. QED
    BY <2>1, <2>2
<1>4. ASSUME NEW r \in Req, SetStatus(r)
      PROVE  event'.action \in {"org.suspend", "org.reactivate", "org.status_change"}
  BY <1>4 DEF SetStatus, Record, BuildRow, StatusAction
<1>5. ASSUME NEW r \in Req, SetLegalHold(r)
      PROVE  event'.action \in {"org.legal_hold.set", "org.legal_hold.clear"}
  BY <1>5 DEF SetLegalHold, Record, BuildRow
<1>6. ASSUME NEW r \in Req, NEW o \in Org, RequestAccess(r, o)
      PROVE  event'.action = "support.requested"
  BY <1>6 DEF RequestAccess, Record, BuildRow
<1>7. ASSUME NEW r \in Req, Decisions(r)
      PROVE  event'.action \in {"support.approved", "support.denied", "support.revoked"}
  <2>1. PICK new, action : /\ action \in {"support.approved", "support.denied", "support.revoked"}
                           /\ Record(action, req[r].org, "", new.status, {})
    <3>1. CASE Approve(r)
      BY <3>1 DEF Approve, Decide
    <3>2. CASE Deny(r)
      BY <3>2 DEF Deny, Decide
    <3>3. CASE Revoke(r)
      BY <3>3 DEF Revoke, Decide
    <3>4. QED
      BY <1>7, <3>1, <3>2, <3>3 DEF Decisions
  <2>2. QED
    BY <2>1 DEF Record, BuildRow
<1>8. ASSUME \/ \E r \in Req : Rollback(r) \/ InsertRows(r) \/ InsertCommits(r)
             \/ RegisterErasureHook
             \/ \E g \in Grant : Expire(g)
      PROVE  event' = Silence
  BY <1>8 DEF Rollback, InsertRows, InsertCommits, RegisterErasureHook, Expire
<1>9. QED
  BY <1>1, <1>2, <1>3, <1>4, <1>5, <1>6, <1>7, <1>8, StepCases

\* What an erasure that commits found under its lock, and what it certifies.
LEMMA StepErasure ==
    ASSUME OrgInv, Next, NEW o \in Org,
           event'.action = "org.erased", event'.org = o, event' # event
    PROVE  /\ org[o].hold = "clear"
           /\ event'.tables \cap WithForeignKey
                 = {t \in WithForeignKey : rows[o][t] # {}}
<1>1. PICK r \in Req : EraseOrganization(r)
  BY OnlyErasuresErase
<1>2. /\ req[r].op = "erase" /\ req[r].from = "clear"
      /\ event' = BuildRow("org.erased", req[r].org, "", "", EraseTables(req[r].org).report)
  BY <1>1 DEF EraseOrganization, Record
<1>3. req[r].org = o /\ event'.tables = EraseTables(o).report
  BY <1>2 DEF BuildRow
<1>4. org[o].hold = "clear" /\ Required \subseteq hooks
  BY <1>2, <1>3 DEF OrgInv, ErasersHold
<1>5. QED
  BY <1>3, <1>4, EraseTablesResult DEF OrgInv, Shapes

\* A status request ends by its commit, which records what it read and wrote.
LEMMA StepStatus ==
    ASSUME OrgInv, Next, NEW r \in Req, req[r].op = "status", ~req[r].overtaken,
           req'[r] = Idle
    PROVE  /\ event'.from = org[req[r].org].status
           /\ event'.to = org'[req[r].org].status
<1>1. req \in [Req -> Loaded]
  BY DEF OrgInv, Shapes
<1>2. req'[r].op = "idle" /\ req' # req
  BY IdleShape
<1>3. ASSUME NEW s \in Req, Loads(s) PROVE FALSE
  <2>1. PICK q : req[s] = Idle /\ req' = [req EXCEPT ![s] = q]
    BY <1>3 DEF Loads, OnboardLoad, LoadStatus, LoadLegalHold, EraseLoad, BeginInsert,
       ApproveLoad, DenyLoad, LoadRequested, CompanyRevokeLoad, PlatformRevokeLoad,
       LoadRevocable, BeginWith
  <2>2. QED
    BY <1>1, <1>2, <2>1, IdleShape
<1>4. ASSUME NEW s \in Req, req[s].op # "status", req' = [req EXCEPT ![s] = Idle]
      PROVE  FALSE
  BY <1>1, <1>2, <1>4
<1>5. ASSUME NEW s \in Req, NEW o \in Org, req[s].op # "status", CommitOrg(s, o)
      PROVE  FALSE
  <2>1. r # s
    BY <1>5
  <2>2. req'[r] = [req[r] EXCEPT !.overtaken =
                      req[r].overtaken \/ (req[r].op # "idle" /\ req[r].org = o)]
    BY <1>5, <2>1 DEF CommitOrg
  <2>3. QED
    BY <1>1, <1>2, <2>2 DEF Loaded
<1>6. CASE SetStatus(r)
  <2>1. PICK o \in Org, from \in Text, to \in Text :
           o = req[r].org /\ from = req[r].from /\ to = req[r].to
    BY <1>1 DEF Loaded
  <2>2. /\ org' = [org EXCEPT ![o].status = IF to = from THEN org[o].status ELSE to]
        /\ event' = BuildRow(StatusAction(to), o, from, to, {})
    BY <1>6, <2>1 DEF SetStatus, Flush, Record
  <2>3. org[o].status = from
    BY <2>1 DEF OrgInv, StatusIsFresh
  <2>4. org'[o].status = to
    BY <2>2, <2>3 DEF OrgInv, Shapes
  <2>5. QED
    BY <2>1, <2>2, <2>3, <2>4 DEF BuildRow
<1>7. ASSUME NEW s \in Req, s # r, SetStatus(s) PROVE FALSE
  <2>1. CommitOrg(s, req[s].org)
    BY <1>7 DEF SetStatus
  <2>2. req'[r] = [req[r] EXCEPT !.overtaken =
                      req[r].overtaken \/ (req[r].op # "idle" /\ req[r].org = req[s].org)]
    BY <1>7, <2>1 DEF CommitOrg
  <2>3. QED
    BY <1>1, <1>2, <2>2 DEF Loaded
<1>8. CASE \E s \in Req : SetLegalHold(s)
  <2>1. PICK s \in Req : req[s].op # "status" /\ CommitOrg(s, req[s].org)
    BY <1>8 DEF SetLegalHold
  <2>2. PICK o \in Org : o = req[s].org
    BY <1>1 DEF Loaded
  <2>3. QED
    BY <1>5, <2>1, <2>2
<1>8a. CASE \E s \in Req : EraseOrganization(s)
  <2>1. PICK s \in Req : req[s].op = "erase" /\ OutliveErasure(s, req[s].org)
    BY <1>8a DEF EraseOrganization
  <2>2. r # s
    BY <2>1
  <2>3. PICK label : \/ req'[r] = req[r]
                     \/ req'[r] = [req[r] EXCEPT !.overtaken = TRUE, !.row = label]
    BY <2>1, <2>2 DEF OutliveErasure
  <2>4. QED
    BY <1>1, <1>2, <2>3 DEF Loaded
<1>8b. CASE \E s \in Req : InsertRows(s)
  <2>1. PICK s \in Req : req[s].op = "begun" /\ req' = [req EXCEPT ![s].op = "insert"]
    BY <1>8b DEF InsertRows
  <2>2. QED
    BY <1>1, <1>2, <2>1
<1>9. CASE \E s \in Req : Rollback(s) /\ req[s].op \in {"erase", "begun", "insert"}
  BY <1>4, <1>9 DEF Rollback
<1>10. CASE \E s \in Req, taken \in BOOLEAN : Onboard(s, taken)
  <2>1. PICK s \in Req : req[s].op = "onboard" /\ req' = [req EXCEPT ![s] = Idle]
    BY <1>10 DEF Onboard, Rollback
  <2>2. QED
    BY <1>4, <2>1
<1>11. CASE \E s \in Req : Decisions(s) \/ InsertCommits(s)
  <2>1. PICK s \in Req : req[s].op # "status" /\ req' = [req EXCEPT ![s] = Idle]
    BY <1>11 DEF Decisions, Approve, Deny, Revoke, Decide, InsertCommits
  <2>2. QED
    BY <1>4, <2>1
<1>12. CASE UNCHANGED req
  BY <1>2, <1>12
<1>13. QED
  BY <1>3, <1>6, <1>7, <1>8, <1>8a, <1>8b, <1>9, <1>10, <1>11, <1>12, StepCases
     DEF RequestAccess, RegisterErasureHook, Expire

----------------------------------------------------------------------------
\* The invariant of every request under its row lock.
THEOREM OrgInvariant == Spec => []OrgInv
BY InitOrg, StepOrg, PTL DEF Spec

\* PlatformOrgService.onboard: the company and its first administrator commit
\* together, whatever the two pre-checks raced with.
THEOREM OnboardedWhole == Spec => []OnboardingIsWhole
<1>1. OrgInv => OnboardingIsWhole
  BY DEF OrgInv
<1>2. QED
  BY <1>1, OrgInvariant, PTL

\* ErasureService.erase_organization: no row inserted, by a transaction committed
\* or still open, when the erasure took the company's lock is left in a table of
\* the company.
THEOREM ErasedWhole == Spec => []ErasureIsComplete
<1>1. OrgInv => ErasureIsComplete
  BY DEF OrgInv
<1>2. QED
  BY <1>1, OrgInvariant, PTL

\* SupportAccessService: a decided grant is never decided again, only revoked.
THEOREM GrantsForward == Spec => GrantsMoveForward
<1>1. OrgInv /\ [Next]_vars => [\A g \in Grant :
        LET was == grant[g].status
            is  == grant'[g].status
        IN  is # was => \/ was = "requested"
                        \/ was = "approved" /\ is = "revoked"]_vars
  BY StepGrants DEF vars
<1>2. QED
  BY <1>1, OrgInvariant, PTL DEF Spec, GrantsMoveForward

\* ErasureService: the legal hold read under FOR UPDATE is the one in force when
\* the erasure commits.
THEOREM HeldIsNotErased == Spec => HoldStopsErasure
<1>1. OrgInv /\ [Next]_vars => [\A o \in Org :
        event'.action = "org.erased" /\ event'.org = o /\ event' # event
            => org[o].hold = "clear"]_vars
  BY StepErasure DEF vars
<1>2. QED
  BY <1>1, OrgInvariant, PTL DEF Spec, HoldStopsErasure

\* ErasureService: the certificate names exactly the tables that had rows,
\* because the hooks run from the tables that cascade to none up to the users.
THEOREM HonestCertificate == Spec => CertificateIsHonest
<1>1. OrgInv /\ [Next]_vars => [\A o \in Org :
        event'.action = "org.erased" /\ event'.org = o /\ event' # event
            => event'.tables \cap WithForeignKey
                   = {t \in WithForeignKey : rows[o][t] # {}}]_vars
  BY StepErasure DEF vars
<1>2. QED
  BY <1>1, OrgInvariant, PTL DEF Spec, CertificateIsHonest

\* PlatformOrgService.set_status: unless another commit wrote the row since the
\* load, the audit row names the transition that was made.
THEOREM TrueStatusAudit == Spec => StatusAuditIsTrue
<1>1. OrgInv /\ [Next]_vars => [\A r \in Req :
        req[r].op = "status" /\ ~req[r].overtaken /\ req'[r] = Idle =>
            /\ event'.from = org[req[r].org].status
            /\ event'.to = org'[req[r].org].status]_vars
  BY StepStatus DEF vars
<1>2. QED
  BY <1>1, OrgInvariant, PTL DEF Spec, StatusAuditIsTrue
=============================================================================
