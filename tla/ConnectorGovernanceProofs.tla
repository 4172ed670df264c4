---------------------- MODULE ConnectorGovernanceProofs ----------------------
(***************************************************************************)
(* Proofs about ConnectorGovernance, for any number of users, mailboxes,   *)
(* connections and requests.                                               *)
(***************************************************************************)
EXTENDS ConnectorGovernance, TLAPS

Boxes    == Mailbox \cup {AnyBox}
Statuses == {"configured", "connected", "error"}
Ops      == {"idle", "create", "disconnect", "delete", "disable", "enable",
             "test", "sync", "orgWide", "override"}

Rows     == [exists : BOOLEAN, used : BOOLEAN, owner : Owner, box : Boxes,
             status : Statuses, disabled : BOOLEAN]
Requests == [op : Ops, owner : Owner, conn : Conn, box : Boxes,
             status : Statuses, last : BOOLEAN, overtaken : BOOLEAN]

\* The types the proofs need.
Shapes == /\ override \in [User -> OverrideType]
          /\ conn \in [Conn -> Rows]
          /\ consent \in [User -> BOOLEAN]
          /\ req \in [Req -> Requests]
          /\ raced \subseteq User
          /\ \A r \in Req : /\ req[r].op = "disconnect" => req[r].owner \in User
                            /\ req[r].op = "delete" => req[r].owner = Shared

\* An id is used once, and a row that is not there is not disabled.
RowsAreUsed == \A c \in Conn : /\ conn[c].exists => conn[c].used
                               /\ ~conn[c].exists => ~conn[c].disabled

\* What a request that loaded a row knows of it at its commit, whatever was
\* committed since: the id is used, and if the row is there it is the owner's.
TargetsAreScoped == \A r \in Req :
    req[r].op \in {"disconnect", "delete", "disable", "enable", "test", "sync"} =>
        /\ conn[req[r].conn].used
        /\ conn[req[r].conn].exists => conn[req[r].conn].owner = req[r].owner

\* A user whose requests never overlapped has one that connects or disconnects ...
OneAtATime == \A u \in User \ raced : \A r, s \in Busy(u) : r = s

\* ... and what it counted is still so.
LastIsLast == \A r \in Req : req[r].op = "disconnect" /\ req[r].owner \notin raced =>
    /\ conn[req[r].conn].exists
    /\ req[r].last <=> (ListForOwner(req[r].owner) = {req[r].conn})

\* Whoever passed the gate is allowed, or was overtaken.
GatedOrOvertaken == \A r \in Req :
    req[r].op \in {"create", "sync"} /\ req[r].owner \in User
        => Access(req[r].owner) = "allowed" \/ req[r].overtaken

GovInv == /\ Shapes /\ RowsAreUsed /\ TargetsAreScoped /\ OneAtATime /\ LastIsLast
          /\ GatedOrOvertaken /\ ConsentFollowsMailboxes

----------------------------------------------------------------------------
\* A free request slot is well-formed.
LEMMA IdleShape == Idle \in Requests /\ Idle.op = "idle"
<1>1. 1 \in Conn
  BY GovernanceAssumption DEF Conn
<1>2. QED
  BY <1>1 DEF Idle, Requests, Ops, Owner, Boxes, Statuses

\* The first states satisfy the invariant.
LEMMA InitGov == Init => GovInv
<1> SUFFICES ASSUME Init PROVE GovInv
  OBVIOUS
<1>1. NoRow \in Rows /\ ~NoRow.exists /\ ~NoRow.disabled
  BY DEF NoRow, Rows, Owner, Boxes, Statuses
<1>2. /\ \A r \in Req : req[r] = Idle /\ req[r].op = "idle"
      /\ \A c \in Conn : conn[c] = NoRow
  BY IdleShape DEF Init
<1>3. Shapes
  BY <1>1, <1>2, IdleShape DEF Init, Shapes, OverrideType
<1>4. RowsAreUsed /\ TargetsAreScoped /\ OneAtATime /\ LastIsLast /\ GatedOrOvertaken
  BY <1>1, <1>2 DEF RowsAreUsed, TargetsAreScoped, OneAtATime, LastIsLast,
     GatedOrOvertaken, Busy
<1>5. ConsentFollowsMailboxes
  BY <1>1, <1>2 DEF Init, ConsentFollowsMailboxes, ListForOwner, GetForOwner
<1>6. QED
  BY <1>3, <1>4, <1>5 DEF GovInv

\* A request may begin when its row is in scope, its gate was passed and, for a
\* disconnect, its count is right.
LEMMA BeginKeeps ==
    ASSUME GovInv, NEW r \in Req, NEW q \in Requests,
           Begin(r, q.op, q.owner, q.conn, q.box, q.status, q.last), ~q.overtaken,
           q.op \in {"disconnect", "delete", "disable", "enable", "test", "sync"} =>
              conn[q.conn].exists /\ conn[q.conn].owner = q.owner,
           q.op = "disconnect" =>
              /\ q.owner \in User
              /\ q.last <=> (ListForOwner(q.owner) = {q.conn}),
           q.op = "delete" => q.owner = Shared,
           q.op \in {"create", "sync"} /\ q.owner \in User => Access(q.owner) = "allowed"
    PROVE  GovInv'
<1>1. /\ req' = [req EXCEPT ![r] = q]
      /\ raced \subseteq raced' /\ raced' \subseteq User
      /\ q.op \in {"create", "disconnect"} /\ q.owner \in User \ raced' => Busy(q.owner) = {}
      /\ UNCHANGED <<entitled, orgWide, override, conn, consent>>
  <2>1. q = [op |-> q.op, owner |-> q.owner, conn |-> q.conn, box |-> q.box,
             status |-> q.status, last |-> q.last, overtaken |-> FALSE]
    BY DEF Requests
  <2>2. raced \subseteq User
    BY DEF GovInv, Shapes
  <2>3. QED
    BY <2>1, <2>2 DEF Begin
<1>2. /\ req' \in [Req -> Requests]
      /\ \A s \in Req : req'[s] = IF s = r THEN q ELSE req[s]
  BY <1>1 DEF GovInv, Shapes
<1>3. Shapes'
  BY <1>1, <1>2 DEF GovInv, Shapes
<1>4. TargetsAreScoped'
  BY <1>1, <1>2 DEF GovInv, TargetsAreScoped, RowsAreUsed, Requests
<1>5. OneAtATime'
  BY <1>1, <1>2 DEF GovInv, OneAtATime, Busy
<1>6. LastIsLast'
  <2>1. \A u \in User : ListForOwner(u)' = ListForOwner(u)
    BY <1>1 DEF ListForOwner, GetForOwner
  <2>2. QED
    BY <1>1, <1>2, <2>1 DEF GovInv, LastIsLast, Shapes
<1>7. GatedOrOvertaken'
  <2>1. \A u \in User : Access(u)' = Access(u)
    BY <1>1 DEF Access, IsEntitled, GetOverrideType, IsOrgWideEnabled
  <2>2. QED
    BY <1>2, <2>1 DEF GovInv, GatedOrOvertaken
<1>8. RowsAreUsed' /\ ConsentFollowsMailboxes'
  BY <1>1 DEF GovInv, RowsAreUsed, ConsentFollowsMailboxes, ListForOwner, GetForOwner
<1>9. QED
  BY <1>3, <1>4, <1>5, <1>6, <1>7, <1>8 DEF GovInv

\* A request that ends without a row appearing, going or changing hands.
LEMMA EndKeeps ==
    ASSUME GovInv, NEW r \in Req, Finish(r), conn' \in [Conn -> Rows], RowsAreUsed',
           \A c \in Conn : /\ conn'[c].exists = conn[c].exists
                           /\ conn'[c].used = conn[c].used
                           /\ conn'[c].owner = conn[c].owner,
           UNCHANGED <<entitled, orgWide, override, consent, raced>>
    PROVE  GovInv'
<1>1. /\ req' \in [Req -> Requests]
      /\ \A s \in Req : req'[s] = IF s = r THEN Idle ELSE req[s]
  BY IdleShape DEF GovInv, Shapes, Finish
<1>2. Shapes'
  BY <1>1, IdleShape DEF GovInv, Shapes
<1>3. TargetsAreScoped'
  BY <1>1, IdleShape DEF GovInv, TargetsAreScoped, Requests
<1>4. OneAtATime'
  BY <1>1, IdleShape DEF GovInv, OneAtATime, Busy
<1>5. \A u \in User : ListForOwner(u)' = ListForOwner(u)
  BY DEF ListForOwner, GetForOwner
<1>6. LastIsLast'
  <2>1. ASSUME NEW s \in Req, NEW u \in User, req'[s].op = "disconnect",
               u = req'[s].owner, u \notin raced'
        PROVE  /\ conn'[req'[s].conn].exists
               /\ req'[s].last <=> (ListForOwner(u)' = {req'[s].conn})
    <3>1. req'[s] = req[s]
      BY <1>1, <2>1, IdleShape
    <3>2. u = req[s].owner /\ req[s].conn \in Conn
      BY <2>1, <3>1 DEF GovInv, Shapes, Requests
    <3>3. ListForOwner(u)' = ListForOwner(u)
      BY <1>5
    <3>4. QED
      BY <2>1, <3>1, <3>2, <3>3 DEF GovInv, LastIsLast
  <2>2. \A s \in Req : req'[s].op = "disconnect" => req'[s].owner \in User
    BY <1>2 DEF Shapes
  <2>3. QED
    BY <2>1, <2>2 DEF LastIsLast
<1>7. GatedOrOvertaken'
  BY <1>1, IdleShape DEF GovInv, GatedOrOvertaken, Access, IsEntitled, GetOverrideType,
     IsOrgWideEnabled
<1>8. ConsentFollowsMailboxes'
  BY <1>5 DEF GovInv, ConsentFollowsMailboxes
<1>9. QED
  BY <1>2, <1>3, <1>4, <1>6, <1>7, <1>8 DEF GovInv

\* A request that fails leaves the rows as they are.
LEMMA RollBackKeeps ==
    ASSUME GovInv, NEW r \in Req, RollBack(r)
    PROVE  GovInv'
<1>1. Finish(r) /\ UNCHANGED <<entitled, orgWide, override, conn, consent, raced>>
  BY DEF RollBack
<1>2. conn' \in [Conn -> Rows] /\ RowsAreUsed'
  BY <1>1 DEF GovInv, Shapes, RowsAreUsed
<1>3. QED
  BY <1>1, <1>2, EndKeeps

\* The late writes to a row that is still there: its status or its switch.
LEMMA RowWriteKeeps ==
    ASSUME GovInv, NEW r \in Req, NEW c \in Conn, NEW row \in Rows, NEW actions,
           conn[c].exists, row.exists, row.used, row.owner = conn[c].owner,
           CommitRow(r, c, row, actions)
    PROVE  GovInv'
<1>1. /\ conn' = [conn EXCEPT ![c] = row] /\ Finish(r)
      /\ UNCHANGED <<entitled, orgWide, override, consent, raced>>
  BY DEF CommitRow
<1>2. /\ conn' \in [Conn -> Rows]
      /\ \A d \in Conn : /\ conn'[d].exists = conn[d].exists
                         /\ conn'[d].used = conn[d].used
                         /\ conn'[d].owner = conn[d].owner
  <2>1. conn[c].exists = TRUE /\ row.exists = TRUE /\ conn[c].used = TRUE /\ row.used = TRUE
    BY DEF GovInv, Shapes, Rows, RowsAreUsed
  <2>2. QED
    BY <1>1, <2>1 DEF GovInv, Shapes
<1>3. RowsAreUsed'
  BY <1>1 DEF GovInv, Shapes, RowsAreUsed
<1>4. QED
  BY <1>1, <1>2, <1>3, EndKeeps

\* Disabling, enabling, a test's outcome, a claim.
LEMMA LateWriteKeeps ==
    ASSUME GovInv, NEW r \in Req,
           \/ Disable(r) \/ Enable(r) \/ StartSync(r)
           \/ \E ok \in BOOLEAN : TestWrite(r, ok)
    PROVE  GovInv'
<1>1. PICK c \in Conn : c = req[r].conn
  BY DEF GovInv, Shapes, Requests
<1>2. conn[c] \in Rows
  BY DEF GovInv, Shapes
<1>3. ASSUME conn[c].exists PROVE conn[c].used
  BY <1>3 DEF GovInv, RowsAreUsed
<1>4. CASE Disable(r) \/ Enable(r)
  <2>1. PICK op \in {"disable", "enable"}, on \in BOOLEAN,
             action \in {"connector.disabled", "connector.enabled"} :
           SetDisabled(r, op, on, action)
    BY <1>4 DEF Disable, Enable
  <2>2. CASE RollBack(r)
    BY <2>2, RollBackKeeps
  <2>3. CASE ~RollBack(r)
    <3>1. PICK row : row = [conn[c] EXCEPT !.disabled = on]
      OBVIOUS
    <3>2. conn[c].exists /\ CommitRow(r, c, row, {action})
      BY <1>1, <2>1, <2>3, <3>1 DEF SetDisabled
    <3>3. row \in Rows /\ row.exists /\ row.used /\ row.owner = conn[c].owner
      BY <1>2, <1>3, <3>1, <3>2 DEF Rows
    <3>4. QED
      BY <3>2, <3>3, RowWriteKeeps
  <2>4. QED
    BY <2>2, <2>3
<1>5. CASE StartSync(r)
  <2>1. PICK row : row = conn[c]
    OBVIOUS
  <2>2. conn[c].exists /\ CommitRow(r, c, row, {"sync.started"})
    BY <1>1, <1>5, <2>1 DEF StartSync, Claimable
  <2>3. QED
    BY <1>2, <1>3, <2>1, <2>2, RowWriteKeeps
<1>6. CASE \E ok \in BOOLEAN : TestWrite(r, ok)
  <2>1. PICK ok \in BOOLEAN : TestWrite(r, ok)
    BY <1>6
  <2>2. CASE RollBack(r)
    BY <2>2, RollBackKeeps
  <2>3. CASE ~RollBack(r)
    <3>1. PICK row : row = TestedRow(r, ok)
      OBVIOUS
    <3>2. conn[c].exists /\ CommitRow(r, c, row, {})
      BY <1>1, <2>1, <2>3, <3>1 DEF TestWrite
    <3>3. PICK status \in Statuses : row = [conn[c] EXCEPT !.status = status]
      BY <1>1, <1>2, <3>1 DEF TestedRow, Flush, Outcome, Rows, Statuses
    <3>4. row \in Rows /\ row.exists /\ row.used /\ row.owner = conn[c].owner
      BY <1>2, <1>3, <3>2, <3>3 DEF Rows
    <3>5. QED
      BY <3>2, <3>4, RowWriteKeeps
  <2>4. QED
    BY <2>2, <2>3
<1>7. QED
  BY <1>4, <1>5, <1>6

----------------------------------------------------------------------------
\* A request that connects a mailbox begins, on either plane.
LEMMA CreateKeeps ==
    ASSUME GovInv, NEW r \in Req, NEW o \in Owner, NEW m \in Mailbox,
           CreateConnection(r, o, m), o \in User => Access(o) = "allowed"
    PROVE  GovInv'
<1>1. PICK q : q = [op |-> "create", owner |-> o, conn |-> 1, box |-> m,
                    status |-> "configured", last |-> FALSE, overtaken |-> FALSE]
  OBVIOUS
<1>2. q \in Requests
  BY <1>1, GovernanceAssumption DEF Requests, Ops, Conn, Boxes, Statuses
<1>3. Begin(r, q.op, q.owner, q.conn, q.box, q.status, q.last)
  BY <1>1 DEF CreateConnection
<1>4. QED
  BY <1>1, <1>2, <1>3, BeginKeeps

\* A request that loaded a row in its scope begins.
LEMMA LoadKeeps ==
    ASSUME GovInv, NEW r \in Req, NEW o \in Owner, NEW c \in Conn, NEW op \in Ops,
           NEW m \in Boxes, NEW status \in Statuses, NEW last \in BOOLEAN,
           Begin(r, op, o, c, m, status, last),
           LoadScoped(c, o), op \in {"disconnect", "delete", "disable", "enable", "test", "sync"},
           op = "disconnect" => o \in User /\ (last <=> (ListForOwner(o) = {c})),
           op = "delete" => o = Shared,
           op = "sync" /\ o \in User => Access(o) = "allowed"
    PROVE  GovInv'
<1>1. PICK q : q = [op |-> op, owner |-> o, conn |-> c, box |-> m,
                    status |-> status, last |-> last, overtaken |-> FALSE]
  OBVIOUS
<1>2. q \in Requests
  BY <1>1 DEF Requests
<1>3. conn[c].exists /\ conn[c].owner = o
  BY DEF LoadScoped, GetSharedInOrg, GetForOwner
<1>4. Begin(r, q.op, q.owner, q.conn, q.box, q.status, q.last)
  BY <1>1
<1>5. QED
  BY <1>1, <1>2, <1>3, <1>4, BeginKeeps

\* The reads of the admin plane.
LEMMA AdminReadKeeps ==
    ASSUME GovInv, NEW r \in Req, AdminRoutes(r)
    PROVE  GovInv'
<1>1. Shared \in Owner /\ Shared \notin User /\ AnyBox \in Boxes
  BY GovernanceAssumption DEF Owner, Boxes
<1>2. ASSUME NEW m \in Mailbox, CreateConnection(r, Shared, m)
      PROVE  GovInv'
  BY <1>1, <1>2, CreateKeeps
<1>3. ASSUME NEW c \in Conn, DeleteRead(r, c)
      PROVE  GovInv'
  <2>1. LoadScoped(c, Shared) /\ Begin(r, "delete", Shared, c, AnyBox, "configured", FALSE)
    BY <1>3 DEF DeleteRead, BeginOn
  <2>2. QED
    BY <1>1, <2>1, LoadKeeps DEF Ops, Statuses
<1>4. ASSUME NEW c \in Conn, DisableRead(r, c) \/ EnableRead(r, c)
      PROVE  GovInv'
  <2>1. PICK op \in {"disable", "enable"} :
           LoadScoped(c, Shared) /\ Begin(r, op, Shared, c, AnyBox, "configured", FALSE)
    BY <1>4 DEF DisableRead, EnableRead, BeginOn
  <2>2. op \in Ops /\ "configured" \in Statuses
    BY DEF Ops, Statuses
  <2>3. QED
    BY <1>1, <2>1, <2>2, LoadKeeps
<1>5. ASSUME NEW c \in Conn, TestConnection(r, Shared, c)
      PROVE  GovInv'
  <2>1. LoadScoped(c, Shared) /\ Begin(r, "test", Shared, c, AnyBox, conn[c].status, FALSE)
    BY <1>5 DEF TestConnection
  <2>2. PICK status \in Statuses : status = conn[c].status
    BY DEF GovInv, Shapes, Rows
  <2>3. QED
    BY <1>1, <2>1, <2>2, LoadKeeps DEF Ops
<1>6. ASSUME NEW c \in Conn, SyncConnection(r, Shared, c)
      PROVE  GovInv'
  <2>1. LoadScoped(c, Shared) /\ Begin(r, "sync", Shared, c, AnyBox, "configured", FALSE)
    BY <1>6 DEF SyncConnection, BeginOn
  <2>2. QED
    BY <1>1, <2>1, LoadKeeps DEF Ops, Statuses
<1>7. QED
  BY <1>2, <1>3, <1>4, <1>5, <1>6 DEF AdminRoutes

\* The reads of the self-service plane.
LEMMA MeReadKeeps ==
    ASSUME GovInv, NEW r \in Req, MeRoutes(r)
    PROVE  GovInv'
<1>1. PICK u \in User :
         \/ \E m \in Mailbox, accepted \in BOOLEAN : SelfConnect(r, u, m, accepted)
         \/ \E c \in Conn : \/ DisconnectRead(r, u, c)
                            \/ TestMyConnection(r, u, c)
                            \/ SyncMyConnection(r, u, c)
  BY DEF MeRoutes
<1>2. u \in Owner /\ AnyBox \in Boxes
  BY DEF Owner, Boxes
<1>3. ASSUME NEW m \in Mailbox, NEW accepted \in BOOLEAN, SelfConnect(r, u, m, accepted)
      PROVE  GovInv'
  BY <1>2, <1>3, CreateKeeps DEF SelfConnect, RequireCurrentAccess
<1>4. ASSUME NEW c \in Conn, DisconnectRead(r, u, c)
      PROVE  GovInv'
  <2>1. PICK last \in BOOLEAN : last <=> LastOfType(u, c)
    OBVIOUS
  <2>2. LoadScoped(c, u) /\ Begin(r, "disconnect", u, c, AnyBox, "configured", LastOfType(u, c))
    BY <1>4 DEF DisconnectRead, BeginOn
  <2>3. LastOfType(u, c) \in BOOLEAN
    BY DEF LastOfType
  <2>4. last = LastOfType(u, c)
    BY <2>1, <2>3
  <2>5. c \in ListForOwner(u)
    BY <2>2, GovernanceAssumption DEF LoadScoped, ListForOwner
  <2>6. last <=> (ListForOwner(u) = {c})
    BY <2>1, <2>5 DEF LastOfType
  <2>7. Begin(r, "disconnect", u, c, AnyBox, "configured", last)
    BY <2>2, <2>4
  <2>8. "disconnect" \in Ops /\ "configured" \in Statuses
    BY DEF Ops, Statuses
  <2>9. QED
    BY <1>2, <2>2, <2>6, <2>7, <2>8, LoadKeeps
<1>5. ASSUME NEW c \in Conn, TestMyConnection(r, u, c)
      PROVE  GovInv'
  <2>1. LoadScoped(c, u) /\ Begin(r, "test", u, c, AnyBox, conn[c].status, FALSE)
    BY <1>5 DEF TestMyConnection, TestConnection
  <2>2. PICK status \in Statuses : status = conn[c].status
    BY DEF GovInv, Shapes, Rows
  <2>3. QED
    BY <1>2, <2>1, <2>2, LoadKeeps DEF Ops
<1>6. ASSUME NEW c \in Conn, SyncMyConnection(r, u, c)
      PROVE  GovInv'
  <2>1. /\ LoadScoped(c, u) /\ Begin(r, "sync", u, c, AnyBox, "configured", FALSE)
        /\ Access(u) = "allowed"
    BY <1>6 DEF SyncMyConnection, SyncConnection, BeginOn, RequireCurrentAccess
  <2>2. QED
    BY <1>2, <2>1, LoadKeeps DEF Ops, Statuses
<1>7. QED
  BY <1>1, <1>3, <1>4, <1>5, <1>6

----------------------------------------------------------------------------
\* The commit of a connect: the id was free, so no other request aims at it; a
\* user whose requests never overlapped has no disconnect in flight.
LEMMA InsertKeeps ==
    ASSUME GovInv, NEW r \in Req, NEW c \in Conn, InsertConnection(r, c)
    PROVE  GovInv'
<1>1. PICK o \in Owner : o = req[r].owner
  BY DEF GovInv, Shapes, Requests
<1>2. PICK m \in Boxes : m = req[r].box
  BY DEF GovInv, Shapes, Requests
<1>3. PICK row : row = NewRow(o, m)
  OBVIOUS
<1>4. row \in Rows /\ row.exists /\ row.used /\ row.owner = o
  BY <1>3 DEF NewRow, Rows, Statuses
<1>5. /\ req[r].op = "create" /\ ~conn[c].used /\ ~conn[c].exists
      /\ conn' = [conn EXCEPT ![c] = row]
      /\ consent' = [u \in User |-> u = o \/ consent[u]]
      /\ Finish(r)
      /\ UNCHANGED <<entitled, orgWide, override, raced>>
  BY <1>1, <1>2, <1>3 DEF InsertConnection, RecordConsent, GovInv, RowsAreUsed
<1>6. /\ req' \in [Req -> Requests]
      /\ \A s \in Req : req'[s] = IF s = r THEN Idle ELSE req[s]
  BY <1>5, IdleShape DEF GovInv, Shapes, Finish
<1>7. /\ conn' \in [Conn -> Rows] /\ conn'[c] = row
      /\ \A d \in Conn \ {c} : conn'[d] = conn[d]
  BY <1>4, <1>5 DEF GovInv, Shapes
<1>8. consent' \in [User -> BOOLEAN] /\ \A u \in User : consent'[u] <=> u = o \/ consent[u]
  BY <1>5 DEF GovInv, Shapes
<1>9. Shapes'
  BY <1>5, <1>6, <1>7, <1>8, IdleShape DEF GovInv, Shapes
<1>10. RowsAreUsed'
  BY <1>4, <1>7 DEF GovInv, RowsAreUsed
<1>11. TargetsAreScoped'
  BY <1>5, <1>6, <1>7, IdleShape DEF GovInv, TargetsAreScoped, Shapes, Requests
<1>12. OneAtATime'
  BY <1>5, <1>6, IdleShape DEF GovInv, OneAtATime, Busy
<1>13. \A u \in User : ListForOwner(u)' = IF u = o THEN ListForOwner(u) \cup {c}
                                                   ELSE ListForOwner(u)
  BY <1>4, <1>5, <1>7 DEF ListForOwner, GetForOwner
<1>14. LastIsLast'
  <2>1. ASSUME NEW s \in Req, NEW u \in User, req'[s].op = "disconnect",
               u = req'[s].owner, u \notin raced'
        PROVE  /\ conn'[req'[s].conn].exists
               /\ req'[s].last <=> (ListForOwner(u)' = {req'[s].conn})
    <3>1. req'[s] = req[s] /\ s # r
      BY <1>5, <1>6, <2>1, IdleShape
    <3>2. u = req[s].owner /\ req[s].conn \in Conn /\ u \notin raced
      BY <1>5, <2>1, <3>1 DEF GovInv, Shapes, Requests
    <3>3. u # o
      BY <1>1, <1>5, <2>1, <3>1, <3>2 DEF GovInv, OneAtATime, Busy
    <3>4. ListForOwner(u)' = ListForOwner(u)
      BY <1>13, <3>3
    <3>5. conn[req[s].conn].exists /\ (req[s].last <=> (ListForOwner(u) = {req[s].conn}))
      BY <2>1, <3>1, <3>2 DEF GovInv, LastIsLast
    <3>6. QED
      BY <1>5, <1>7, <3>1, <3>2, <3>4, <3>5
  <2>2. \A s \in Req : req'[s].op = "disconnect" => req'[s].owner \in User
    BY <1>9 DEF Shapes
  <2>3. QED
    BY <2>1, <2>2 DEF LastIsLast
<1>15. GatedOrOvertaken'
  BY <1>5, <1>6, IdleShape DEF GovInv, GatedOrOvertaken, Access, IsEntitled,
     GetOverrideType, IsOrgWideEnabled
<1>16. ConsentFollowsMailboxes'
  BY <1>5, <1>8, <1>13 DEF GovInv, ConsentFollowsMailboxes
<1>17. QED
  BY <1>9, <1>10, <1>11, <1>12, <1>14, <1>15, <1>16 DEF GovInv

\* A commit that removes the row it loaded, which is its owner's if it is there.
LEMMA RemoveKeeps ==
    ASSUME GovInv, NEW r \in Req, NEW o \in Owner, NEW d \in Conn,
           req[r].op \in {"disconnect", "delete"}, req[r].owner = o, req[r].conn = d,
           conn' = [conn EXCEPT ![d] = GoneRow], Finish(r),
           consent' \in [User -> BOOLEAN],
           \A u \in User \ {o} : consent'[u] <=> consent[u],
           o \in User \ raced => (consent'[o] <=> ListForOwner(o) \ {d} # {}),
           o \in User => req[r].op = "disconnect",
           UNCHANGED <<entitled, orgWide, override, raced>>
    PROVE  GovInv'
<1>1. GoneRow \in Rows /\ ~GoneRow.exists /\ GoneRow.used /\ ~GoneRow.disabled
  BY DEF GoneRow, NoRow, Rows, Owner, Boxes, Statuses
<1>2. /\ req' \in [Req -> Requests]
      /\ \A s \in Req : req'[s] = IF s = r THEN Idle ELSE req[s]
  BY IdleShape DEF GovInv, Shapes, Finish
<1>3. /\ conn' \in [Conn -> Rows] /\ conn'[d] = GoneRow
      /\ \A e \in Conn \ {d} : conn'[e] = conn[e]
  BY <1>1 DEF GovInv, Shapes
<1>4. Shapes'
  BY <1>2, <1>3, IdleShape DEF GovInv, Shapes
<1>5. RowsAreUsed'
  BY <1>1, <1>3 DEF GovInv, RowsAreUsed
<1>6. TargetsAreScoped'
  BY <1>1, <1>2, <1>3, IdleShape DEF GovInv, TargetsAreScoped, Shapes, Requests
<1>7. OneAtATime'
  BY <1>2, IdleShape DEF GovInv, OneAtATime, Busy
<1>8. conn[d].exists => conn[d].owner = o
  BY DEF GovInv, TargetsAreScoped
<1>9. \A u \in User : ListForOwner(u)' = IF u = o THEN ListForOwner(u) \ {d} ELSE ListForOwner(u)
  BY <1>1, <1>3, <1>8 DEF ListForOwner, GetForOwner
<1>10. LastIsLast'
  <2>1. ASSUME NEW s \in Req, NEW u \in User, req'[s].op = "disconnect",
               u = req'[s].owner, u \notin raced'
        PROVE  /\ conn'[req'[s].conn].exists
               /\ req'[s].last <=> (ListForOwner(u)' = {req'[s].conn})
    <3>1. req'[s] = req[s] /\ s # r
      BY <1>2, <2>1, IdleShape
    <3>2. u = req[s].owner /\ req[s].conn \in Conn /\ u \notin raced
      BY <2>1, <3>1 DEF GovInv, Shapes, Requests
    <3>3. u # o
      BY <2>1, <3>1, <3>2 DEF GovInv, OneAtATime, Busy
    <3>4. ListForOwner(u)' = ListForOwner(u)
      BY <1>9, <3>3
    <3>5. /\ conn[req[s].conn].exists /\ conn[req[s].conn].owner = u
          /\ (req[s].last <=> (ListForOwner(u) = {req[s].conn}))
      BY <2>1, <3>1, <3>2 DEF GovInv, LastIsLast, TargetsAreScoped
    <3>6. req[s].conn # d
      BY <1>8, <3>3, <3>5
    <3>7. QED
      BY <1>3, <3>1, <3>2, <3>4, <3>5, <3>6
  <2>2. \A s \in Req : req'[s].op = "disconnect" => req'[s].owner \in User
    BY <1>4 DEF Shapes
  <2>3. QED
    BY <2>1, <2>2 DEF LastIsLast
<1>11. GatedOrOvertaken'
  BY <1>2, IdleShape DEF GovInv, GatedOrOvertaken, Access, IsEntitled,
     GetOverrideType, IsOrgWideEnabled
<1>12. ConsentFollowsMailboxes'
  BY <1>9 DEF GovInv, ConsentFollowsMailboxes
<1>13. QED
  BY <1>4, <1>5, <1>6, <1>7, <1>10, <1>11, <1>12 DEF GovInv

\* A disconnect withdraws the consent with the last mailbox only; a delete by an
\* admin touches no user's.
LEMMA RemovalKeeps ==
    ASSUME GovInv, NEW r \in Req, DisconnectWrite(r) \/ DeleteWrite(r)
    PROVE  GovInv'
<1>1. PICK o \in Owner : o = req[r].owner
  BY DEF GovInv, Shapes, Requests
<1>2. PICK d \in Conn : d = req[r].conn
  BY DEF GovInv, Shapes, Requests
<1>3. CASE DisconnectWrite(r)
  <2>1. /\ req[r].op = "disconnect" /\ conn' = [conn EXCEPT ![d] = GoneRow] /\ Finish(r)
        /\ consent' = IF req[r].last THEN [consent EXCEPT ![o] = FALSE] ELSE consent
        /\ UNCHANGED <<entitled, orgWide, override, raced>>
    BY <1>1, <1>2, <1>3 DEF DisconnectWrite, WithdrawActive
  <2>2. o \in User
    BY <1>1, <2>1 DEF GovInv, Shapes
  <2>3. /\ consent' \in [User -> BOOLEAN]
        /\ \A u \in User \ {o} : consent'[u] <=> consent[u]
        /\ consent'[o] <=> consent[o] /\ ~req[r].last
    BY <2>1, <2>2 DEF GovInv, Shapes
  <2>4. ASSUME o \notin raced PROVE consent'[o] <=> ListForOwner(o) \ {d} # {}
    <3>1. conn[d].exists /\ (req[r].last <=> (ListForOwner(o) = {d}))
      BY <1>1, <1>2, <2>1, <2>4 DEF GovInv, LastIsLast
    <3>2. d \in ListForOwner(o)
      BY <1>1, <1>2, <2>1, <3>1 DEF GovInv, TargetsAreScoped, ListForOwner, GetForOwner
    <3>3. consent[o]
      BY <2>2, <2>4, <3>2 DEF GovInv, ConsentFollowsMailboxes
    <3>4. QED
      BY <2>3, <3>1, <3>2, <3>3
  <2>5. QED
    BY <1>1, <1>2, <2>1, <2>3, <2>4, RemoveKeeps
<1>4. CASE DeleteWrite(r)
  <2>1. /\ req[r].op = "delete" /\ conn' = [conn EXCEPT ![d] = GoneRow] /\ Finish(r)
        /\ UNCHANGED <<entitled, orgWide, override, consent, raced>>
    BY <1>2, <1>4 DEF DeleteWrite, CommitRow
  <2>2. o \notin User /\ consent' \in [User -> BOOLEAN]
    BY <1>1, <2>1, GovernanceAssumption DEF GovInv, Shapes
  <2>3. QED
    BY <1>1, <1>2, <2>1, <2>2, RemoveKeeps
<1>5. QED
  BY <1>3, <1>4

----------------------------------------------------------------------------
\* A change of the plan, the policy or an override overtakes whom it denies.
LEMMA OvertakeKeeps ==
    ASSUME GovInv, override' \in [User -> OverrideType],
           Overtake(entitled', override', orgWide'), UNCHANGED <<conn, consent, raced>>
    PROVE  GovInv'
<1>1. /\ req' \in [Req -> Requests]
      /\ \A r \in Req : /\ req'[r].op = req[r].op /\ req'[r].owner = req[r].owner
                        /\ req'[r].conn = req[r].conn /\ req'[r].last = req[r].last
  BY DEF GovInv, Shapes, Overtake, Requests
<1>2. Shapes'
  BY <1>1 DEF GovInv, Shapes
<1>3. RowsAreUsed' /\ TargetsAreScoped' /\ OneAtATime' /\ ConsentFollowsMailboxes'
  BY <1>1 DEF GovInv, RowsAreUsed, TargetsAreScoped, OneAtATime, Busy,
     ConsentFollowsMailboxes, ListForOwner, GetForOwner
<1>4. \A u \in User : ListForOwner(u)' = ListForOwner(u)
  BY DEF ListForOwner, GetForOwner
<1>5. LastIsLast'
  <2>1. ASSUME NEW r \in Req, NEW u \in User, req'[r].op = "disconnect",
               u = req'[r].owner, u \notin raced'
        PROVE  /\ conn'[req'[r].conn].exists
               /\ req'[r].last <=> (ListForOwner(u)' = {req'[r].conn})
    <3>1. /\ req[r].op = "disconnect" /\ u = req[r].owner /\ u \notin raced
          /\ req'[r].conn = req[r].conn /\ req'[r].last = req[r].last
      BY <1>1, <2>1
    <3>2. /\ conn[req[r].conn].exists
          /\ req[r].last <=> (ListForOwner(u) = {req[r].conn})
      BY <3>1 DEF GovInv, LastIsLast
    <3>3. QED
      BY <1>4, <3>1, <3>2
  <2>2. \A r \in Req : req'[r].op = "disconnect" => req'[r].owner \in User
    BY <1>1 DEF GovInv, Shapes
  <2>3. QED
    BY <2>1, <2>2 DEF LastIsLast
<1>6. GatedOrOvertaken'
  <2>1. ASSUME NEW r \in Req, NEW u \in User, req'[r].owner = u,
               req'[r].op \in {"create", "sync"}, Access(u)' # "allowed"
        PROVE  req'[r].overtaken
    <3>1. Resolve(entitled', override'[u], orgWide') # "allowed"
      BY <2>1 DEF Access, IsEntitled, GetOverrideType, IsOrgWideEnabled, Resolve
    <3>2. req[r].owner = u /\ req[r].op # "idle" /\ req[r] \in Requests
      BY <1>1, <2>1 DEF GovInv, Shapes
    <3>3. req'[r] = [req[r] EXCEPT !.overtaken = TRUE]
      BY <3>1, <3>2 DEF Overtake
    <3>4. QED
      BY <3>2, <3>3 DEF Requests
  <2>2. QED
    BY <2>1 DEF GatedOrOvertaken
<1>7. QED
  BY <1>2, <1>3, <1>5, <1>6 DEF GovInv

\* The plane of the platform and the one of the company's admins.
LEMMA GovernanceKeeps ==
    ASSUME GovInv, PlatformRoutes \/ GovernanceRoutes
    PROVE  GovInv'
<1>1. override \in [User -> OverrideType]
  BY DEF GovInv, Shapes
<1>2. ASSUME NEW on \in BOOLEAN, SetEntitlement(on) \/ SetOrgWide(on)
      PROVE  GovInv'
  BY <1>1, <1>2, OvertakeKeeps DEF SetEntitlement, UpsertEntitlement, SetOrgWide, UpsertPolicy
<1>3. ASSUME NEW u \in User, SetOverride(u, "grant") \/ SetOverride(u, "deny") \/ ClearOverride(u)
      PROVE  GovInv'
  BY <1>1, <1>3, OvertakeKeeps DEF SetOverride, UpsertOverride, ClearOverride,
     DeleteOverride, OverrideType
<1>4. QED
  BY <1>2, <1>3 DEF PlatformRoutes, GovernanceRoutes

----------------------------------------------------------------------------
\* The steps of the system, by what they do to a request.
LEMMA StepCases ==
    ASSUME Next
    PROVE  \/ PlatformRoutes \/ GovernanceRoutes
           \/ \E r \in Req : AdminRoutes(r) \/ MeRoutes(r)
           \/ \E r \in Req : Commit(r)
  BY DEF Next

\* Every step keeps the invariant.
LEMMA StepGov ==
    ASSUME GovInv, [Next]_vars
    PROVE  GovInv'
<1>1. CASE PlatformRoutes \/ GovernanceRoutes
  BY <1>1, GovernanceKeeps
<1>2. ASSUME NEW r \in Req, AdminRoutes(r) \/ MeRoutes(r)
      PROVE  GovInv'
  BY <1>2, AdminReadKeeps, MeReadKeeps
<1>3. ASSUME NEW r \in Req, Commit(r)
      PROVE  GovInv'
  <2>1. CASE \E c \in Conn : InsertConnection(r, c)
    BY <2>1, InsertKeeps
  <2>2. CASE InsertDuplicate(r) \/ ClaimFails(r)
    BY <2>2, RollBackKeeps DEF InsertDuplicate, ClaimFails
  <2>3. CASE DisconnectWrite(r) \/ DeleteWrite(r)
    BY <2>3, RemovalKeeps
  <2>4. CASE \/ Disable(r) \/ Enable(r) \/ StartSync(r)
             \/ \E ok \in BOOLEAN : TestWrite(r, ok)
    BY <2>4, LateWriteKeeps
  <2>5. QED
    BY <1>3, <2>1, <2>2, <2>3, <2>4 DEF Commit
<1>4. CASE UNCHANGED vars
  BY <1>4 DEF vars, GovInv, Shapes, RowsAreUsed, TargetsAreScoped, OneAtATime, Busy,
     LastIsLast, GatedOrOvertaken, ConsentFollowsMailboxes, ListForOwner, GetForOwner,
     Access, IsEntitled, GetOverrideType, IsOrgWideEnabled
<1>5. QED
  BY <1>1, <1>2, <1>3, <1>4, StepCases

\* A read and a governance change touch no row, no consent and end no request.
LEMMA ReadsLoad ==
    ASSUME NEW r \in Req, AdminRoutes(r) \/ MeRoutes(r)
    PROVE  /\ UNCHANGED <<conn, consent>> /\ req[r] = Idle
           /\ \E q : req' = [req EXCEPT ![r] = q]
  BY DEF AdminRoutes, MeRoutes, CreateConnection, SelfConnect, DeleteRead, DisableRead,
     EnableRead, TestConnection, SyncConnection, DisconnectRead, TestMyConnection,
     SyncMyConnection, BeginOn, Begin

\* A change of the plan, the policy or an override ends no request.
LEMMA GovernanceEndsNone ==
    ASSUME GovInv, PlatformRoutes \/ GovernanceRoutes
    PROVE  /\ UNCHANGED <<conn, consent>>
           /\ \A r \in Req : req[r] # Idle => req'[r] # Idle
<1>1. /\ UNCHANGED <<conn, consent>>
      /\ \E ent, ovr, wide : Overtake(ent, ovr, wide)
  BY DEF PlatformRoutes, GovernanceRoutes, SetEntitlement, SetOrgWide, SetOverride,
     ClearOverride
<1>2. \A r \in Req : \/ req'[r] = req[r]
                     \/ req[r].op # "idle" /\ req'[r].op = req[r].op
  BY <1>1 DEF Overtake, GovInv, Shapes, Requests
<1>3. QED
  BY <1>1, <1>2, IdleShape

\* A commit ends its own request and no other.
LEMMA CommitsFinish ==
    ASSUME NEW r \in Req, Commit(r)
    PROVE  Finish(r)
  BY DEF Commit, InsertConnection, InsertDuplicate, DisconnectWrite, DeleteWrite, Disable,
     Enable, SetDisabled, TestWrite, StartSync, ClaimFails, CommitRow, RollBack

\* So a request that ended has just committed or failed.
LEMMA WhoEnds ==
    ASSUME GovInv, Next, NEW r \in Req, req[r] # Idle, req'[r] = Idle
    PROVE  Commit(r)
<1>1. req \in [Req -> Requests]
  BY DEF GovInv, Shapes
<1>2. ASSUME NEW s \in Req, AdminRoutes(s) \/ MeRoutes(s)
      PROVE  FALSE
  BY <1>1, <1>2, ReadsLoad
<1>3. ASSUME NEW s \in Req, Commit(s)
      PROVE  s = r
  BY <1>1, <1>3, CommitsFinish DEF Finish
<1>4. QED
  BY <1>2, <1>3, GovernanceEndsNone, StepCases

----------------------------------------------------------------------------
\* What a test or a claim finds at its commit stays as an admin left it.
LEMMA StepLateWrites ==
    ASSUME GovInv, [Next]_vars, NEW c \in Conn, NEW r \in Req,
           req[r].op \in {"test", "sync"}, req'[r] = Idle, req[r].conn = c
    PROVE  /\ conn'[c].disabled = conn[c].disabled
           /\ conn'[c].exists = conn[c].exists
           /\ "sync.started" \in audit' => conn[c].exists /\ ~conn[c].disabled
<1>1. Commit(r)
  BY WhoEnds, IdleShape DEF vars
<1>2. conn[c] \in Rows /\ conn \in [Conn -> Rows]
  BY DEF GovInv, Shapes
<1>3. CASE \E ok \in BOOLEAN : TestWrite(r, ok)
  BY <1>2, <1>3 DEF TestWrite, CommitRow, RollBack, TestedRow, Rows
<1>4. CASE StartSync(r)
  BY <1>2, <1>4 DEF StartSync, Claimable, CommitRow
<1>5. CASE ClaimFails(r)
  BY <1>5 DEF ClaimFails, RollBack
<1>6. QED
  BY <1>1, <1>3, <1>4, <1>5 DEF Commit, InsertConnection, InsertDuplicate,
     DisconnectWrite, DeleteWrite, Disable, Enable, SetDisabled

\* Only a connect and a claim use the company's plan.
LEMMA StepUse ==
    ASSUME GovInv, [Next]_vars, NEW r \in Req, req[r].owner \in User, req[r] # Idle,
           req'[r] = Idle, audit' \cap {"connector.connected", "sync.started"} # {}
    PROVE  Access(req[r].owner) = "allowed" \/ req[r].overtaken
<1>1. Commit(r)
  BY WhoEnds DEF vars
<1>2. CASE InsertDuplicate(r) \/ ClaimFails(r)
  BY <1>2 DEF InsertDuplicate, ClaimFails, RollBack
<1>3. CASE DisconnectWrite(r)
  BY <1>3 DEF DisconnectWrite, Withdraw
<1>4. CASE DeleteWrite(r)
  BY <1>4 DEF DeleteWrite, CommitRow
<1>5. CASE Disable(r) \/ Enable(r)
  BY <1>5 DEF Disable, Enable, SetDisabled, CommitRow, RollBack
<1>6. CASE \E ok \in BOOLEAN : TestWrite(r, ok)
  BY <1>6 DEF TestWrite, CommitRow, RollBack
<1>7. CASE \/ StartSync(r)
           \/ \E c \in Conn : InsertConnection(r, c)
  <2>1. req[r].op \in {"create", "sync"}
    BY <1>7 DEF StartSync, InsertConnection
  <2>2. QED
    BY <2>1 DEF GovInv, GatedOrOvertaken
<1>8. QED
  BY <1>1, <1>2, <1>3, <1>4, <1>5, <1>6, <1>7 DEF Commit

\* A row changes only in a commit that says so.
LEMMA StepAudit ==
    ASSUME GovInv, [Next]_vars
    PROVE  /\ \A c \in Conn :
                 /\ conn'[c].exists /\ ~conn[c].exists =>
                      "connector.created" \in audit' \/ "connector.connected" \in audit'
                 /\ ~conn'[c].exists /\ conn[c].exists =>
                      "connector.deleted" \in audit' \/ "connector.disconnected" \in audit'
                 /\ conn'[c].exists /\ conn'[c].disabled # conn[c].disabled =>
                      "connector.disabled" \in audit' \/ "connector.enabled" \in audit'
           /\ \A u \in User :
                 /\ ~consent[u] /\ consent'[u] => "connector.consented" \in audit'
                 /\ consent[u] /\ ~consent'[u] => "connector.consent_withdrawn" \in audit'
<1> DEFINE Rec ==
           /\ \A c \in Conn :
                 /\ conn'[c].exists /\ ~conn[c].exists =>
                      "connector.created" \in audit' \/ "connector.connected" \in audit'
                 /\ ~conn'[c].exists /\ conn[c].exists =>
                      "connector.deleted" \in audit' \/ "connector.disconnected" \in audit'
                 /\ conn'[c].exists /\ conn'[c].disabled # conn[c].disabled =>
                      "connector.disabled" \in audit' \/ "connector.enabled" \in audit'
           /\ \A u \in User :
                 /\ ~consent[u] /\ consent'[u] => "connector.consented" \in audit'
                 /\ consent[u] /\ ~consent'[u] => "connector.consent_withdrawn" \in audit'
<1> SUFFICES Rec
  OBVIOUS
<1>1. conn \in [Conn -> Rows] /\ consent \in [User -> BOOLEAN]
  BY DEF GovInv, Shapes
<1>2. CASE UNCHANGED <<conn, consent>>
  BY <1>2
<1>3. ASSUME NEW r \in Req, NEW c \in Conn, InsertConnection(r, c)
      PROVE  Rec
  <2>1. PICK o : o = req[r].owner
    OBVIOUS
  <2>2. /\ conn' = [conn EXCEPT ![c] = NewRow(o, req[r].box)]
        /\ consent' = [u \in User |-> u = o \/ consent[u]]
        /\ audit' = IF o = Shared THEN {"connector.created"}
                    ELSE {"connector.connected", "connector.consented"}
        /\ ~conn[c].exists /\ ~conn[c].disabled
    BY <1>3, <2>1 DEF InsertConnection, RecordConsent, GovInv, RowsAreUsed
  <2>3. \A d \in Conn : d = c \/ conn'[d] = conn[d]
    BY <1>1, <2>2
  <2>4. conn[c].disabled = FALSE /\ conn'[c].disabled = FALSE
    BY <1>1, <2>2 DEF NewRow, Rows
  <2>5. "connector.created" \in audit' \/ "connector.connected" \in audit'
    BY <2>2
  <2>6. \A u \in User : /\ consent[u] => consent'[u]
                        /\ consent'[u] /\ ~consent[u] => u = o
    BY <2>2
  <2>7. o \in User => "connector.consented" \in audit'
    BY <2>2, GovernanceAssumption
  <2>8. QED
    BY <2>2, <2>3, <2>4, <2>5, <2>6, <2>7
<1>4. ASSUME NEW r \in Req, DisconnectWrite(r)
      PROVE  Rec
  <2>1. PICK u : u = req[r].owner
    OBVIOUS
  <2>2. /\ conn' = [conn EXCEPT ![req[r].conn] = GoneRow]
        /\ consent' = IF req[r].last THEN [consent EXCEPT ![u] = FALSE] ELSE consent
        /\ audit' = {"connector.disconnected"} \cup
                    (IF req[r].last THEN Withdraw(u) ELSE {})
    BY <1>4, <2>1 DEF DisconnectWrite, WithdrawActive
  <2>3. \A d \in Conn : conn'[d] = conn[d] \/ ~conn'[d].exists
    BY <1>1, <2>2 DEF GoneRow, NoRow
  <2>4. \A v \in User : /\ consent'[v] => consent[v]
                        /\ consent[v] /\ ~consent'[v] => v = u /\ req[r].last
    BY <1>1, <2>2
  <2>5. consent[u] /\ req[r].last => "connector.consent_withdrawn" \in audit'
    BY <2>2 DEF Withdraw
  <2>6. QED
    BY <2>2, <2>3, <2>4, <2>5
<1>5. ASSUME NEW r \in Req, DeleteWrite(r)
      PROVE  Rec
  <2>1. /\ conn' = [conn EXCEPT ![req[r].conn] = GoneRow]
        /\ consent' = consent /\ audit' = {"connector.deleted"}
    BY <1>5 DEF DeleteWrite, CommitRow
  <2>2. \A d \in Conn : conn'[d] = conn[d] \/ ~conn'[d].exists
    BY <1>1, <2>1 DEF GoneRow, NoRow
  <2>3. QED
    BY <2>1, <2>2
<1>6. ASSUME NEW r \in Req, Disable(r) \/ Enable(r), ~RollBack(r)
      PROVE  Rec
  <2>1. PICK on \in BOOLEAN, action \in {"connector.disabled", "connector.enabled"} :
           /\ conn[req[r].conn].exists
           /\ conn' = [conn EXCEPT ![req[r].conn] = [conn[req[r].conn] EXCEPT !.disabled = on]]
           /\ consent' = consent /\ audit' = {action}
    BY <1>6 DEF Disable, Enable, SetDisabled, CommitRow
  <2>2. \A d \in Conn : conn'[d].exists = conn[d].exists
    BY <1>1, <2>1 DEF Rows
  <2>3. QED
    BY <2>1, <2>2
<1>7. ASSUME NEW r \in Req, NEW ok \in BOOLEAN, TestWrite(r, ok) \/ StartSync(r), ~RollBack(r)
      PROVE  Rec
  <2>1. /\ \/ conn' = [conn EXCEPT ![req[r].conn] = TestedRow(r, ok)]
           \/ conn' = [conn EXCEPT ![req[r].conn] = conn[req[r].conn]]
        /\ consent' = consent
    BY <1>7 DEF TestWrite, StartSync, CommitRow
  <2>2. \A d \in Conn : /\ conn'[d].exists = conn[d].exists
                        /\ conn'[d].disabled = conn[d].disabled
    BY <1>1, <2>1 DEF TestedRow, Rows
  <2>3. QED
    BY <2>1, <2>2
<1>8. ASSUME NEW r \in Req, RollBack(r)
      PROVE  UNCHANGED <<conn, consent>>
  BY <1>8 DEF RollBack
<1>9. ASSUME NEW r \in Req, Commit(r)
      PROVE  Rec
  <2>1. \/ \E c \in Conn : InsertConnection(r, c)
        \/ DisconnectWrite(r) \/ DeleteWrite(r) \/ Disable(r) \/ Enable(r)
        \/ \E ok \in BOOLEAN : TestWrite(r, ok) \/ StartSync(r)
        \/ RollBack(r)
    BY <1>9 DEF Commit, InsertDuplicate, ClaimFails
  <2>2. QED
    BY <1>2, <1>3, <1>4, <1>5, <1>6, <1>7, <1>8, <2>1
<1>10. UNCHANGED vars => UNCHANGED <<conn, consent>>
  BY DEF vars
<1>11. QED
  BY <1>2, <1>9, <1>10, StepCases, ReadsLoad, GovernanceEndsNone

----------------------------------------------------------------------------
\* The invariant holds throughout.
THEOREM GovInvariant == Spec => []GovInv
<1>1. Init => GovInv
  BY InitGov
<1>2. GovInv /\ [Next]_vars => GovInv'
  BY StepGov
<1>3. QED
  BY <1>1, <1>2, PTL DEF Spec

\* MeConnectorService.disconnect_my_connection withdraws with the last mailbox
\* only, self_connect consents with every one: a user whose requests never
\* overlapped has a consent exactly while a mailbox is connected.
THEOREM ConsentFollows == Spec => []ConsentFollowsMailboxes
<1>1. GovInv => ConsentFollowsMailboxes
  BY DEF GovInv
<1>2. QED
  BY <1>1, GovInvariant, PTL

\* ConnectorService.test_connection and the claim of start_sync: what comes late
\* neither lifts a disable nor brings a row back nor starts a disabled one.
THEOREM LateWritesAreHarmless == Spec => LateWritesRespectAdmin
<1>1. GovInv /\ [Next]_vars => [\A c \in Conn, r \in Req :
          (req[r].op \in {"test", "sync"} /\ req'[r] = Idle /\ req[r].conn = c)
             => /\ conn'[c].disabled = conn[c].disabled
                /\ conn'[c].exists = conn[c].exists
                /\ "sync.started" \in audit' => conn[c].exists /\ ~conn[c].disabled]_vars
  BY StepLateWrites
<1>2. QED
  BY <1>1, GovInvariant, PTL DEF Spec, LateWritesRespectAdmin

\* ConnectorAccessService.require_current_access: whoever loses the plan, the
\* policy or an override uses a connection only through a request already past
\* its check.
THEOREM OnlyTheAllowedUse == Spec => UseIsAllowed
<1>1. GovInv /\ [Next]_vars => [\A r \in Req :
          (/\ req[r].owner \in User /\ req[r] # Idle /\ req'[r] = Idle
           /\ audit' \cap {"connector.connected", "sync.started"} # {})
             => Access(req[r].owner) = "allowed" \/ req[r].overtaken]_vars
  BY StepUse
<1>2. QED
  BY <1>1, GovInvariant, PTL DEF Spec, UseIsAllowed

\* ConnectorService and MeConnectorService write the audit row in the transaction
\* of the change, also where two requests raced on the row.
THEOREM EveryChangeIsAudited == Spec => LifecycleIsAudited
<1>1. GovInv /\ [Next]_vars => [
          /\ \A c \in Conn :
               /\ conn'[c].exists /\ ~conn[c].exists =>
                    "connector.created" \in audit' \/ "connector.connected" \in audit'
               /\ ~conn'[c].exists /\ conn[c].exists =>
                    "connector.deleted" \in audit' \/ "connector.disconnected" \in audit'
               /\ conn'[c].exists /\ conn'[c].disabled # conn[c].disabled =>
                    "connector.disabled" \in audit' \/ "connector.enabled" \in audit'
          /\ \A u \in User :
               /\ ~consent[u] /\ consent'[u] => "connector.consented" \in audit'
               /\ consent[u] /\ ~consent'[u] => "connector.consent_withdrawn" \in audit']_vars
  BY StepAudit
<1>2. QED
  BY <1>1, GovInvariant, PTL DEF Spec, LifecycleIsAudited
=============================================================================
