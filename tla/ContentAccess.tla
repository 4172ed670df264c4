--------------------------- MODULE ContentAccess ---------------------------
(***************************************************************************)
(* Who may read stored mail.  Ingest derives a message's principals from    *)
(* VERIFIED identities and reconciles its grants; the owner of a mailbox    *)
(* may promote a message to the whole organization; retrieval runs on       *)
(* pooled connections of a SELECT-only role whose row-level security reads  *)
(* the organization and the person from transaction-local settings.         *)
(*                                                                         *)
(* Identities are verified and withdrawn outside the code modelled here, at *)
(* any time.  Statements are READ COMMITTED; the writes of a request become *)
(* visible at its commit.                                                   *)
(***************************************************************************)
EXTENDS Naturals, FiniteSets, Sequences

CONSTANTS
    Org, User, Person, Message,
    OrgOf,          \* User \cup Message \cup Person -> Org
    OwnerOf,        \* Message -> the user owning its connection, or None (shared)
    SenderOf,       \* Message -> address of the author
    RecipientsOf,   \* Message -> addresses of the recipients
    Binding,        \* the principal_source_identity rows [source, external, person]
    Writer,         \* ingest and promotion requests
    Reader,         \* retrieval requests
    Connection,     \* connections of the reader pool
    MaxPromotion,   \* bound on the promotion rows kept per message
    None

\* The rows of principal_source_identity: a login or an address, and a person.
SourceIdentity == [source : {"auth"}, external : User, person : Person]
    \cup [source : {"email"}, person : Person,
          external : UNION {RecipientsOf[m] \cup {SenderOf[m]} : m \in Message}]

ASSUME AccessAssumption ==
    /\ OrgOf \in [User \cup Message \cup Person -> Org]
    \* None stands for NULL, which equals no one; requests have slots of their own
    /\ None \notin User \cup Person \cup Reader
    /\ Writer \cap Reader = {}
    /\ Binding \subseteq SourceIdentity
    \* uq_principal_source_identity, per organization
    /\ \A b, c \in Binding : (b.source = c.source /\ b.external = c.external
                              /\ OrgOf[b.person] = OrgOf[c.person]) => b = c
    /\ \A m \in Message : OwnerOf[m] # None => OrgOf[OwnerOf[m]] = OrgOf[m]
    /\ MaxPromotion \in Nat \ {0}

VARIABLES
    verified,       \* the bindings verified now
    everVerified,   \* those verified at some time
    grants,         \* the live acl_grant rows [message, person, provenance]
    content,        \* content[m]: the scope of the message row and of its children
    promotions,     \* promotions[m]: the approvers of its visibility_promotion rows
    pool,           \* pool[k]: role and settings of a pooled connection
    req             \* req[r]: what each request holds between statements

vars == <<verified, everVerified, grants, content, promotions, pool, req>>

-----------------------------------------------------------------------------
Scope == {"org", "restricted"}
Provenance == {"owner", "sender", "recipient"}
AclGrant == [message : Message, person : Person, provenance : Provenance]
VisibilityPromotion == Seq(User)
ContentRow == [message : Scope, children : Scope]

Idle == [at |-> "idle"]

\* Every mail is born restricted; the rows of before migration 0019 have no
\* grant until a re-ingest reconciles them.
BornRestricted == [message |-> "restricted", children |-> "restricted"]

\* A connection that is not in a transaction carries no settings.
Unbound == [org |-> None, person |-> None]
ReaderRole == "oneai_reader"
GlobalRole == "oneai_global"

Init ==
    /\ verified \in SUBSET Binding
    /\ everVerified = verified
    /\ grants = {}
    /\ content = [m \in Message |-> BornRestricted]
    /\ promotions = [m \in Message |-> <<>>]
    \* the pool's URL may name the wrong role
    /\ \E role \in {ReaderRole, GlobalRole} :
            pool = [k \in Connection |-> [role |-> role, scope |-> Unbound, by |-> None]]
    /\ req = [r \in Writer \cup Reader |-> Idle]

\* A reconciliation in flight is no longer alone with what it derived from.
Reconciling(q) == req[q].at \in {"derived", "granted"}
Disturbed == [q \in DOMAIN req |-> IF Reconciling(q) THEN [req[q] EXCEPT !.alone = FALSE]
                                   ELSE req[q]]

\* An identity is bound and verified, or withdrawn, outside this code.
Verify(b) ==
    /\ b \notin verified
    /\ verified' = verified \cup {b}
    /\ everVerified' = everVerified \cup {b}
    /\ req' = Disturbed
    /\ UNCHANGED <<grants, content, promotions, pool>>
Withdraw(b) ==
    /\ b \in verified
    /\ verified' = verified \ {b}
    /\ req' = Disturbed
    /\ UNCHANGED <<everVerified, grants, content, promotions, pool>>

-----------------------------------------------------------------------------
(* Grants: GrantWriter.reconcile_email_message_grants, as the ingest of a   *)
(* re-seen message calls it.                                                *)

\* get_verified_person_id(s): the persons behind the verified identities, in
\* the message's organization.
VerifiedPersons(bindings, m, source, externals) ==
    {b.person : b \in {c \in bindings : /\ c.source = source
                                        /\ c.external \in externals
                                        /\ OrgOf[c.person] = OrgOf[m]}}

\* The principals of a message, each with its strongest role.
DerivePrincipalRoles(bindings, m) ==
    LET owners == VerifiedPersons(bindings, m, "auth", {OwnerOf[m]} \ {None})
        senders == VerifiedPersons(bindings, m, "email", {SenderOf[m]})
        recipients == VerifiedPersons(bindings, m, "email", RecipientsOf[m] \ {SenderOf[m]})
        role(p) == IF p \in owners THEN "owner" ELSE IF p \in senders THEN "sender"
                   ELSE "recipient"
    IN  {[message |-> m, person |-> p, provenance |-> role(p)]
            : p \in owners \cup senders \cup recipients}

Persons(gs) == {g.person : g \in gs}
LiveGrants(m) == {g \in grants : g.message = m}

\* An insert waits for a request that has inserted the same live grant and not
\* committed (uq_acl_grant_live).
InsertWaits(r) ==
    \E q \in Writer \ {r} : /\ req[q].at = "granted" /\ req[q].message = req[r].message
                             /\ Persons(req[q].new) \cap Persons(req[r].principals) # {}

\* The derivation reads the bindings first ...
Derive(r, m) ==
    /\ req[r].at = "idle"
    /\ req' = [req EXCEPT ![r] = [at |-> "derived", message |-> m, alone |-> TRUE,
                                  principals |-> DerivePrincipalRoles(verified, m)]]
    /\ UNCHANGED <<verified, everVerified, grants, content, promotions, pool>>

\* ... insert_live_grant adds what has no live row (ON CONFLICT DO NOTHING) ...
InsertLiveGrants(r) ==
    /\ req[r].at = "derived" /\ ~InsertWaits(r)
    /\ LET m == req[r].message
           new == {g \in req[r].principals : g.person \notin Persons(LiveGrants(m))}
       IN  req' = [req EXCEPT ![r] = [at |-> "granted", message |-> m, alone |-> req[r].alone,
                                      principals |-> req[r].principals, new |-> new]]
    /\ UNCHANGED <<verified, everVerified, grants, content, promotions, pool>>

\* ... and the live rows whose person is no longer derivable are tombstoned.
\* The request commits.
NothingDropsOut(live, principals) == {}
DroppedOut(live, principals) == {g \in live : g.person \notin Persons(principals)}
ReconcileCommits(r) ==
    /\ req[r].at = "granted"
    /\ LET live == LiveGrants(req[r].message) \cup req[r].new
       IN  grants' = (grants \cup req[r].new) \ DroppedOut(live, req[r].principals)
    /\ req' = [Disturbed EXCEPT ![r] = Idle]
    /\ UNCHANGED <<verified, everVerified, content, promotions, pool>>

\* The mail's savepoint or its batch is rolled back.
ReconcileFails(r) ==
    /\ req[r].at \in {"derived", "granted"}
    /\ req' = [req EXCEPT ![r] = Idle]
    /\ UNCHANGED <<verified, everVerified, grants, content, promotions, pool>>

\* tombstone_grants_for_person: a withdrawn principal loses every live grant.
TombstoneForPerson(p) ==
    /\ \E g \in grants : g.person = p
    /\ \A b \in verified : b.person # p
    /\ grants' = {g \in grants : g.person # p}
    /\ req' = Disturbed
    /\ UNCHANGED <<verified, everVerified, content, promotions, pool>>

-----------------------------------------------------------------------------
(* Promotion: PromotionService.promote_email_message.                       *)

HoldsRow(q, m) == req[q].at = "located" /\ req[q].message = m
RowFree(r, m) == \A q \in Writer \ {r} : ~HoldsRow(q, m)

\* get_email_message_for_promotion: located in the approver's organization,
\* FOR UPDATE, so a second request waits and sees what the first left.
Locate(r, u, m) ==
    /\ req[r].at = "idle" /\ OrgOf[u] = OrgOf[m] /\ RowFree(r, m)
    /\ req' = [req EXCEPT ![r] = [at |-> "located", message |-> m, user |-> u,
                                  scope |-> content[m].message]]
    /\ UNCHANGED <<verified, everVerified, grants, content, promotions, pool>>

\* Only the connection's owner may widen; a shared connection has no promoter.
AnyoneMayPromoteShared(u, m) == OwnerOf[m] \in {u, None}
MayPromote(u, m) == OwnerOf[m] # None /\ OwnerOf[m] = u
Refused(r) ==
    \/ req[r].scope = "org"
    \/ ~MayPromote(req[r].user, req[r].message)
    \/ content[req[r].message].message = "org"   \* the UPDATE's own predicate

RefusePromotion(r) ==
    /\ req[r].at = "located" /\ Refused(r)
    /\ req' = [req EXCEPT ![r] = Idle]
    /\ UNCHANGED <<verified, everVerified, grants, content, promotions, pool>>

\* promote_email_message_to_org flips the message and then its children.
Flipped(m) == [message |-> "org", children |-> "org"]

\* trg_*_lineage_guard: no restricted-origin row turns org-visible without a
\* promotion row that names its approver.
LineageGuard(m, rows) == Flipped(m).message = "org" => rows # <<>>

\* Audit row, promotion row, flip, commit.
Promote(r) ==
    /\ req[r].at = "located" /\ ~Refused(r)
    /\ LET m == req[r].message
           rows == IF Len(promotions[m]) < MaxPromotion
                   THEN Append(promotions[m], req[r].user) ELSE promotions[m]
       IN  /\ LineageGuard(m, rows)
           /\ promotions' = [promotions EXCEPT ![m] = rows]
           /\ content' = [content EXCEPT ![m] = Flipped(m)]
    /\ req' = [req EXCEPT ![r] = Idle]
    /\ UNCHANGED <<verified, everVerified, grants, pool>>

-----------------------------------------------------------------------------
(* Retrieval: get_person_scoped_session over the reader pool.               *)

FreeConnection(k) == pool[k].by = None

\* _bind_scope: the settings of this transaction; without a person the setting
\* is left alone.
ApplyScope(held, org, person) ==
    [org |-> org, person |-> IF person = None THEN held.person ELSE person]

\* The settings are transaction-local: they end with it.
SessionWideScope(held) == held
EndScope(held) == Unbound

\* The engine seam: a transaction on the wrong role is aborted before any SQL.
SeamHolds(k) == pool[k].role = ReaderRole

\* resolve_bound_person_id, on a person-less session of its own.
ResolvePerson(r, u, k) ==
    /\ req[r].at = "idle" /\ FreeConnection(k) /\ SeamHolds(k)
    /\ req' = [req EXCEPT ![r] =
                   [at |-> "resolved", user |-> u, served |-> {},
                    persons |-> {b.person : b \in {c \in verified :
                                    /\ c.source = "auth" /\ c.external = u
                                    /\ OrgOf[c.person] = OrgOf[u]}}]]
    /\ pool' = [pool EXCEPT ![k].scope = EndScope(ApplyScope(pool[k].scope, OrgOf[u], None))]
    /\ UNCHANGED <<verified, everVerified, grants, content, promotions>>

BoundPerson(r) == IF req[r].persons = {} THEN None ELSE CHOOSE p \in req[r].persons : TRUE

\* reader_session: every transaction of it binds the connection it is given.
BeginRead(r, k) ==
    /\ req[r].at = "resolved" /\ FreeConnection(k) /\ SeamHolds(k)
    /\ pool' = [pool EXCEPT ![k] =
                   [pool[k] EXCEPT !.by = r, !.scope = ApplyScope(pool[k].scope,
                                              OrgOf[req[r].user], BoundPerson(r))]]
    /\ req' = [req EXCEPT ![r].at = "reading"]
    /\ UNCHANGED <<verified, everVerified, grants, content, promotions>>

\* The org_isolation and visibility policies, as the role is subject to them.
Isolated(k, m) == OrgOf[m] = pool[k].scope.org
VisibleTo(k, m, scope) ==
    \/ scope = "org"
    \/ \E g \in grants : g.message = m /\ g.person = pool[k].scope.person
RowsServed(k) ==
    LET all == Message \X {"message", "children"}
    IN  IF pool[k].role = GlobalRole THEN all
        ELSE {row \in all : /\ Isolated(k, row[1])
                            /\ VisibleTo(k, row[1], content[row[1]][row[2]])}

Read(r, k) ==
    /\ req[r].at = "reading" /\ pool[k].by = r
    /\ req' = [req EXCEPT ![r].served = req[r].served \cup RowsServed(k)]
    /\ UNCHANGED <<verified, everVerified, grants, content, promotions, pool>>

\* The transaction ends; the session goes on or is closed.
EndRead(r, k) ==
    /\ req[r].at = "reading" /\ pool[k].by = r
    /\ pool' = [pool EXCEPT ![k] = [pool[k] EXCEPT !.by = None,
                                                   !.scope = EndScope(pool[k].scope)]]
    /\ \/ req' = [req EXCEPT ![r].at = "resolved"]
       \/ req' = [req EXCEPT ![r] = Idle]
    /\ UNCHANGED <<verified, everVerified, grants, content, promotions>>

Next ==
    \/ \E b \in Binding : Verify(b) \/ Withdraw(b)
    \/ \E p \in Person : TombstoneForPerson(p)
    \/ \E r \in Writer :
        \/ \E m \in Message : Derive(r, m)
        \/ InsertLiveGrants(r) \/ ReconcileCommits(r) \/ ReconcileFails(r)
        \/ \E u \in User, m \in Message : Locate(r, u, m)
        \/ RefusePromotion(r) \/ Promote(r)
    \/ \E r \in Reader, k \in Connection :
        \/ \E u \in User : ResolvePerson(r, u, k)
        \/ BeginRead(r, k) \/ Read(r, k) \/ EndRead(r, k)

Spec == Init /\ [][Next]_vars

-----------------------------------------------------------------------------
(* Correctness.                                                             *)

TypeOK ==
    /\ verified \subseteq everVerified /\ everVerified \subseteq Binding
    /\ grants \subseteq AclGrant
    /\ content \in [Message -> ContentRow]
    /\ \A m \in Message : promotions[m] \in VisibilityPromotion
    /\ \A k \in Connection : pool[k].by \in Reader \cup {None}
    /\ \A r \in Reader : req[r].at \in {"idle", "resolved", "reading"}
    /\ \A r \in Writer : req[r].at \in {"idle", "derived", "granted", "located"}

\* A caller has a right to a message if it is of the caller's organization and
\* either its owner made it org-visible or an identity verified at some time
\* made the caller's person its owner, author or recipient.
Entitled(u, m) ==
    /\ OrgOf[u] = OrgOf[m]
    /\ \/ \E i \in DOMAIN promotions[m] : promotions[m][i] = OwnerOf[m]
       \/ \E b \in everVerified :
            /\ b.source = "auth" /\ b.external = u
            /\ b.person \in Persons(DerivePrincipalRoles(everVerified, m))

\* No caller is ever served a row it has no right to, whatever sessions used the
\* pooled connection before, whatever reconciliations run at once, and also when
\* the pool connects as a role that row-level security does not bind.
NothingLeaks ==
    \A r \in Reader : req[r].at # "idle" =>
        \A row \in req[r].served : Entitled(req[r].user, row[1])

\* Widening is on record exactly once and by the owner (AC5): an org-visible
\* message has one promotion row, of its connection's owner, and a restricted
\* one has none, with promotions of the same message racing.
PromotionIsOnRecord ==
    \A m \in Message :
        IF content[m].message = "org"
        THEN OwnerOf[m] # None /\ promotions[m] = <<OwnerOf[m]>>
        ELSE promotions[m] = <<>>

\* A reconciliation that ran alone leaves the grants of its message to exactly
\* the persons derivable now (AC21): access is withdrawn without the message
\* being deleted, and a binding verified since the first ingest starts to match.
ReconcileSettles ==
    [][\A r \in Writer :
          /\ req[r].at = "granted" /\ req[r].alone
          /\ req'[r].at = "idle" /\ grants' # grants
          => Persons({g \in grants' : g.message = req[r].message})
                = Persons(DerivePrincipalRoles(verified, req[r].message))]_vars
=============================================================================
