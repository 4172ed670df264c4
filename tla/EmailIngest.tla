---------------------------- MODULE EmailIngest ----------------------------
(***************************************************************************)
(* Email ingest: EmailIngestService stores a parsed mail with its           *)
(* recipients, attachments and grants, and EntityResolver turns every       *)
(* participant into a row of the person and company graph that all the      *)
(* mailboxes of an organization share.  Several ingest sessions run at      *)
(* once, each with a ResolutionCache of its own.                            *)
(*                                                                         *)
(* A step is one SQL statement.  A session sees the committed rows and its  *)
(* own (READ COMMITTED); an insert whose unique key another open            *)
(* transaction holds waits for it, an update waits for the row lock.  The   *)
(* sync runner ingests a batch in one transaction with a savepoint per      *)
(* mail; the disk-dump script commits or rolls back after every mail.       *)
(***************************************************************************)
EXTENDS Naturals, FiniteSets, Sequences

CONSTANTS
    Run,            \* the ingest sessions
    SyncRun,        \* those of the sync runner; the others are disk ingests
    Address,        \* normalized addresses
    Host,           \* mail hosts
    Name,           \* cleaned display names
    Mail,           \* parsed mails, one per dedup key
    Participants,   \* Mail -> sequence of [kind, address, name]; the author is entry 1
    Automated,      \* the mails whose origin is automated (parsed.is_automated_origin)
    SeenAt,         \* Mail -> received_at, or None for a mail without a usable date
    Attachments,    \* Mail -> set of attachment contents
    HostOf,         \* Address -> Host, or None for an address with an empty part
    RoleAddress,    \* the addresses whose local part is_role_address recognises
    GenericDomain,  \* the free-mail providers
    IdnDomain,      \* hosts in either IDN wire form
    Registrable,    \* Host -> its eTLD+1
    BoundTo,        \* Address -> the principal of its VERIFIED identity, or None
    Owner,          \* the verified principal of the connection's owner, or None
    MaxId,          \* bound on the ids alive at once
    None

ASSUME IngestAssumption ==
    /\ SyncRun \subseteq Run
    /\ None \notin Address \cup Host \cup Name \cup Mail
    /\ None \notin Nat /\ None \notin Nat \X Nat
    /\ Registrable \in [Host -> Host]
    /\ \A h \in Host : Registrable[Registrable[h]] = Registrable[h]
    /\ HostOf \in [Address -> Host \cup {None}]
    /\ SeenAt \in [Mail -> Nat \cup {None}]
    /\ \A m \in Mail : Participants[m] \in Seq([kind : STRING, address : Address,
                                                name : Name \cup {None}])
    \* the parser emits each recipient edge (kind, address) once
    /\ \A m \in Mail : \A i, j \in DOMAIN Participants[m] :
            /\ Participants[m][i].kind = Participants[m][j].kind
            /\ Participants[m][i].address = Participants[m][j].address
            => i = j
    /\ \A m \in Mail : Participants[m] # <<>> /\ Participants[m][1].kind = "from"
    /\ MaxId \in Nat

VARIABLES
    db,     \* the committed rows
    tx,     \* tx[r]: the rows run r has written and not committed
    mark,   \* mark[r]: tx[r] as it was at the mail's savepoint
    run,    \* run[r]: where run r stands in ingest_email
    cache   \* cache[r]: its ResolutionCache

vars == <<db, tx, mark, run, cache>>

Id == 1..MaxId

\* A map with one more entry, and a map laid over another.
Put(f, k, v) == [x \in DOMAIN f \cup {k} |-> IF x = k THEN v ELSE f[x]]
Over(f, g) == [x \in DOMAIN f \cup DOMAIN g |-> IF x \in DOMAIN f THEN f[x] ELSE g[x]]

-----------------------------------------------------------------------------
(* The rows.  Person rows are updated, so they are a function of the id;    *)
(* every other table is a set of facts, each with the columns that its      *)
(* UNIQUE constraint names.                                                 *)

PersonRow == [name : Name \cup {None}, seen : {None} \cup (Nat \X Nat)]
Company(c) == <<"company", c>>
PersonEmail(a, p) == <<"email", a, p>>
PersonAlias(p, n) == <<"alias", p, n>>
CompanyDomain(h, c) == <<"domain", h, c>>
PersonCompany(p, c) == <<"link", p, c>>
EmailMessage(m, from) == <<"message", m, from>>
EmailRecipient(m, i, p) == <<"recipient", m, i, p>>
EmailAttachment(m, x) == <<"attachment", m, x>>
AclGrant(m, who, why) == <<"grant", m, who, why>>

\* The columns of the fact's UNIQUE constraint (org_id apart).
UniqueKey(f) ==
    CASE f[1] \in {"email", "domain", "message"} -> <<f[1], f[2]>>
      [] f[1] = "grant" -> <<f[1], f[2], f[3]>>
      [] OTHER -> f

NoRows == [facts |-> {}, people |-> <<>>]

Merged(base, top) == [facts |-> base.facts \cup top.facts,
                      people |-> Over(top.people, base.people)]

\* What a statement of run r reads.
View(r) == Merged(db, tx[r])

\* The id the view gives a match key, None if the key is free.
Find(rows, kind, key) ==
    LET hits == {f \in rows.facts : f[1] = kind /\ f[2] = key}
    IN  IF hits = {} THEN None ELSE (CHOOSE f \in hits : TRUE)[3]

GetPersonIdByEmail(r, a) == Find(View(r), "email", a)
GetCompanyIdByDomain(r, h) == Find(View(r), "domain", h)
GetMessageIdByDedup(r, m) ==
    {f \in View(r).facts : f[1] = "message" /\ f[2] = m} # {}

\* Another open transaction holds the unique key: the insert waits.
KeyBusy(r, f) == \E q \in Run \ {r} : \E g \in tx[q].facts : UniqueKey(g) = UniqueKey(f)

\* Another open transaction has updated the person: the update waits.
RowBusy(r, p) == \E q \in Run \ {r} : p \in DOMAIN tx[q].people

Violates(r, f) == \E g \in View(r).facts : UniqueKey(g) = UniqueKey(f)

-----------------------------------------------------------------------------
(* ResolutionCache: entries are staged with the savepoint depth at which    *)
(* they were staged and confirmed by the commit of the transaction.         *)

EmptyCache == [staged |-> <<>>, confirmed |-> <<>>]

Lookup(c, key) ==
    IF key \in DOMAIN c.staged THEN c.staged[key].value
    ELSE IF key \in DOMAIN c.confirmed THEN c.confirmed[key]
    ELSE None

PersonKey(a) == <<"email", a>>
CompanyKey(h) == <<"domain", h>>
NamedMarker(p) == <<"named", p>>
AliasMarker(p, n) == <<"alias", p, n>>
HostMarker(c, h) == <<"host", c, h>>
LinkMarker(p, c) == <<"link", p, c>>
SeenWindow(p) == <<"seen", p>>

Stage(c, key, value, depth) ==
    [c EXCEPT !.staged = Put(c.staged, key, [value |-> value, tag |-> depth])]

CoversUpperEndOnly(c, p, t) ==
    LET window == Lookup(c, SeenWindow(p))
    IN  window # None /\ t <= window[2]
SeenWindowCovers(c, p, t) ==
    LET window == Lookup(c, SeenWindow(p))
    IN  window # None /\ window[1] <= t /\ t <= window[2]

Lesser(a, b) == IF a <= b THEN a ELSE b
Greater(a, b) == IF a <= b THEN b ELSE a

StageSeenWindow(c, p, t, depth) ==
    LET window == Lookup(c, SeenWindow(p))
    IN  Stage(c, SeenWindow(p),
              IF window = None THEN <<t, t>>
              ELSE <<Lesser(window[1], t), Greater(window[2], t)>>, depth)

\* The savepoint depth while a statement of ingest_email runs, outside the
\* resolver's own savepoints: the runner opens one per mail.
Depth(r) == IF r \in SyncRun THEN 1 ELSE 0

\* after_commit fires for a RELEASE too; only the real commit promotes.
Promoted(c) ==
    [staged |-> <<>>,
     confirmed |-> Over([k \in DOMAIN c.staged |-> c.staged[k].value], c.confirmed)]
PromoteOnRelease(c, depth) == Promoted(c)
PromoteStaged(c, depth) == IF depth > 0 THEN c ELSE Promoted(c)

\* after_rollback: everything at depth 0, else what the savepoint staged.
DiscardStaged(c, depth) ==
    LET kept == {k \in DOMAIN c.staged : depth > 0 /\ c.staged[k].tag < depth}
    IN  [c EXCEPT !.staged = [k \in kept |-> c.staged[k]]]

\* A resolver insert in a savepoint of its own (begin_nested): the event the
\* cache hears is a RELEASE or a ROLLBACK TO, one level below the caller's.
AfterSavepoint(r, failed) ==
    IF failed THEN DiscardStaged(cache[r], Depth(r) + 1)
              ELSE PromoteStaged(cache[r], Depth(r) + 1)

\* gen_random_uuid(): an id that no row and no cache knows.
FreshId(kind) ==
    LET taken(i) == \E q \in Run, x \in Address \cup Host :
                        i \in {Find(View(q), kind, x), Lookup(cache[q], <<kind, x>>)}
        free == {i \in Id : ~taken(i)}
    IN  {i \in free : \A j \in free : i <= j}

-----------------------------------------------------------------------------
(* What an address may become.                                              *)

\* The kinds that are routing headers, and an automated author, never become
\* people; nor do role mailboxes and addresses with an empty part.
RoutingKinds == {"reply_to", "sender"}
AllowPerson(m, part) ==
    IF part.kind = "from" THEN m \notin Automated ELSE part.kind \notin RoutingKinds
BecomesPerson(m, part) ==
    /\ HostOf[part.address] # None
    /\ AllowPerson(m, part)
    /\ part.address \notin RoleAddress

\* The company an address is evidence of: none for free mail, for an IDN host
\* and for a host that folds onto a free-mail provider.
ObservedCompany(a) ==
    LET host == HostOf[a]
    IN  IF host = None \/ host \in GenericDomain \cup IdnDomain THEN None
        ELSE IF Registrable[host] \in GenericDomain THEN None
        ELSE Registrable[host]

\* The principals whose verified identities the mail names, each with the
\* strongest of its roles: owner, then sender, then recipient.
DerivePrincipalRoles(m) ==
    LET parts == Participants[m]
        senders == {BoundTo[parts[i].address] : i \in {j \in DOMAIN parts : parts[j].kind = "from"}}
        others == {BoundTo[parts[i].address] : i \in {j \in DOMAIN parts : parts[j].kind # "from"}}
        who == (senders \cup others \cup {Owner}) \ {None}
    IN  {<<w, IF w = Owner THEN "owner" ELSE IF w \in senders THEN "sender" ELSE "recipient">>
            : w \in who}

EmailGrants(m) == {AclGrant(m, g[1], g[2]) : g \in DerivePrincipalRoles(m)}

-----------------------------------------------------------------------------
(* ingest_email, statement by statement.                                    *)

Step == {"idle", "company", "mint_company", "host", "person", "mint_person",
         "name", "alias", "seen", "link", "store", "finish"}

Idle == [at |-> "idle", mail |-> None, part |-> 1, company |-> None,
         person |-> None]

Part(r) == Participants[run[r].mail][run[r].part]
AddressOf(r) == Part(r).address
At(r, step) == run[r].at = step
Go(r, step) == [run[r] EXCEPT !.at = step]

Init ==
    /\ db = NoRows
    /\ tx = [r \in Run |-> NoRows]
    /\ mark = [r \in Run |-> NoRows]
    /\ run = [r \in Run |-> Idle]
    /\ cache = [r \in Run |-> EmptyCache]

With(r, fs) == [facts |-> tx[r].facts \cup fs, people |-> tx[r].people]
Write(r, rows) == tx' = [tx EXCEPT ![r] = rows]

MoveTo(r, next) == run' = [run EXCEPT ![r] = next]
Remember(r, c) == cache' = [cache EXCEPT ![r] = c]

\* The end of a mail that raised nothing: the runner releases the savepoint,
\* the script commits.
CommitRows(r, rows) == db' = Merged(db, rows)
MailDone(r, rows, c) ==
    /\ MoveTo(r, Idle)
    /\ IF r \in SyncRun
       THEN /\ tx' = [tx EXCEPT ![r] = rows]
            /\ Remember(r, PromoteStaged(c, 1))
            /\ UNCHANGED db
       ELSE /\ CommitRows(r, rows)
            /\ tx' = [tx EXCEPT ![r] = NoRows]
            /\ Remember(r, PromoteStaged(c, 0))
    /\ mark' = [mark EXCEPT ![r] = NoRows]

\* A mail already stored: its grants are re-derived and it is skipped.
ReconcileGrants(r, m) ==
    LET live == {f \in View(r).facts : f[1] = "grant" /\ f[2] = m}
        held == {f[3] : f \in live}
    IN  With(r, {g \in EmailGrants(m) : g[3] \notin held})

BeginMail(r, m) ==
    /\ At(r, "idle")
    /\ IF GetMessageIdByDedup(r, m)
       THEN MailDone(r, ReconcileGrants(r, m), cache[r])
       ELSE /\ MoveTo(r, [Idle EXCEPT !.at = "company", !.mail = m])
            /\ mark' = [mark EXCEPT ![r] = tx[r]]
            /\ UNCHANGED <<db, tx, cache>>

\* An insert that tolerates the row being there already: the evidence row of a
\* host, an alias, a link.  The marker is staged either way.
Ensure(r, f, marker, next) ==
    IF Lookup(cache[r], marker) # None
    THEN MoveTo(r, next) /\ UNCHANGED <<tx, cache>>
    ELSE /\ ~KeyBusy(r, f)
         /\ Write(r, IF Violates(r, f) THEN tx[r] ELSE With(r, {f}))
         /\ Remember(r, Stage(AfterSavepoint(r, Violates(r, f)), marker, TRUE, Depth(r)))
         /\ MoveTo(r, next)

\* _observe_company and the lookup half of _get_or_create_company.
LookupCompany(r) ==
    LET key == ObservedCompany(AddressOf(r))
        cached == Lookup(cache[r], CompanyKey(key))
        found == GetCompanyIdByDomain(r, key)
    IN  /\ At(r, "company")
        /\ CASE key = None -> MoveTo(r, [Go(r, "person") EXCEPT !.company = None])
             [] key # None /\ cached # None ->
                    MoveTo(r, [Go(r, "host") EXCEPT !.company = cached])
             [] key # None /\ cached = None /\ found # None ->
                    MoveTo(r, [Go(r, "host") EXCEPT !.company = found])
             [] OTHER -> MoveTo(r, Go(r, "mint_company"))
        /\ IF key # None /\ cached = None /\ found # None
           THEN Remember(r, Stage(cache[r], CompanyKey(key), found, Depth(r)))
           ELSE UNCHANGED cache
        /\ UNCHANGED <<db, tx, mark>>

\* _insert_company: a lost race re-reads the winner.
InsertCompany(r) ==
    LET key == ObservedCompany(AddressOf(r))
    IN  /\ At(r, "mint_company")
        /\ \E c \in FreshId("domain") :
            LET row == CompanyDomain(key, c)
                lost == Violates(r, row)
                id == IF lost THEN GetCompanyIdByDomain(r, key) ELSE c
            IN  /\ ~KeyBusy(r, row)
                /\ Write(r, IF lost THEN tx[r] ELSE With(r, {Company(c), row}))
                /\ Remember(r, Stage(AfterSavepoint(r, lost), CompanyKey(key), id, Depth(r)))
                /\ MoveTo(r, [Go(r, "host") EXCEPT !.company = id])
        /\ UNCHANGED <<db, mark>>

\* _record_observed_host, for a host that is not the company key itself.
RecordObservedHost(r) ==
    LET host == HostOf[AddressOf(r)]
    IN  /\ At(r, "host")
        /\ IF host = ObservedCompany(AddressOf(r))
           THEN MoveTo(r, Go(r, "person")) /\ UNCHANGED <<tx, cache>>
           ELSE Ensure(r, CompanyDomain(host, run[r].company),
                       HostMarker(run[r].company, host), Go(r, "person"))
        /\ UNCHANGED <<db, mark>>

\* The lookup half of _get_or_create_person.
LookupPerson(r) ==
    LET a == AddressOf(r)
        cached == Lookup(cache[r], PersonKey(a))
        found == GetPersonIdByEmail(r, a)
        eligible == BecomesPerson(run[r].mail, Part(r))
        id == IF cached # None THEN cached ELSE found
    IN  /\ At(r, "person")
        /\ MoveTo(r, IF ~eligible THEN [Go(r, "store") EXCEPT !.person = None]
                     ELSE IF id # None THEN [Go(r, "name") EXCEPT !.person = id]
                     ELSE Go(r, "mint_person"))
        /\ IF eligible /\ cached = None /\ found # None
           THEN Remember(r, Stage(cache[r], PersonKey(a), found, Depth(r)))
           ELSE UNCHANGED cache
        /\ UNCHANGED <<db, tx, mark>>

NewPerson(r, p, name) == Put(tx[r].people, p, [name |-> name, seen |-> None])

\* _insert_person: the person and its address are inserted in one savepoint, so
\* a lost race leaves neither.
MintedPerson(r, p, lost) ==
    IF lost THEN tx[r]
    ELSE [facts |-> tx[r].facts \cup {PersonEmail(AddressOf(r), p)},
          people |-> NewPerson(r, p, Part(r).name)]
InsertPerson(r) ==
    /\ At(r, "mint_person")
    /\ \E p \in FreshId("email") :
        LET a == AddressOf(r)
            lost == Violates(r, PersonEmail(a, p))
            id == IF lost THEN GetPersonIdByEmail(r, a) ELSE p
        IN  /\ ~KeyBusy(r, PersonEmail(a, p))
            /\ Write(r, MintedPerson(r, p, lost))
            /\ Remember(r, Stage(AfterSavepoint(r, lost), PersonKey(a), id, Depth(r)))
            /\ MoveTo(r, [Go(r, "name") EXCEPT !.person = id])
    /\ UNCHANGED <<db, mark>>

UpdatePerson(r, p, row) ==
    Write(r, [facts |-> tx[r].facts, people |-> Put(tx[r].people, p, row)])

\* backfill_display_name: the UPDATE matches only a person without a name.
BackfillMatches(r, p) == p \in DOMAIN View(r).people /\ View(r).people[p].name = None
BackfillDisplayName(r) ==
    LET p == run[r].person
        name == Part(r).name
    IN  /\ At(r, "name")
        /\ IF name = None
           THEN MoveTo(r, Go(r, "seen")) /\ UNCHANGED <<tx, cache>>
           ELSE IF Lookup(cache[r], NamedMarker(p)) # None
           THEN MoveTo(r, Go(r, "alias")) /\ UNCHANGED <<tx, cache>>
           ELSE /\ IF BackfillMatches(r, p)
                   THEN /\ ~RowBusy(r, p)
                        /\ UpdatePerson(r, p, [View(r).people[p] EXCEPT !.name = name])
                   ELSE UNCHANGED tx
                /\ Remember(r, Stage(cache[r], NamedMarker(p), TRUE, Depth(r)))
                /\ MoveTo(r, Go(r, "alias"))
        /\ UNCHANGED <<db, mark>>

AddAlias(r) ==
    /\ At(r, "alias")
    /\ Ensure(r, PersonAlias(run[r].person, Part(r).name),
              AliasMarker(run[r].person, Part(r).name), Go(r, "seen"))
    /\ UNCHANGED <<db, mark>>

\* extend_seen_window: LEAST and GREATEST over the row as the lock finds it.  A
\* mail without a date widens nothing.
Widened(row, t) ==
    [row EXCEPT !.seen = IF row.seen = None THEN <<t, t>>
                         ELSE <<Lesser(row.seen[1], t), Greater(row.seen[2], t)>>]
ExtendSeenWindow(r) ==
    LET p == run[r].person
        t == SeenAt[run[r].mail]
    IN  /\ At(r, "seen")
        /\ IF t = None \/ SeenWindowCovers(cache[r], p, t)
           THEN UNCHANGED <<tx, cache>>
           ELSE /\ IF p \in DOMAIN View(r).people
                   THEN ~RowBusy(r, p) /\ UpdatePerson(r, p, Widened(View(r).people[p], t))
                   ELSE UNCHANGED tx
                /\ Remember(r, StageSeenWindow(cache[r], p, t, Depth(r)))
        /\ MoveTo(r, Go(r, "link"))
        /\ UNCHANGED <<db, mark>>

LinkPersonCompany(r) ==
    /\ At(r, "link")
    /\ IF run[r].company = None
       THEN MoveTo(r, Go(r, "store")) /\ UNCHANGED <<tx, cache>>
       ELSE Ensure(r, PersonCompany(run[r].person, run[r].company),
                   LinkMarker(run[r].person, run[r].company), Go(r, "store"))
    /\ UNCHANGED <<db, mark>>

NextPartSkipsLast(r) ==
    IF run[r].part + 1 >= Len(Participants[run[r].mail]) THEN Go(r, "finish")
    ELSE [Go(r, "company") EXCEPT !.part = run[r].part + 1]
NextPart(r) ==
    IF run[r].part = Len(Participants[run[r].mail]) THEN Go(r, "finish")
    ELSE [Go(r, "company") EXCEPT !.part = run[r].part + 1]

\* The author is resolved before the message row is inserted.  A dedup conflict
\* is a mail another session stored meanwhile: reconciled and skipped.
InsertMessage(r) ==
    LET m == run[r].mail
        row == EmailMessage(m, run[r].person)
    IN  /\ At(r, "store") /\ run[r].part = 1
        /\ ~KeyBusy(r, row)
        /\ IF Violates(r, row)
           THEN MailDone(r, ReconcileGrants(r, m), AfterSavepoint(r, TRUE))
           ELSE /\ Write(r, With(r, {row}))
                /\ Remember(r, AfterSavepoint(r, FALSE))
                /\ MoveTo(r, NextPart(r))
                /\ UNCHANGED <<db, mark>>

\* _store_recipients: each recipient is resolved, then inserted.
AddRecipient(r) ==
    /\ At(r, "store") /\ run[r].part > 1
    /\ Write(r, With(r, {EmailRecipient(run[r].mail, run[r].part, run[r].person)}))
    /\ MoveTo(r, NextPart(r))
    /\ UNCHANGED <<db, mark, cache>>

\* _store_attachments and write_email_grants end the mail.
Finish(r) ==
    LET m == run[r].mail
    IN  /\ At(r, "finish")
        /\ MailDone(r, With(r, {EmailAttachment(m, x) : x \in Attachments[m]}
                               \cup EmailGrants(m)), cache[r])

-----------------------------------------------------------------------------
(* Failures and transaction ends.                                           *)

\* A mail that raises anywhere (a parse error, a statement error, a deadlock
\* victim): the runner rolls back to the mail's savepoint and goes on, the
\* script rolls the transaction back.
FailMail(r) ==
    /\ ~At(r, "idle")
    /\ MoveTo(r, Idle)
    /\ Write(r, IF r \in SyncRun THEN mark[r] ELSE NoRows)
    /\ Remember(r, DiscardStaged(cache[r], Depth(r)))
    /\ mark' = [mark EXCEPT ![r] = NoRows]
    /\ UNCHANGED db

\* The end of a batch that still holds its claim.
CommitBatch(r) ==
    /\ r \in SyncRun /\ At(r, "idle") /\ tx[r] # NoRows
    /\ CommitRows(r, tx[r])
    /\ Write(r, NoRows)
    /\ Remember(r, PromoteStaged(cache[r], 0))
    /\ UNCHANGED <<mark, run>>

\* A claim lost at the end of the batch, or the death of the process: the
\* transaction is rolled back and the next run starts with a cache of its own.
Abandon(r) ==
    /\ Write(r, NoRows)
    /\ mark' = [mark EXCEPT ![r] = NoRows]
    /\ MoveTo(r, Idle)
    /\ Remember(r, EmptyCache)
    /\ UNCHANGED db

Next ==
    \E r \in Run :
        \/ \E m \in Mail : BeginMail(r, m)
        \/ LookupCompany(r) \/ InsertCompany(r) \/ RecordObservedHost(r)
        \/ LookupPerson(r) \/ InsertPerson(r)
        \/ BackfillDisplayName(r) \/ AddAlias(r) \/ ExtendSeenWindow(r)
        \/ LinkPersonCompany(r)
        \/ InsertMessage(r) \/ AddRecipient(r) \/ Finish(r)
        \/ FailMail(r) \/ CommitBatch(r) \/ Abandon(r)

Spec == Init /\ [][Next]_vars

-----------------------------------------------------------------------------
(* Correctness.                                                             *)

TypeOK ==
    /\ \A rows \in {db} \cup {tx[r] : r \in Run} \cup {mark[r] : r \in Run} :
            /\ DOMAIN rows.people \subseteq Id
            /\ \A p \in DOMAIN rows.people : rows.people[p] \in PersonRow
    /\ \A r \in Run : /\ run[r].at \in Step
                      /\ run[r].mail \in Mail \cup {None}
                      /\ run[r].company \in Id \cup {None}
                      /\ run[r].person \in Id \cup {None}

\* What a cache entry claims, as a predicate of the rows.
Holds(rows, key, value) ==
    CASE key[1] \in {"email", "domain"} -> Find(rows, key[1], key[2]) = value
      [] key[1] = "named" -> key[2] \in DOMAIN rows.people /\ rows.people[key[2]].name # None
      [] key[1] = "host" -> CompanyDomain(key[3], key[2]) \in rows.facts
      [] key[1] = "seen" -> /\ key[2] \in DOMAIN rows.people
                            /\ rows.people[key[2]].seen # None
                            /\ rows.people[key[2]].seen[1] <= value[1]
                            /\ value[2] <= rows.people[key[2]].seen[2]
      [] OTHER -> key \in rows.facts

\* The cache never claims what the database does not hold: a confirmed entry is
\* true of the committed rows whatever savepoint or transaction was rolled back
\* since, a staged one of the rows the session itself sees.
CacheIsTrue ==
    \A r \in Run :
        /\ \A k \in DOMAIN cache[r].confirmed : Holds(db, k, cache[r].confirmed[k])
        /\ \A k \in DOMAIN cache[r].staged : Holds(View(r), k, cache[r].staged[k].value)

Stored == {f[2] : f \in {g \in db.facts : g[1] = "message"}}

ExpectedPerson(m, i) ==
    IF BecomesPerson(m, Participants[m][i])
    THEN Find(db, "email", Participants[m][i].address) ELSE None

\* A stored mail is whole: author, every recipient with the person of its
\* address (and none for a routing, role or automated one), every attachment
\* and every grant.  No failure between two statements leaves a part of it.
MailIsWhole ==
    LET of(m, kind) == {f \in db.facts : f[1] = kind /\ f[2] = m}
    IN  \A m \in Mail :
            IF m \in Stored
            THEN /\ of(m, "message") = {EmailMessage(m, ExpectedPerson(m, 1))}
                 /\ of(m, "recipient") = {EmailRecipient(m, i, ExpectedPerson(m, i))
                                            : i \in 2..Len(Participants[m])}
                 /\ of(m, "attachment") = {EmailAttachment(m, x) : x \in Attachments[m]}
                 /\ of(m, "grant") = EmailGrants(m)
            ELSE \A kind \in {"recipient", "attachment", "grant"} : of(m, kind) = {}

\* Match keys and entities are one to one: sessions racing to mint the same
\* person or company leave no second row and no row without its key.
KeysMatchEntities ==
    /\ \A p \in DOMAIN db.people :
            Cardinality({f \in db.facts : f[1] = "email" /\ f[3] = p}) = 1
    /\ \A f \in db.facts : f[1] = "email" => f[3] \in DOMAIN db.people
    /\ \A f \in db.facts : f[1] = "domain" => Company(f[3]) \in db.facts
    /\ \A f \in db.facts : f[1] = "company" =>
            Cardinality({g \in db.facts : /\ g[1] = "domain" /\ g[3] = f[2]
                                          /\ Registrable[g[2]] = g[2]}) = 1

\* The graph says what the stored mail says: its entities have their match keys
\* and no entity is there twice; a person's window runs exactly from
\* the first to the last dated mail stored that names them, and is missing when
\* none of them has a date; their aliases are exactly
\* the names they were seen under, their links the companies of their address,
\* although most of these writes are skipped on the word of a cache.
GraphMatchesMail ==
    LET sightings(p) == UNION {{<<m, i>> : i \in {j \in DOMAIN Participants[m] :
                                                    ExpectedPerson(m, j) = p}} : m \in Stored}
    IN  /\ KeysMatchEntities
        /\ \A p \in DOMAIN db.people :
               LET times == {SeenAt[s[1]] : s \in sightings(p)} \ {None}
                   names == {Participants[s[1]][s[2]].name : s \in sightings(p)} \ {None}
                   keys == {ObservedCompany(Participants[s[1]][s[2]].address) : s \in sightings(p)}
                               \ {None}
               IN  /\ sightings(p) # {}
                   /\ IF times = {} THEN db.people[p].seen = None
                      ELSE /\ {db.people[p].seen[1], db.people[p].seen[2]} \subseteq times
                           /\ \A t \in times : /\ db.people[p].seen[1] <= t
                                              /\ t <= db.people[p].seen[2]
                   /\ {f[3] : f \in {g \in db.facts : g[1] = "alias" /\ g[2] = p}} = names
                   /\ {f[3] : f \in {g \in db.facts : g[1] = "link" /\ g[2] = p}}
                           = {Find(db, "domain", k) : k \in keys}
                   /\ (db.people[p].name = None) = (names = {})

=============================================================================
