------------------------- MODULE EmailIngestProofs -------------------------
(***************************************************************************)
(* Proofs about EmailIngest: what the resolution caches of the sessions     *)
(* claim is true of the rows, a stored mail is whole, and the graph of      *)
(* people and companies says what the stored mails say.                     *)
(*                                                                         *)
(* The invariants are operators of the committed rows d, the uncommitted    *)
(* rows t and the savepoints k, so that most lemmas are about rows alone:   *)
(* what one insert, one update, one commit or one rollback does to them.    *)
(* A step of a session is then one or two of these.                         *)
(***************************************************************************)
EXTENDS EmailIngest, FiniteSetTheorems, TLAPS

-----------------------------------------------------------------------------
(* The rows a transaction may hold.                                         *)

\* A row of one of the tables that are only inserted into.
IsFact(f) ==
    \/ \E a \in Address, p \in Id : f = PersonEmail(a, p)
    \/ \E h \in Host, c \in Id : f = CompanyDomain(h, c)
    \/ \E c \in Id : f = Company(c)
    \/ \E p \in Id, n \in Name : f = PersonAlias(p, n)
    \/ \E p \in Id, c \in Id : f = PersonCompany(p, c)
    \/ \E m \in Mail, x \in Id \cup {None} : f = EmailMessage(m, x)
    \/ \E m \in Mail : \E i \in DOMAIN Participants[m], x \in Id \cup {None} :
            f = EmailRecipient(m, i, x)
    \/ \E m \in Mail : \E x \in Attachments[m] : f = EmailAttachment(m, x)
    \/ \E m \in Mail : f \in EmailGrants(m)

IsPeople(g) == \E S \in SUBSET Id : g \in [S -> PersonRow]

IsRows(rows) ==
    /\ rows = [facts |-> rows.facts, people |-> rows.people]
    /\ \A f \in rows.facts : IsFact(f)
    /\ IsPeople(rows.people)

\* Some transaction, or the database, holds the row.
Known(d, t, f) == f \in d.facts \/ \E q \in Run : f \in t[q].facts

\* A later version of a person's row.
Widens(old, new) ==
    /\ old.name # None => new.name # None
    /\ old.seen # None => /\ new.seen # None
                          /\ new.seen[1] <= old.seen[1]
                          /\ old.seen[2] <= new.seen[2]

Extends(old, new) ==
    /\ old.facts \subseteq new.facts
    /\ \A p \in DOMAIN old.people : /\ p \in DOMAIN new.people
                                    /\ Widens(old.people[p], new.people[p])

\* A match key names one entity and a person has one address; a company has
\* one key of its own, the hosts that fold onto it apart.
KeysUnique(d, t) ==
    /\ \A a, b, p, q : Known(d, t, PersonEmail(a, p)) /\ Known(d, t, PersonEmail(b, q))
                       => ((a = b) <=> (p = q))
    /\ \A g, h, b, c : Known(d, t, CompanyDomain(g, b)) /\ Known(d, t, CompanyDomain(h, c))
                       => /\ g = h => b = c
                          /\ b = c /\ Registrable[g] = g /\ Registrable[h] = h => g = h
    /\ \A m, x, y : Known(d, t, EmailMessage(m, x)) /\ Known(d, t, EmailMessage(m, y))
                       => x = y

\* What a session with the uncommitted rows L sees is closed: no person without
\* an address, no host without its company, no company without its key.
Layer(d, L) ==
    /\ \A p \in DOMAIN d.people \cup DOMAIN L.people :
            \E a \in Address : PersonEmail(a, p) \in d.facts \cup L.facts
    /\ \A a, p : PersonEmail(a, p) \in d.facts \cup L.facts
                    => p \in DOMAIN d.people \cup DOMAIN L.people
    /\ \A h, c : CompanyDomain(h, c) \in d.facts \cup L.facts
                    => /\ CompanyDomain(Registrable[h], c) \in d.facts \cup L.facts
                       /\ Company(c) \in d.facts \cup L.facts
    /\ \A c : Company(c) \in d.facts \cup L.facts
                    => \E h \in Host : /\ Registrable[h] = h
                                       /\ CompanyDomain(h, c) \in d.facts \cup L.facts
    /\ \A p \in DOMAIN d.people \cap DOMAIN L.people : Widens(d.people[p], L.people[p])

\* The rows of every session together.
RowsInv(d, t, k) ==
    /\ IsRows(d)
    /\ \A r \in Run : IsRows(t[r]) /\ IsRows(k[r])
    /\ KeysUnique(d, t)
    \* a person's row is locked by the one transaction that updated it
    /\ \A q, r \in Run : DOMAIN t[q].people \cap DOMAIN t[r].people # {} => q = r
    \* a savepoint is an earlier state of its transaction
    /\ \A r \in Run : /\ k[r].facts \subseteq t[r].facts
                      /\ DOMAIN k[r].people \subseteq DOMAIN t[r].people
    /\ Layer(d, NoRows)
    /\ \A r \in Run : Layer(d, t[r]) /\ Layer(d, k[r])

-----------------------------------------------------------------------------
(* The caches.                                                              *)

\* A key of the cache with the value it is staged with.
IsEntry(k, v) ==
    \/ \E a \in Address : k = PersonKey(a) /\ v \in Id
    \/ \E h \in Host : k = CompanyKey(h) /\ v \in Id
    \/ \E p \in Id : k = NamedMarker(p) /\ v = TRUE
    \/ \E p \in Id, n \in Name : k = AliasMarker(p, n) /\ v = TRUE
    \/ \E c \in Id, h \in Host : k = HostMarker(c, h) /\ v = TRUE
    \/ \E p \in Id, c \in Id : k = LinkMarker(p, c) /\ v = TRUE
    \/ \E p \in Id : k = SeenWindow(p) /\ v \in Nat \X Nat

\* Holds, with the match key's row in place of the lookup.
Claim(rows, k, v) ==
    /\ IsEntry(k, v)
    /\ CASE k[1] = "email" -> PersonEmail(k[2], v) \in rows.facts
         [] k[1] = "domain" -> CompanyDomain(k[2], v) \in rows.facts
         [] OTHER -> Holds(rows, k, v)

IsCache(c) ==
    /\ c = [staged |-> c.staged, confirmed |-> c.confirmed]
    /\ c.staged = [x \in DOMAIN c.staged |-> c.staged[x]]
    /\ c.confirmed = [x \in DOMAIN c.confirmed |-> c.confirmed[x]]

CachesInv(d, t, c) ==
    \A r \in Run :
        /\ IsCache(c[r])
        /\ \A k \in DOMAIN c[r].confirmed : Claim(d, k, c[r].confirmed[k])
        /\ \A k \in DOMAIN c[r].staged :
                /\ Claim(Merged(d, t[r]), k, c[r].staged[k].value)
                /\ c[r].staged[k].tag = Depth(r)

-----------------------------------------------------------------------------
(* Where a session stands.                                                  *)

\* The steps at which the company, and the person, of the part are settled.
CompanySettled == {"host", "person", "mint_person", "name", "alias", "seen", "link", "store"}
PersonSettled == {"name", "alias", "seen", "link", "store"}
PersonSteps == {"mint_person", "name", "alias", "seen", "link"}

PartOf(u) == Participants[u.mail][u.part]
CompanyOf(u) == ObservedCompany(PartOf(u).address)

\* The session's local variables name rows F that it sees.
Standing(F, u) ==
    /\ u = [at |-> u.at, mail |-> u.mail, part |-> u.part, company |-> u.company,
            person |-> u.person]
    /\ u.at \in Step /\ u.mail \in Mail \cup {None}
    /\ u.company \in Id \cup {None} /\ u.person \in Id \cup {None}
    /\ u.at = "idle" => u = Idle
    /\ u.at # "idle" => u.mail \in Mail /\ u.part \in DOMAIN Participants[u.mail]
    /\ u.at \in {"mint_company", "host"} => CompanyOf(u) # None
    /\ u.at \in CompanySettled /\ CompanyOf(u) = None => u.company = None
    /\ u.at \in CompanySettled /\ CompanyOf(u) # None
            => CompanyDomain(CompanyOf(u), u.company) \in F
    /\ u.at \in PersonSteps => BecomesPerson(u.mail, PartOf(u))
    /\ u.at = "alias" => PartOf(u).name # None
    /\ u.at \in PersonSettled /\ BecomesPerson(u.mail, PartOf(u))
            => PersonEmail(PartOf(u).address, u.person) \in F
    /\ u.at \in PersonSettled /\ ~BecomesPerson(u.mail, PartOf(u)) => u.person = None

StandingInv(d, t, u) == \A r \in Run : Standing(d.facts \cup t[r].facts, u[r])

\* The invariant, of any state.
IngestInvOf(d, t, k, u, c) ==
    /\ t = [r \in Run |-> t[r]] /\ k = [r \in Run |-> k[r]]
    /\ u = [r \in Run |-> u[r]] /\ c = [r \in Run |-> c[r]]
    /\ RowsInv(d, t, k)
    /\ CachesInv(d, t, c)
    /\ StandingInv(d, t, u)
    /\ \A r \in Run : u[r].at = "idle" => k[r] = NoRows

IngestInv == IngestInvOf(db, tx, mark, run, cache)

-----------------------------------------------------------------------------
(* Rows.                                                                    *)

\* A version of a row is a later version of itself, and versions compose.
LEMMA WidensReflexive ==
    ASSUME NEW x \in PersonRow
    PROVE  Widens(x, x)
BY DEF Widens, PersonRow

\* Two widenings in a row are one: a seen window only grows.
LEMMA WidensTransitive ==
    ASSUME NEW x \in PersonRow, NEW y \in PersonRow, NEW z \in PersonRow,
           Widens(x, y), Widens(y, z)
    PROVE  Widens(x, z)
<1>1. CASE x.seen = None
  BY <1>1 DEF Widens
<1>2. CASE x.seen # None
  <2>1. y.seen # None /\ z.seen # None
    BY <1>2 DEF Widens
  <2>2. x.seen \in Nat \X Nat /\ y.seen \in Nat \X Nat /\ z.seen \in Nat \X Nat
    BY <1>2, <2>1 DEF PersonRow
  <2>3. PICK a \in Nat, b \in Nat, e \in Nat, f \in Nat, g \in Nat, h \in Nat :
            /\ a = x.seen[1] /\ b = x.seen[2] /\ e = y.seen[1] /\ f = y.seen[2]
            /\ g = z.seen[1] /\ h = z.seen[2]
    BY <2>2
  <2>4. e <= a /\ b <= f /\ g <= e /\ f <= h
    BY <1>2, <2>1, <2>3 DEF Widens
  <2>5. g <= a /\ b <= h
    BY <2>3, <2>4
  <2>6. QED
    BY <2>1, <2>3, <2>5 DEF Widens
<1>3. QED
  BY <1>1, <1>2

\* What is in the rows of a database with a transaction's rows over them.
LEMMA MergedParts ==
    ASSUME NEW d, NEW L
    PROVE  /\ Merged(d, L).facts = d.facts \cup L.facts
           /\ DOMAIN Merged(d, L).people = DOMAIN d.people \cup DOMAIN L.people
           /\ \A p \in DOMAIN L.people : Merged(d, L).people[p] = L.people[p]
           /\ \A p \in DOMAIN d.people \ DOMAIN L.people :
                    Merged(d, L).people[p] = d.people[p]
BY DEF Merged, Over

\* The people of well-formed rows are a function from ids to person rows.
LEMMA PeopleRows ==
    ASSUME NEW L, IsRows(L)
    PROVE  /\ DOMAIN L.people \subseteq Id
           /\ \A p \in DOMAIN L.people : L.people[p] \in PersonRow
           /\ L.people = [p \in DOMAIN L.people |-> L.people[p]]
BY DEF IsRows, IsPeople

\* Rows are well-formed when their facts and their people are.
LEMMA RowsFromParts ==
    ASSUME NEW F, NEW g, \A f \in F : IsFact(f), DOMAIN g \subseteq Id,
           g = [p \in DOMAIN g |-> g[p]],
           \A p \in DOMAIN g : g[p] \in PersonRow
    PROVE  IsRows([facts |-> F, people |-> g])
BY DEF IsRows, IsPeople

\* What a session sees, its own rows over the committed ones, is well-formed.
LEMMA MergedRows ==
    ASSUME NEW d, NEW L, IsRows(d), IsRows(L)
    PROVE  IsRows(Merged(d, L))
<1> DEFINE g == Over(L.people, d.people)
<1>1. Merged(d, L) = [facts |-> d.facts \cup L.facts, people |-> g]
  BY DEF Merged
<1>2. \A f \in d.facts \cup L.facts : IsFact(f)
  BY DEF IsRows
<1>3. /\ DOMAIN g \subseteq Id
      /\ g = [p \in DOMAIN g |-> g[p]]
      /\ \A p \in DOMAIN g : g[p] \in PersonRow
  BY PeopleRows DEF Over
<1>4. QED
  BY <1>1, <1>2, <1>3, RowsFromParts

\* A transaction starts without rows.
LEMMA EmptyRows == IsRows(NoRows) /\ NoRows.facts = {} /\ DOMAIN NoRows.people = {}
<1>1. NoRows.people = << >> /\ NoRows.facts = {}
  BY DEF NoRows
<1>2. DOMAIN << >> = {}
  OBVIOUS
<1>3. << >> = [p \in {} |-> << >>[p]]
  OBVIOUS
<1>4. QED
  BY <1>1, <1>2, <1>3, RowsFromParts DEF NoRows

\* Nothing laid over the rows changes nothing.
LEMMA MergedNothing ==
    ASSUME NEW d, IsRows(d)
    PROVE  Merged(d, NoRows) = d
<1>1. Over(NoRows.people, d.people) = d.people
  BY EmptyRows, PeopleRows DEF Over
<1>2. QED
  BY <1>1, EmptyRows DEF Merged, IsRows

\* Rows extend themselves.
LEMMA ExtendsReflexive ==
    ASSUME NEW a, IsRows(a)
    PROVE  Extends(a, a)
BY PeopleRows, WidensReflexive DEF Extends

\* What a session sees is a later version of what is committed.
LEMMA ViewExtends ==
    ASSUME NEW d, NEW L, IsRows(d), IsRows(L), Layer(d, L)
    PROVE  Extends(d, Merged(d, L))
<1>1. d.facts \subseteq Merged(d, L).facts
  BY MergedParts
<1>2. ASSUME NEW p \in DOMAIN d.people
      PROVE  p \in DOMAIN Merged(d, L).people /\ Widens(d.people[p], Merged(d, L).people[p])
  <2>1. CASE p \in DOMAIN L.people
    <3>1. p \in DOMAIN d.people \cap DOMAIN L.people
      BY <1>2, <2>1
    <3>2. Widens(d.people[p], L.people[p])
      BY <3>1 DEF Layer
    <3>3. QED
      BY <2>1, <3>2, MergedParts
  <2>2. CASE p \notin DOMAIN L.people
    <3>1. Widens(d.people[p], d.people[p])
      BY <1>2, PeopleRows, WidensReflexive
    <3>2. p \in DOMAIN d.people \ DOMAIN L.people
      BY <1>2, <2>2
    <3>3. QED
      BY <3>1, <3>2, MergedParts
  <2>3. QED
    BY <2>1, <2>2
<1>3. QED
  BY <1>1, <1>2 DEF Extends

-----------------------------------------------------------------------------
(* The kinds of facts.                                                      *)

\* A grant is a grant of its mail.
LEMMA GrantFacts ==
    ASSUME NEW m, NEW f \in EmailGrants(m)
    PROVE  f[1] = "grant" /\ f[2] = m
BY DEF EmailGrants, AclGrant

\* An address row names an address and a person id, and is no other kind of row.
LEMMA EmailFacts ==
    ASSUME NEW a, NEW p
    PROVE  IsFact(PersonEmail(a, p)) <=> a \in Address /\ p \in Id
BY GrantFacts DEF IsFact, PersonEmail, CompanyDomain, Company, PersonAlias, PersonCompany,
                  EmailMessage, EmailRecipient, EmailAttachment

\* A domain row names a host and a company id, and is no other kind of row.
LEMMA DomainFacts ==
    ASSUME NEW h, NEW c
    PROVE  IsFact(CompanyDomain(h, c)) <=> h \in Host /\ c \in Id
BY GrantFacts DEF IsFact, PersonEmail, CompanyDomain, Company, PersonAlias, PersonCompany,
                  EmailMessage, EmailRecipient, EmailAttachment

\* A company row names a company id, and is no other kind of row.
LEMMA CompanyFacts ==
    ASSUME NEW c
    PROVE  IsFact(Company(c)) <=> c \in Id
BY GrantFacts DEF IsFact, PersonEmail, CompanyDomain, Company, PersonAlias, PersonCompany,
                  EmailMessage, EmailRecipient, EmailAttachment

\* A message row names a mail and its sender's id or NULL, and is no other kind of row.
LEMMA MessageFacts ==
    ASSUME NEW m, NEW x
    PROVE  IsFact(EmailMessage(m, x)) <=> m \in Mail /\ x \in Id \cup {None}
BY GrantFacts DEF IsFact, PersonEmail, CompanyDomain, Company, PersonAlias, PersonCompany,
                  EmailMessage, EmailRecipient, EmailAttachment

\* The rows of the tables without a match key.
PlainKinds == {"alias", "link", "recipient", "attachment", "grant"}

PlainFacts(F) == \A f \in F : IsFact(f) /\ f[1] \in PlainKinds

\* A row of a table with a match key is given by its columns.
LEMMA KeyedFacts ==
    ASSUME NEW f, IsFact(f)
    PROVE  /\ f[1] = "email" => f = PersonEmail(f[2], f[3])
           /\ f[1] = "domain" => f = CompanyDomain(f[2], f[3])
           /\ f[1] = "message" => f = EmailMessage(f[2], f[3])
           /\ f[1] = "company" => f = Company(f[2])
           /\ f[1] \in {"email", "domain", "message", "company"} \cup PlainKinds
BY GrantFacts DEF IsFact, PersonEmail, CompanyDomain, Company, PersonAlias, PersonCompany,
                  EmailMessage, EmailRecipient, EmailAttachment, PlainKinds

-----------------------------------------------------------------------------
(* Inserts.                                                                 *)

\* One session's rows replaced by later ones, every other invariant kept.
Replaces(d, t, r, t1) ==
    /\ \A q \in Run \ {r} : t1[q] = t[q]
    /\ IsRows(t1[r]) /\ t[r].facts \subseteq t1[r].facts
    /\ DOMAIN t[r].people \subseteq DOMAIN t1[r].people
    /\ \A q \in Run \ {r} : DOMAIN t1[r].people \cap DOMAIN t[q].people = {}
    /\ KeysUnique(d, t1) /\ Layer(d, t1[r])

\* A session that replaces its own rows so keeps the rows of all sessions in order.
LEMMA ReplaceRows ==
    ASSUME NEW d, NEW t, NEW k, NEW r \in Run, NEW t1,
           RowsInv(d, t, k), Replaces(d, t, r, t1)
    PROVE  RowsInv(d, t1, k)
<1> USE DEF Replaces
<1>1. IsRows(d) /\ \A q \in Run : IsRows(t1[q]) /\ IsRows(k[q])
  BY DEF RowsInv
<1>2. \A q, s \in Run : DOMAIN t1[q].people \cap DOMAIN t1[s].people # {} => q = s
  BY DEF RowsInv
<1>3. \A q \in Run : /\ k[q].facts \subseteq t1[q].facts
                     /\ DOMAIN k[q].people \subseteq DOMAIN t1[q].people
  BY DEF RowsInv
<1>4. Layer(d, NoRows) /\ \A q \in Run : Layer(d, t1[q]) /\ Layer(d, k[q])
  BY DEF RowsInv
<1>5. QED
  BY <1>1, <1>2, <1>3, <1>4 DEF RowsInv

\* More facts make a later version of what is seen.
LEMMA FactsExtend ==
    ASSUME NEW d, NEW t, NEW k, NEW r \in Run, NEW F, NEW t1,
           RowsInv(d, t, k), t = [q \in Run |-> t[q]],
           t1 = [t EXCEPT ![r] = [facts |-> t[r].facts \cup F, people |-> t[r].people]]
    PROVE  \A q \in Run : Extends(Merged(d, t[q]), Merged(d, t1[q]))
<1> SUFFICES ASSUME NEW q \in Run PROVE Extends(Merged(d, t[q]), Merged(d, t1[q]))
  OBVIOUS
<1>1. Extends(Merged(d, t[q]), Merged(d, t[q]))
  BY MergedRows, ExtendsReflexive DEF RowsInv
<1>2. t[q].facts \subseteq t1[q].facts /\ t1[q].people = t[q].people
  OBVIOUS
<1>3. /\ Merged(d, t[q]).facts \subseteq Merged(d, t1[q]).facts
      /\ Merged(d, t[q]).people = Merged(d, t1[q]).people
  BY <1>2 DEF Merged
<1>4. QED
  BY <1>1, <1>3 DEF Extends

\* No new match key leaves the match keys unique.
LEMMA SameKeys ==
    ASSUME NEW d, NEW t, NEW e, NEW t1, KeysUnique(d, t),
           \A a, p : Known(e, t1, PersonEmail(a, p)) => Known(d, t, PersonEmail(a, p)),
           \A h, c : Known(e, t1, CompanyDomain(h, c)) => Known(d, t, CompanyDomain(h, c)),
           \A m, x : Known(e, t1, EmailMessage(m, x)) => Known(d, t, EmailMessage(m, x))
    PROVE  KeysUnique(e, t1)
<1>1. ASSUME NEW a, NEW b, NEW p, NEW q,
             Known(e, t1, PersonEmail(a, p)), Known(e, t1, PersonEmail(b, q))
      PROVE  (a = b) <=> (p = q)
  BY <1>1 DEF KeysUnique
<1>2. ASSUME NEW g, NEW h, NEW b, NEW c,
             Known(e, t1, CompanyDomain(g, b)), Known(e, t1, CompanyDomain(h, c))
      PROVE  /\ g = h => b = c
             /\ b = c /\ Registrable[g] = g /\ Registrable[h] = h => g = h
  BY <1>2 DEF KeysUnique
<1>3. ASSUME NEW m, NEW x, NEW y,
             Known(e, t1, EmailMessage(m, x)), Known(e, t1, EmailMessage(m, y))
      PROVE  x = y
  BY <1>3 DEF KeysUnique
<1>4. QED
  BY <1>1, <1>2, <1>3 DEF KeysUnique

\* Rows without a match key.
LEMMA PlainInsert ==
    ASSUME NEW d, NEW t, NEW k, NEW r \in Run, NEW F, NEW t1,
           RowsInv(d, t, k), t = [q \in Run |-> t[q]],
           t1 = [t EXCEPT ![r] = [facts |-> t[r].facts \cup F, people |-> t[r].people]],
           PlainFacts(F)
    PROVE  RowsInv(d, t1, k)
<1> USE DEF PlainFacts
<1> DEFINE L == [facts |-> t[r].facts \cup F, people |-> t[r].people]
<1>1. t1[r] = L /\ \A q \in Run \ {r} : t1[q] = t[q]
  OBVIOUS
<1>2. IsRows(t[r])
  BY DEF RowsInv
<1>3. IsRows(L)
  BY <1>2 DEF IsRows
<1>4. /\ \A a, p : PersonEmail(a, p) \notin F
      /\ \A h, c : CompanyDomain(h, c) \notin F
      /\ \A c : Company(c) \notin F
      /\ \A m, x : EmailMessage(m, x) \notin F
  BY DEF PersonEmail, CompanyDomain, Company, EmailMessage, PlainKinds
<1>5. KeysUnique(d, t1)
  <2>1. \A f : Known(d, t1, f) => Known(d, t, f) \/ f \in F
    BY <1>1 DEF Known
  <2>2. KeysUnique(d, t)
    BY DEF RowsInv
  <2>3. /\ \A a, p : Known(d, t1, PersonEmail(a, p)) => Known(d, t, PersonEmail(a, p))
        /\ \A h, c : Known(d, t1, CompanyDomain(h, c)) => Known(d, t, CompanyDomain(h, c))
        /\ \A m, x : Known(d, t1, EmailMessage(m, x)) => Known(d, t, EmailMessage(m, x))
    BY <1>4, <2>1
  <2>4. QED
    BY <2>2, <2>3, SameKeys
<1>6. Layer(d, L)
  <2>1. Layer(d, t[r])
    BY DEF RowsInv
  <2>2. QED
    BY <1>4, <2>1 DEF Layer
<1>7. \A q \in Run \ {r} : DOMAIN L.people \cap DOMAIN t[q].people = {}
  BY DEF RowsInv
<1>8. t[r].facts \subseteq L.facts /\ DOMAIN t[r].people \subseteq DOMAIN L.people
  OBVIOUS
<1> HIDE DEF L
<1>9. /\ IsRows(t1[r]) /\ Layer(d, t1[r])
      /\ t[r].facts \subseteq t1[r].facts /\ DOMAIN t[r].people \subseteq DOMAIN t1[r].people
      /\ \A q \in Run \ {r} : DOMAIN t1[r].people \cap DOMAIN t[q].people = {}
  BY <1>1, <1>3, <1>6, <1>7, <1>8
<1>10. Replaces(d, t, r, t1)
  BY <1>1, <1>5, <1>9 DEF Replaces
<1>11. QED
  BY <1>10, ReplaceRows

\* The evidence row of a host that folds onto a company's key.
LEMMA HostInsert ==
    ASSUME NEW d, NEW t, NEW k, NEW r \in Run, NEW h \in Host, NEW c \in Id, NEW t1,
           RowsInv(d, t, k), t = [q \in Run |-> t[q]],
           t1 = [t EXCEPT ![r] = [facts |-> t[r].facts \cup {CompanyDomain(h, c)},
                                  people |-> t[r].people]],
           Registrable[h] # h,
           CompanyDomain(Registrable[h], c) \in d.facts \cup t[r].facts,
           \A x : ~Known(d, t, CompanyDomain(h, x))
    PROVE  RowsInv(d, t1, k)
<1> DEFINE L == [facts |-> t[r].facts \cup {CompanyDomain(h, c)}, people |-> t[r].people]
<1>1. t1[r] = L /\ \A q \in Run \ {r} : t1[q] = t[q]
  OBVIOUS
<1>2. IsRows(t[r]) /\ Layer(d, t[r]) /\ KeysUnique(d, t)
  BY DEF RowsInv
<1>3. IsRows(L)
  BY <1>2, DomainFacts DEF IsRows
<1>4. /\ \A a, p : PersonEmail(a, p) # CompanyDomain(h, c)
      /\ \A b : Company(b) # CompanyDomain(h, c)
      /\ \A m, x : EmailMessage(m, x) # CompanyDomain(h, c)
      /\ \A g, b : CompanyDomain(g, b) = CompanyDomain(h, c) => g = h /\ b = c
  BY DEF PersonEmail, CompanyDomain, Company, EmailMessage
<1>5. KeysUnique(d, t1)
  <2>1. \A f : Known(d, t1, f) => Known(d, t, f) \/ f = CompanyDomain(h, c)
    BY <1>1 DEF Known
  <2>2. ASSUME NEW e, NEW g, NEW b, NEW x,
               Known(d, t1, CompanyDomain(e, b)), Known(d, t1, CompanyDomain(g, x))
        PROVE  /\ e = g => b = x
               /\ b = x /\ Registrable[e] = e /\ Registrable[g] = g => e = g
    <3>1. Known(d, t, CompanyDomain(e, b)) \/ (e = h /\ b = c)
      BY <1>4, <2>1, <2>2
    <3>2. Known(d, t, CompanyDomain(g, x)) \/ (g = h /\ x = c)
      BY <1>4, <2>1, <2>2
    <3>3. CASE Known(d, t, CompanyDomain(e, b)) /\ Known(d, t, CompanyDomain(g, x))
      BY <1>2, <3>3 DEF KeysUnique
    <3>4. QED
      BY <3>1, <3>2, <3>3
  <2>3. ASSUME NEW a, NEW b, NEW p, NEW q,
               Known(d, t1, PersonEmail(a, p)), Known(d, t1, PersonEmail(b, q))
        PROVE  (a = b) <=> (p = q)
    <3>1. Known(d, t, PersonEmail(a, p)) /\ Known(d, t, PersonEmail(b, q))
      BY <1>4, <2>1, <2>3
    <3>2. QED
      BY <1>2, <3>1 DEF KeysUnique
  <2>4. ASSUME NEW m, NEW x, NEW y,
               Known(d, t1, EmailMessage(m, x)), Known(d, t1, EmailMessage(m, y))
        PROVE  x = y
    <3>1. Known(d, t, EmailMessage(m, x)) /\ Known(d, t, EmailMessage(m, y))
      BY <1>4, <2>1, <2>4
    <3>2. QED
      BY <1>2, <3>1 DEF KeysUnique
  <2>5. QED
    BY <2>2, <2>3, <2>4 DEF KeysUnique
<1>6. Layer(d, L)
  <2>1. ASSUME NEW g, NEW b, CompanyDomain(g, b) \in d.facts \cup L.facts
        PROVE  /\ CompanyDomain(Registrable[g], b) \in d.facts \cup L.facts
               /\ Company(b) \in d.facts \cup L.facts
    <3>1. CASE CompanyDomain(g, b) \in d.facts \cup t[r].facts
      BY <1>2, <3>1 DEF Layer
    <3>2. CASE g = h /\ b = c
      BY <1>2, <3>2 DEF Layer
    <3>3. QED
      BY <1>4, <2>1, <3>1, <3>2
  <2>2. QED
    BY <1>2, <1>4, <2>1 DEF Layer
<1>7. \A q \in Run \ {r} : DOMAIN L.people \cap DOMAIN t[q].people = {}
  BY DEF RowsInv
<1>8. t[r].facts \subseteq L.facts /\ DOMAIN t[r].people \subseteq DOMAIN L.people
  OBVIOUS
<1> HIDE DEF L
<1>9. /\ IsRows(t1[r]) /\ Layer(d, t1[r])
      /\ t[r].facts \subseteq t1[r].facts /\ DOMAIN t[r].people \subseteq DOMAIN t1[r].people
      /\ \A q \in Run \ {r} : DOMAIN t1[r].people \cap DOMAIN t[q].people = {}
  BY <1>1, <1>3, <1>6, <1>7, <1>8
<1>10. Replaces(d, t, r, t1)
  BY <1>1, <1>5, <1>9 DEF Replaces
<1>11. QED
  BY <1>10, ReplaceRows

\* A company and its key, under an id that no row has.
LEMMA CompanyInsert ==
    ASSUME NEW d, NEW t, NEW k, NEW r \in Run, NEW h \in Host, NEW c \in Id, NEW t1,
           RowsInv(d, t, k), t = [q \in Run |-> t[q]],
           t1 = [t EXCEPT ![r] = [facts |-> t[r].facts \cup {Company(c), CompanyDomain(h, c)},
                                  people |-> t[r].people]],
           Registrable[h] = h,
           \A x : ~Known(d, t, CompanyDomain(h, x)),
           \A g : ~Known(d, t, CompanyDomain(g, c))
    PROVE  RowsInv(d, t1, k)
<1> DEFINE L == [facts |-> t[r].facts \cup {Company(c), CompanyDomain(h, c)},
                 people |-> t[r].people]
<1>1. t1[r] = L /\ \A q \in Run \ {r} : t1[q] = t[q]
  OBVIOUS
<1>2. IsRows(t[r]) /\ Layer(d, t[r]) /\ KeysUnique(d, t)
  BY DEF RowsInv
<1>3. IsRows(L)
  BY <1>2, DomainFacts, CompanyFacts DEF IsRows
<1>4. /\ \A a, p : PersonEmail(a, p) \notin {Company(c), CompanyDomain(h, c)}
      /\ \A b : Company(b) \in {Company(c), CompanyDomain(h, c)} => b = c
      /\ \A m, x : EmailMessage(m, x) \notin {Company(c), CompanyDomain(h, c)}
      /\ \A g, b : CompanyDomain(g, b) \in {Company(c), CompanyDomain(h, c)} => g = h /\ b = c
  BY DEF PersonEmail, CompanyDomain, Company, EmailMessage
<1>5. KeysUnique(d, t1)
  <2>1. \A f : Known(d, t1, f) => Known(d, t, f) \/ f \in {Company(c), CompanyDomain(h, c)}
    BY <1>1 DEF Known
  <2>2. ASSUME NEW e, NEW g, NEW b, NEW x,
               Known(d, t1, CompanyDomain(e, b)), Known(d, t1, CompanyDomain(g, x))
        PROVE  /\ e = g => b = x
               /\ b = x /\ Registrable[e] = e /\ Registrable[g] = g => e = g
    <3>1. Known(d, t, CompanyDomain(e, b)) \/ (e = h /\ b = c)
      BY <1>4, <2>1, <2>2
    <3>2. Known(d, t, CompanyDomain(g, x)) \/ (g = h /\ x = c)
      BY <1>4, <2>1, <2>2
    <3>3. CASE Known(d, t, CompanyDomain(e, b)) /\ Known(d, t, CompanyDomain(g, x))
      BY <1>2, <3>3 DEF KeysUnique
    <3>4. QED
      BY <3>1, <3>2, <3>3
  <2>3. ASSUME NEW a, NEW b, NEW p, NEW q,
               Known(d, t1, PersonEmail(a, p)), Known(d, t1, PersonEmail(b, q))
        PROVE  (a = b) <=> (p = q)
    <3>1. Known(d, t, PersonEmail(a, p)) /\ Known(d, t, PersonEmail(b, q))
      BY <1>4, <2>1, <2>3
    <3>2. QED
      BY <1>2, <3>1 DEF KeysUnique
  <2>4. ASSUME NEW m, NEW x, NEW y,
               Known(d, t1, EmailMessage(m, x)), Known(d, t1, EmailMessage(m, y))
        PROVE  x = y
    <3>1. Known(d, t, EmailMessage(m, x)) /\ Known(d, t, EmailMessage(m, y))
      BY <1>4, <2>1, <2>4
    <3>2. QED
      BY <1>2, <3>1 DEF KeysUnique
  <2>5. QED
    BY <2>2, <2>3, <2>4 DEF KeysUnique
<1>6. Layer(d, L)
  <2>1. ASSUME NEW g, NEW b, CompanyDomain(g, b) \in d.facts \cup L.facts
        PROVE  /\ CompanyDomain(Registrable[g], b) \in d.facts \cup L.facts
               /\ Company(b) \in d.facts \cup L.facts
    <3>1. CASE CompanyDomain(g, b) \in d.facts \cup t[r].facts
      BY <1>2, <3>1 DEF Layer
    <3>2. CASE g = h /\ b = c
      BY <3>2
    <3>3. QED
      BY <1>4, <2>1, <3>1, <3>2
  <2>2. ASSUME NEW b, Company(b) \in d.facts \cup L.facts
        PROVE  \E g \in Host : /\ Registrable[g] = g
                               /\ CompanyDomain(g, b) \in d.facts \cup L.facts
    <3>1. CASE Company(b) \in d.facts \cup t[r].facts
      BY <1>2, <3>1 DEF Layer
    <3>2. CASE b = c
      BY <3>2
    <3>3. QED
      BY <1>4, <2>2, <3>1, <3>2
  <2>3. QED
    BY <1>2, <1>4, <2>1, <2>2 DEF Layer
<1>7. \A q \in Run \ {r} : DOMAIN L.people \cap DOMAIN t[q].people = {}
  BY DEF RowsInv
<1>8. t[r].facts \subseteq L.facts /\ DOMAIN t[r].people \subseteq DOMAIN L.people
  OBVIOUS
<1> HIDE DEF L
<1>9. /\ IsRows(t1[r]) /\ Layer(d, t1[r])
      /\ t[r].facts \subseteq t1[r].facts /\ DOMAIN t[r].people \subseteq DOMAIN t1[r].people
      /\ \A q \in Run \ {r} : DOMAIN t1[r].people \cap DOMAIN t[q].people = {}
  BY <1>1, <1>3, <1>6, <1>7, <1>8
<1>10. Replaces(d, t, r, t1)
  BY <1>1, <1>5, <1>9 DEF Replaces
<1>11. QED
  BY <1>10, ReplaceRows

\* The row of a mail that no session has stored.
LEMMA MessageInsert ==
    ASSUME NEW d, NEW t, NEW k, NEW r \in Run, NEW m \in Mail, NEW x \in Id \cup {None}, NEW t1,
           RowsInv(d, t, k), t = [q \in Run |-> t[q]],
           t1 = [t EXCEPT ![r] = [facts |-> t[r].facts \cup {EmailMessage(m, x)},
                                  people |-> t[r].people]],
           \A y : ~Known(d, t, EmailMessage(m, y))
    PROVE  RowsInv(d, t1, k)
<1> DEFINE L == [facts |-> t[r].facts \cup {EmailMessage(m, x)}, people |-> t[r].people]
<1>1. t1[r] = L /\ \A q \in Run \ {r} : t1[q] = t[q]
  OBVIOUS
<1>2. IsRows(t[r]) /\ Layer(d, t[r]) /\ KeysUnique(d, t)
  BY DEF RowsInv
<1>3. IsRows(L)
  BY <1>2, MessageFacts DEF IsRows
<1>4. /\ \A a, p : PersonEmail(a, p) # EmailMessage(m, x)
      /\ \A b : Company(b) # EmailMessage(m, x)
      /\ \A n, y : EmailMessage(n, y) = EmailMessage(m, x) => n = m /\ y = x
      /\ \A g, b : CompanyDomain(g, b) # EmailMessage(m, x)
  BY DEF PersonEmail, CompanyDomain, Company, EmailMessage
<1>5. KeysUnique(d, t1)
  <2>1. \A f : Known(d, t1, f) => Known(d, t, f) \/ f = EmailMessage(m, x)
    BY <1>1 DEF Known
  <2>2. ASSUME NEW n, NEW y, NEW z,
               Known(d, t1, EmailMessage(n, y)), Known(d, t1, EmailMessage(n, z))
        PROVE  y = z
    <3>1. Known(d, t, EmailMessage(n, y)) \/ (n = m /\ y = x)
      BY <1>4, <2>1, <2>2
    <3>2. Known(d, t, EmailMessage(n, z)) \/ (n = m /\ z = x)
      BY <1>4, <2>1, <2>2
    <3>3. CASE Known(d, t, EmailMessage(n, y)) /\ Known(d, t, EmailMessage(n, z))
      BY <1>2, <3>3 DEF KeysUnique
    <3>4. QED
      BY <3>1, <3>2, <3>3
  <2>3. ASSUME NEW a, NEW b, NEW p, NEW q,
               Known(d, t1, PersonEmail(a, p)), Known(d, t1, PersonEmail(b, q))
        PROVE  (a = b) <=> (p = q)
    <3>1. Known(d, t, PersonEmail(a, p)) /\ Known(d, t, PersonEmail(b, q))
      BY <1>4, <2>1, <2>3
    <3>2. QED
      BY <1>2, <3>1 DEF KeysUnique
  <2>4. ASSUME NEW g, NEW h, NEW b, NEW c,
               Known(d, t1, CompanyDomain(g, b)), Known(d, t1, CompanyDomain(h, c))
        PROVE  /\ g = h => b = c
               /\ b = c /\ Registrable[g] = g /\ Registrable[h] = h => g = h
    <3>1. Known(d, t, CompanyDomain(g, b)) /\ Known(d, t, CompanyDomain(h, c))
      BY <1>4, <2>1, <2>4
    <3>2. QED
      BY <1>2, <3>1 DEF KeysUnique
  <2>5. QED
    BY <2>2, <2>3, <2>4 DEF KeysUnique
<1>6. Layer(d, L)
  BY <1>2, <1>4 DEF Layer
<1>7. \A q \in Run \ {r} : DOMAIN L.people \cap DOMAIN t[q].people = {}
  BY DEF RowsInv
<1>8. t[r].facts \subseteq L.facts /\ DOMAIN t[r].people \subseteq DOMAIN L.people
  OBVIOUS
<1> HIDE DEF L
<1>9. /\ IsRows(t1[r]) /\ Layer(d, t1[r])
      /\ t[r].facts \subseteq t1[r].facts /\ DOMAIN t[r].people \subseteq DOMAIN t1[r].people
      /\ \A q \in Run \ {r} : DOMAIN t1[r].people \cap DOMAIN t[q].people = {}
  BY <1>1, <1>3, <1>6, <1>7, <1>8
<1>10. Replaces(d, t, r, t1)
  BY <1>1, <1>5, <1>9 DEF Replaces
<1>11. QED
  BY <1>10, ReplaceRows

\* A person and its address, under an id that no row has.
LEMMA PersonInsert ==
    ASSUME NEW d, NEW t, NEW k, NEW r \in Run, NEW a \in Address, NEW p \in Id,
           NEW row \in PersonRow, NEW t1,
           RowsInv(d, t, k), t = [q \in Run |-> t[q]],
           t1 = [t EXCEPT ![r] = [facts |-> t[r].facts \cup {PersonEmail(a, p)},
                                  people |-> Put(t[r].people, p, row)]],
           \A x : ~Known(d, t, PersonEmail(a, x)),
           \A b : ~Known(d, t, PersonEmail(b, p))
    PROVE  /\ RowsInv(d, t1, k)
           /\ Extends(Merged(d, t[r]), Merged(d, t1[r]))
<1> DEFINE L == [facts |-> t[r].facts \cup {PersonEmail(a, p)},
                 people |-> Put(t[r].people, p, row)]
<1>1. t1[r] = L /\ \A q \in Run \ {r} : t1[q] = t[q]
  OBVIOUS
<1>2. IsRows(d) /\ IsRows(t[r]) /\ Layer(d, t[r]) /\ KeysUnique(d, t)
  BY DEF RowsInv
<1>3. /\ DOMAIN L.people = DOMAIN t[r].people \cup {p}
      /\ \A x \in DOMAIN t[r].people : x # p => L.people[x] = t[r].people[x]
  BY DEF Put
<1>4. IsRows(L)
  <2>1. \A f \in L.facts : IsFact(f)
    BY <1>2, EmailFacts DEF IsRows
  <2>2. /\ DOMAIN t[r].people \subseteq Id
        /\ \A x \in DOMAIN t[r].people : t[r].people[x] \in PersonRow
    BY <1>2, PeopleRows
  <2>3. PICK g : g = Put(t[r].people, p, row)
    OBVIOUS
  <2>4. /\ DOMAIN g \subseteq Id /\ g = [x \in DOMAIN g |-> g[x]]
        /\ \A x \in DOMAIN g : g[x] \in PersonRow
    BY <2>2, <2>3 DEF Put
  <2>5. QED
    BY <2>1, <2>3, <2>4, RowsFromParts
<1>5. /\ \A b, q : PersonEmail(b, q) = PersonEmail(a, p) => b = a /\ q = p
      /\ \A b : Company(b) # PersonEmail(a, p)
      /\ \A m, x : EmailMessage(m, x) # PersonEmail(a, p)
      /\ \A g, b : CompanyDomain(g, b) # PersonEmail(a, p)
  BY DEF PersonEmail, CompanyDomain, Company, EmailMessage
<1>6. KeysUnique(d, t1)
  <2>1. \A f : Known(d, t1, f) => Known(d, t, f) \/ f = PersonEmail(a, p)
    BY <1>1 DEF Known
  <2>2. ASSUME NEW b, NEW c, NEW q, NEW s,
               Known(d, t1, PersonEmail(b, q)), Known(d, t1, PersonEmail(c, s))
        PROVE  (b = c) <=> (q = s)
    <3>1. Known(d, t, PersonEmail(b, q)) \/ (b = a /\ q = p)
      BY <1>5, <2>1, <2>2
    <3>2. Known(d, t, PersonEmail(c, s)) \/ (c = a /\ s = p)
      BY <1>5, <2>1, <2>2
    <3>3. CASE Known(d, t, PersonEmail(b, q)) /\ Known(d, t, PersonEmail(c, s))
      BY <1>2, <3>3 DEF KeysUnique
    <3>4. QED
      BY <3>1, <3>2, <3>3
  <2>3. ASSUME NEW m, NEW x, NEW y,
               Known(d, t1, EmailMessage(m, x)), Known(d, t1, EmailMessage(m, y))
        PROVE  x = y
    <3>1. Known(d, t, EmailMessage(m, x)) /\ Known(d, t, EmailMessage(m, y))
      BY <1>5, <2>1, <2>3
    <3>2. QED
      BY <1>2, <3>1 DEF KeysUnique
  <2>4. ASSUME NEW g, NEW h, NEW b, NEW c,
               Known(d, t1, CompanyDomain(g, b)), Known(d, t1, CompanyDomain(h, c))
        PROVE  /\ g = h => b = c
               /\ b = c /\ Registrable[g] = g /\ Registrable[h] = h => g = h
    <3>1. Known(d, t, CompanyDomain(g, b)) /\ Known(d, t, CompanyDomain(h, c))
      BY <1>5, <2>1, <2>4
    <3>2. QED
      BY <1>2, <3>1 DEF KeysUnique
  <2>5. QED
    BY <2>2, <2>3, <2>4 DEF KeysUnique
<1>7. p \notin DOMAIN d.people /\ \A q \in Run : p \notin DOMAIN t[q].people
  <2>1. ASSUME NEW q \in Run PROVE p \notin DOMAIN d.people \cup DOMAIN t[q].people
    BY DEF RowsInv, Layer, Known
  <2>2. QED
    BY <2>1
<1>8. Layer(d, L)
  <2>1. \A x \in DOMAIN d.people \cup DOMAIN L.people :
            \E b \in Address : PersonEmail(b, x) \in d.facts \cup L.facts
    BY <1>2, <1>3 DEF Layer
  <2>2. \A b, x : PersonEmail(b, x) \in d.facts \cup L.facts
                    => x \in DOMAIN d.people \cup DOMAIN L.people
    BY <1>2, <1>3, <1>5 DEF Layer
  <2>3. \A x \in DOMAIN d.people \cap DOMAIN L.people : Widens(d.people[x], L.people[x])
    BY <1>2, <1>3, <1>7 DEF Layer
  <2>4. QED
    BY <1>2, <1>5, <2>1, <2>2, <2>3 DEF Layer
<1>9. \A q \in Run \ {r} : DOMAIN L.people \cap DOMAIN t[q].people = {}
  BY <1>3, <1>7 DEF RowsInv
<1>10. t[r].facts \subseteq L.facts /\ DOMAIN t[r].people \subseteq DOMAIN L.people
  BY <1>3
<1>11. Extends(Merged(d, t[r]), Merged(d, L))
  <2>1. Extends(Merged(d, t[r]), Merged(d, t[r]))
    BY <1>2, MergedRows, ExtendsReflexive
  <2>2. \A x \in DOMAIN Merged(d, t[r]).people :
            /\ x \in DOMAIN Merged(d, L).people
            /\ Merged(d, L).people[x] = Merged(d, t[r]).people[x]
    <3>1. ASSUME NEW x \in DOMAIN Merged(d, t[r]).people
          PROVE  /\ x \in DOMAIN Merged(d, L).people
                 /\ Merged(d, L).people[x] = Merged(d, t[r]).people[x]
      <4>1. x # p
        BY <1>7, MergedParts
      <4>2. QED
        BY <1>3, <4>1 DEF Merged, Over
    <3>2. QED
      BY <3>1
  <2>3. Merged(d, t[r]).facts \subseteq Merged(d, L).facts
    BY <1>10, MergedParts
  <2>4. QED
    BY <2>1, <2>2, <2>3 DEF Extends
<1> HIDE DEF L
<1>12. /\ IsRows(t1[r]) /\ Layer(d, t1[r])
       /\ t[r].facts \subseteq t1[r].facts /\ DOMAIN t[r].people \subseteq DOMAIN t1[r].people
       /\ \A q \in Run \ {r} : DOMAIN t1[r].people \cap DOMAIN t[q].people = {}
  BY <1>1, <1>4, <1>8, <1>9, <1>10
<1>13. Replaces(d, t, r, t1)
  BY <1>1, <1>6, <1>12 DEF Replaces
<1>14. QED
  BY <1>1, <1>11, <1>13, ReplaceRows

\* A later version of a person's row, under the row's lock.
LEMMA PersonUpdate ==
    ASSUME NEW d, NEW t, NEW k, NEW r \in Run, NEW p, NEW row \in PersonRow, NEW t1,
           RowsInv(d, t, k), t = [q \in Run |-> t[q]],
           t1 = [t EXCEPT ![r] = [facts |-> t[r].facts, people |-> Put(t[r].people, p, row)]],
           p \in DOMAIN Merged(d, t[r]).people, Widens(Merged(d, t[r]).people[p], row),
           \A q \in Run \ {r} : p \notin DOMAIN t[q].people
    PROVE  /\ RowsInv(d, t1, k)
           /\ Extends(Merged(d, t[r]), Merged(d, t1[r]))
<1> DEFINE L == [facts |-> t[r].facts, people |-> Put(t[r].people, p, row)]
<1>1. t1[r] = L /\ \A q \in Run \ {r} : t1[q] = t[q]
  OBVIOUS
<1>2. IsRows(d) /\ IsRows(t[r]) /\ Layer(d, t[r]) /\ KeysUnique(d, t)
  BY DEF RowsInv
<1>3. p \in Id
  BY <1>2, MergedRows, PeopleRows
<1>4. /\ DOMAIN L.people = DOMAIN t[r].people \cup {p}
      /\ L.people[p] = row
      /\ \A x \in DOMAIN t[r].people : x # p => L.people[x] = t[r].people[x]
  BY DEF Put
<1>5. IsRows(L)
  <2>1. \A f \in L.facts : IsFact(f)
    BY <1>2 DEF IsRows
  <2>2. /\ DOMAIN t[r].people \subseteq Id
        /\ \A x \in DOMAIN t[r].people : t[r].people[x] \in PersonRow
    BY <1>2, PeopleRows
  <2>3. PICK g : g = Put(t[r].people, p, row)
    OBVIOUS
  <2>4. /\ DOMAIN g \subseteq Id /\ g = [x \in DOMAIN g |-> g[x]]
        /\ \A x \in DOMAIN g : g[x] \in PersonRow
    BY <1>3, <2>2, <2>3 DEF Put
  <2>5. QED
    BY <2>1, <2>3, <2>4, RowsFromParts
<1>6. KeysUnique(d, t1)
  <2>1. \A f : Known(d, t1, f) => Known(d, t, f)
    BY <1>1 DEF Known
  <2>2. QED
    BY <1>2, <2>1, SameKeys
<1>7. Layer(d, L)
  <2>1. DOMAIN d.people \cup DOMAIN L.people = DOMAIN d.people \cup DOMAIN t[r].people
    BY <1>4, MergedParts
  <2>2. ASSUME NEW x \in DOMAIN d.people \cap DOMAIN L.people
        PROVE  Widens(d.people[x], L.people[x])
    <3>1. CASE x # p
      BY <1>2, <1>4, <3>1 DEF Layer
    <3>2. CASE x = p
      <4>1. Widens(d.people[p], Merged(d, t[r]).people[p])
        BY <1>2, <3>2, ViewExtends DEF Extends
      <4>2. d.people[p] \in PersonRow /\ Merged(d, t[r]).people[p] \in PersonRow
        BY <1>2, <3>2, MergedRows, PeopleRows
      <4>3. QED
        BY <1>4, <3>2, <4>1, <4>2, WidensTransitive
    <3>3. QED
      BY <3>1, <3>2
  <2>3. QED
    BY <1>2, <2>1, <2>2 DEF Layer
<1>8. \A q \in Run \ {r} : DOMAIN L.people \cap DOMAIN t[q].people = {}
  BY <1>4 DEF RowsInv
<1>9. t[r].facts \subseteq L.facts /\ DOMAIN t[r].people \subseteq DOMAIN L.people
  BY <1>4
<1>10. Extends(Merged(d, t[r]), Merged(d, L))
  <2>1. Extends(Merged(d, t[r]), Merged(d, t[r]))
    BY <1>2, MergedRows, ExtendsReflexive
  <2>2. ASSUME NEW x \in DOMAIN Merged(d, t[r]).people
        PROVE  /\ x \in DOMAIN Merged(d, L).people
               /\ Widens(Merged(d, t[r]).people[x], Merged(d, L).people[x])
    <3>1. x \in DOMAIN Merged(d, L).people
      BY <1>4, MergedParts
    <3>2. CASE x = p
      BY <1>4, <3>1, <3>2, MergedParts
    <3>3. CASE x # p
      <4>1. Merged(d, L).people[x] = Merged(d, t[r]).people[x]
        BY <1>4, <3>3 DEF Merged, Over
      <4>2. QED
        BY <2>1, <3>1, <4>1 DEF Extends
    <3>4. QED
      BY <3>1, <3>2, <3>3
  <2>3. Merged(d, t[r]).facts \subseteq Merged(d, L).facts
    BY <1>9, MergedParts
  <2>4. QED
    BY <2>2, <2>3 DEF Extends
<1> HIDE DEF L
<1>11. /\ IsRows(t1[r]) /\ Layer(d, t1[r])
       /\ t[r].facts \subseteq t1[r].facts /\ DOMAIN t[r].people \subseteq DOMAIN t1[r].people
       /\ \A q \in Run \ {r} : DOMAIN t1[r].people \cap DOMAIN t[q].people = {}
  BY <1>1, <1>5, <1>7, <1>8, <1>9
<1>12. Replaces(d, t, r, t1)
  BY <1>1, <1>6, <1>11 DEF Replaces
<1>13. QED
  BY <1>1, <1>10, <1>12, ReplaceRows

-----------------------------------------------------------------------------
(* Savepoints, commits and rollbacks.                                       *)

\* A savepoint is taken, or forgotten when it is released.
LEMMA Savepoint ==
    ASSUME NEW d, NEW t, NEW k, NEW r \in Run, NEW k1,
           RowsInv(d, t, k), \A q \in Run \ {r} : k1[q] = k[q], k1[r] \in {t[r], NoRows}
    PROVE  RowsInv(d, t, k1)
<1>1. \A q \in Run : IsRows(k1[q])
  BY EmptyRows DEF RowsInv
<1>2. \A q \in Run : /\ k1[q].facts \subseteq t[q].facts
                     /\ DOMAIN k1[q].people \subseteq DOMAIN t[q].people
  BY EmptyRows DEF RowsInv
<1>3. \A q \in Run : Layer(d, k1[q])
  BY DEF RowsInv
<1>4. QED
  BY <1>1, <1>2, <1>3 DEF RowsInv

\* A rollback to the savepoint, or of the whole transaction.
LEMMA Unwind ==
    ASSUME NEW d, NEW t, NEW k, NEW r \in Run, NEW t1, NEW k1,
           RowsInv(d, t, k), \A q \in Run \ {r} : t1[q] = t[q] /\ k1[q] = k[q],
           t1[r] \in {k[r], NoRows}, k1[r] = NoRows
    PROVE  RowsInv(d, t1, k1)
<1>1. /\ IsRows(t1[r]) /\ Layer(d, t1[r])
      /\ t1[r].facts \subseteq t[r].facts /\ DOMAIN t1[r].people \subseteq DOMAIN t[r].people
  BY EmptyRows DEF RowsInv
<1>2. \A q \in Run : IsRows(t1[q]) /\ IsRows(k1[q])
  BY <1>1, EmptyRows DEF RowsInv
<1>3. \A q \in Run : /\ k1[q].facts \subseteq t1[q].facts
                     /\ DOMAIN k1[q].people \subseteq DOMAIN t1[q].people
  BY EmptyRows DEF RowsInv
<1>4. \A q \in Run : /\ Layer(d, t1[q]) /\ Layer(d, k1[q])
                     /\ t1[q].facts \subseteq t[q].facts
                     /\ DOMAIN t1[q].people \subseteq DOMAIN t[q].people
  BY <1>1 DEF RowsInv
<1>5. KeysUnique(d, t1)
  <2>1. \A f : Known(d, t1, f) => Known(d, t, f)
    BY <1>4 DEF Known
  <2>2. KeysUnique(d, t)
    BY DEF RowsInv
  <2>3. QED
    BY <2>1, <2>2, SameKeys
<1>6. \A q, s \in Run : DOMAIN t1[q].people \cap DOMAIN t1[s].people # {} => q = s
  <2>1. ASSUME NEW q \in Run, NEW s \in Run, DOMAIN t1[q].people \cap DOMAIN t1[s].people # {}
        PROVE  q = s
    <3>1. DOMAIN t[q].people \cap DOMAIN t[s].people # {}
      BY <1>4, <2>1
    <3>2. QED
      BY <3>1 DEF RowsInv
  <2>2. QED
    BY <2>1
<1>7. IsRows(d) /\ Layer(d, NoRows)
  BY DEF RowsInv
<1>8. QED
  BY <1>2, <1>3, <1>4, <1>5, <1>6, <1>7 DEF RowsInv

\* Committed rows under the rows of a session that shares no person with them.
LEMMA LayerOverCommit ==
    ASSUME NEW d, NEW top, NEW L, IsRows(d), IsRows(top), IsRows(L),
           Layer(d, top), Layer(d, L), DOMAIN top.people \cap DOMAIN L.people = {}
    PROVE  /\ Layer(Merged(d, top), L)
           /\ Extends(Merged(d, L), Merged(Merged(d, top), L))
<1> DEFINE e == Merged(d, top)
<1>1. /\ e.facts = d.facts \cup top.facts
      /\ DOMAIN e.people = DOMAIN d.people \cup DOMAIN top.people
  BY MergedParts
<1>2. Extends(d, e)
  BY ViewExtends
<1>3. IsRows(e) /\ IsRows(Merged(d, L)) /\ IsRows(Merged(e, L))
  BY MergedRows
<1>4. \A x \in DOMAIN d.people \ DOMAIN top.people : e.people[x] = d.people[x]
  BY MergedParts
<1> HIDE DEF e
<1>5. Layer(e, L)
  <2>1. \A p \in DOMAIN e.people \cup DOMAIN L.people :
            \E a \in Address : PersonEmail(a, p) \in e.facts \cup L.facts
    BY <1>1 DEF Layer
  <2>2. \A a, p : PersonEmail(a, p) \in e.facts \cup L.facts
                    => p \in DOMAIN e.people \cup DOMAIN L.people
    BY <1>1 DEF Layer
  <2>3. \A h, c : CompanyDomain(h, c) \in e.facts \cup L.facts
                    => /\ CompanyDomain(Registrable[h], c) \in e.facts \cup L.facts
                       /\ Company(c) \in e.facts \cup L.facts
    BY <1>1 DEF Layer
  <2>4. \A c : Company(c) \in e.facts \cup L.facts
                    => \E h \in Host : /\ Registrable[h] = h
                                       /\ CompanyDomain(h, c) \in e.facts \cup L.facts
    BY <1>1 DEF Layer
  <2>5. ASSUME NEW p \in DOMAIN e.people \cap DOMAIN L.people
        PROVE  Widens(e.people[p], L.people[p])
    <3>1. p \in DOMAIN d.people \cap DOMAIN L.people /\ e.people[p] = d.people[p]
      BY <1>1, <1>4, <2>5
    <3>2. QED
      BY <3>1 DEF Layer
  <2>6. QED
    BY <2>1, <2>2, <2>3, <2>4, <2>5 DEF Layer
<1>6. Extends(Merged(d, L), Merged(e, L))
  <2>1. Merged(d, L).facts \subseteq Merged(e, L).facts
    BY <1>1, MergedParts
  <2>2. ASSUME NEW p \in DOMAIN Merged(d, L).people
        PROVE  /\ p \in DOMAIN Merged(e, L).people
               /\ Widens(Merged(d, L).people[p], Merged(e, L).people[p])
    <3>1. p \in DOMAIN Merged(e, L).people
      BY <1>1, MergedParts
    <3>2. CASE p \in DOMAIN L.people
      <4>1. Merged(d, L).people[p] = L.people[p] /\ Merged(e, L).people[p] = L.people[p]
        BY <3>2, MergedParts
      <4>2. Widens(L.people[p], L.people[p])
        BY <3>2, PeopleRows, WidensReflexive
      <4>3. QED
        BY <3>1, <4>1, <4>2
    <3>3. CASE p \notin DOMAIN L.people
      <4>1. p \in DOMAIN d.people /\ p \in DOMAIN e.people
        BY <1>1, <3>3, MergedParts
      <4>2. Merged(d, L).people[p] = d.people[p] /\ Merged(e, L).people[p] = e.people[p]
        BY <3>3, <4>1, MergedParts
      <4>3. QED
        BY <1>2, <3>1, <4>1, <4>2 DEF Extends
    <3>4. QED
      BY <3>2, <3>3
  <2>3. QED
    BY <2>1, <2>2 DEF Extends
<1>7. QED
  BY <1>5, <1>6 DEF e

\* The session's transaction is over: it has no rows and no savepoint.
Closes(t, k, r, t1, k1) ==
    /\ \A q \in Run \ {r} : t1[q] = t[q] /\ k1[q] = k[q]
    /\ t1[r] = NoRows /\ k1[r] = NoRows

\* A commit: the session's rows become the database's.
LEMMA Commit ==
    ASSUME NEW d, NEW t, NEW k, NEW r \in Run, NEW t1, NEW k1,
           RowsInv(d, t, k), Closes(t, k, r, t1, k1)
    PROVE  /\ RowsInv(Merged(d, t[r]), t1, k1)
           /\ Extends(d, Merged(d, t[r]))
           /\ \A q \in Run \ {r} : Extends(Merged(d, t[q]), Merged(Merged(d, t[r]), t1[q]))
           /\ Merged(Merged(d, t[r]), t1[r]) = Merged(d, t[r])
<1> USE DEF Closes
<1>1. /\ IsRows(d) /\ IsRows(t[r]) /\ Layer(d, t[r])
      /\ \A q \in Run : IsRows(t[q]) /\ Layer(d, t[q]) /\ IsRows(k[q]) /\ Layer(d, k[q])
  BY DEF RowsInv
<1>2. PICK e : e = Merged(d, t[r])
  OBVIOUS
<1>3. /\ IsRows(e) /\ Extends(d, e)
      /\ e.facts = d.facts \cup t[r].facts
      /\ DOMAIN e.people = DOMAIN d.people \cup DOMAIN t[r].people
  BY <1>1, <1>2, MergedRows, MergedParts, ViewExtends
<1>4. Merged(e, NoRows) = e
  BY <1>3, MergedNothing
<1>5. ASSUME NEW q \in Run \ {r}
      PROVE  /\ Layer(e, t[q]) /\ Layer(e, k[q])
             /\ Extends(Merged(d, t[q]), Merged(e, t[q]))
  <2>1. DOMAIN t[r].people \cap DOMAIN t[q].people = {}
    BY DEF RowsInv
  <2>2. DOMAIN t[r].people \cap DOMAIN k[q].people = {}
    BY <2>1 DEF RowsInv
  <2>3. QED
    BY <1>1, <1>2, <2>1, <2>2, LayerOverCommit
<1>6. Layer(e, NoRows)
  <2>1. \A p \in DOMAIN e.people : \E a \in Address : PersonEmail(a, p) \in e.facts
    BY <1>1, <1>3 DEF Layer
  <2>2. \A a, p : PersonEmail(a, p) \in e.facts => p \in DOMAIN e.people
    BY <1>1, <1>3 DEF Layer
  <2>3. \A h, c : CompanyDomain(h, c) \in e.facts
                    => /\ CompanyDomain(Registrable[h], c) \in e.facts
                       /\ Company(c) \in e.facts
    BY <1>1, <1>3 DEF Layer
  <2>4. \A c : Company(c) \in e.facts
                    => \E h \in Host : /\ Registrable[h] = h
                                       /\ CompanyDomain(h, c) \in e.facts
    BY <1>1, <1>3 DEF Layer
  <2>5. QED
    BY <2>1, <2>2, <2>3, <2>4, EmptyRows DEF Layer
<1>7. KeysUnique(e, t1)
  <2>1. \A f : Known(e, t1, f) => Known(d, t, f)
    BY <1>3, EmptyRows DEF Known
  <2>2. KeysUnique(d, t)
    BY DEF RowsInv
  <2>3. QED
    BY <2>1, <2>2, SameKeys
<1>8. \A q \in Run : IsRows(t1[q]) /\ IsRows(k1[q])
  BY <1>1, EmptyRows
<1>9. \A q, s \in Run : DOMAIN t1[q].people \cap DOMAIN t1[s].people # {} => q = s
  BY EmptyRows DEF RowsInv
<1>10. \A q \in Run : /\ k1[q].facts \subseteq t1[q].facts
                      /\ DOMAIN k1[q].people \subseteq DOMAIN t1[q].people
  BY EmptyRows DEF RowsInv
<1>11. \A q \in Run : Layer(e, t1[q]) /\ Layer(e, k1[q])
  BY <1>5, <1>6
<1>12. RowsInv(e, t1, k1)
  BY <1>3, <1>6, <1>7, <1>8, <1>9, <1>10, <1>11 DEF RowsInv
<1>13. QED
  BY <1>2, <1>3, <1>4, <1>5, <1>12

-----------------------------------------------------------------------------
(* Lookups and unique constraints.                                          *)

\* The lookup by address returns the address's row, if there is one.
LEMMA FindEmail ==
    ASSUME NEW rows, \A f \in rows.facts : IsFact(f), NEW a
    PROVE  /\ Find(rows, "email", a) # None
                => PersonEmail(a, Find(rows, "email", a)) \in rows.facts
           /\ Find(rows, "email", a) = None => \A p : PersonEmail(a, p) \notin rows.facts
           /\ \A p : /\ PersonEmail(a, p) \in rows.facts
                     /\ \A q : PersonEmail(a, q) \in rows.facts => q = p
                     => Find(rows, "email", a) = p
<1> DEFINE hits == {f \in rows.facts : f[1] = "email" /\ f[2] = a}
<1>1. \A f \in hits : f = PersonEmail(a, f[3]) /\ f[3] \in Id
  <2>1. ASSUME NEW f \in hits PROVE f = PersonEmail(a, f[3]) /\ f[3] \in Id
    <3>1. f = PersonEmail(a, f[3]) /\ IsFact(f)
      BY KeyedFacts
    <3>2. QED
      BY <3>1, EmailFacts
  <2>2. QED
    BY <2>1
<1>2. \A p : PersonEmail(a, p) \in rows.facts => PersonEmail(a, p) \in hits
  BY DEF PersonEmail
<1>3. Find(rows, "email", a) = IF hits = {} THEN None ELSE (CHOOSE f \in hits : TRUE)[3]
  BY DEF Find
<1>4. \A p : PersonEmail(a, p)[3] = p
  BY DEF PersonEmail
<1> HIDE DEF hits
<1>5. CASE hits = {}
  BY <1>2, <1>3, <1>5
<1>6. CASE hits # {}
  <2>1. PICK f : f = CHOOSE g \in hits : TRUE
    OBVIOUS
  <2>2. f \in hits /\ Find(rows, "email", a) = f[3]
    BY <1>3, <1>6, <2>1
  <2>3. f = PersonEmail(a, f[3]) /\ f[3] \in Id /\ f \in rows.facts
    BY <1>1, <2>2 DEF hits
  <2>4. f[3] # None
    BY <2>3, IngestAssumption DEF Id
  <2>5. QED
    BY <2>2, <2>3, <2>4
<1>7. QED
  BY <1>5, <1>6

\* The same of the lookup by domain.
LEMMA FindDomain ==
    ASSUME NEW rows, \A f \in rows.facts : IsFact(f), NEW h
    PROVE  /\ Find(rows, "domain", h) # None
                => CompanyDomain(h, Find(rows, "domain", h)) \in rows.facts
           /\ Find(rows, "domain", h) = None => \A c : CompanyDomain(h, c) \notin rows.facts
           /\ \A c : /\ CompanyDomain(h, c) \in rows.facts
                     /\ \A b : CompanyDomain(h, b) \in rows.facts => b = c
                     => Find(rows, "domain", h) = c
<1> DEFINE hits == {f \in rows.facts : f[1] = "domain" /\ f[2] = h}
<1>1. \A f \in hits : f = CompanyDomain(h, f[3]) /\ f[3] \in Id
  <2>1. ASSUME NEW f \in hits PROVE f = CompanyDomain(h, f[3]) /\ f[3] \in Id
    <3>1. f = CompanyDomain(h, f[3]) /\ IsFact(f)
      BY KeyedFacts
    <3>2. QED
      BY <3>1, DomainFacts
  <2>2. QED
    BY <2>1
<1>2. \A p : CompanyDomain(h, p) \in rows.facts => CompanyDomain(h, p) \in hits
  BY DEF CompanyDomain
<1>3. Find(rows, "domain", h) = IF hits = {} THEN None ELSE (CHOOSE f \in hits : TRUE)[3]
  BY DEF Find
<1> HIDE DEF hits
<1>4. CASE hits = {}
  BY <1>2, <1>3, <1>4
<1>5. CASE hits # {}
  <2>1. PICK f : f = CHOOSE g \in hits : TRUE
    OBVIOUS
  <2>2. f \in hits /\ Find(rows, "domain", h) = f[3]
    BY <1>3, <1>5, <2>1
  <2>3. f = CompanyDomain(h, f[3]) /\ f[3] \in Id /\ f \in rows.facts
    BY <1>1, <2>2 DEF hits
  <2>4. f[3] # None
    BY <2>3, IngestAssumption DEF Id
  <2>5. QED
    BY <2>2, <2>3, <2>4
<1>6. QED
  BY <1>4, <1>5

\* What conflicts with a new row: of an address, a host or a mail, any row with
\* the same match key; of a table without one, the row itself.
LEMMA EmailConflict ==
    ASSUME NEW F, \A f \in F : IsFact(f), NEW a, NEW p
    PROVE  (\E g \in F : UniqueKey(g) = UniqueKey(PersonEmail(a, p)))
                <=> \E q : PersonEmail(a, q) \in F
<1>1. \A q : UniqueKey(PersonEmail(a, q)) = <<"email", a>>
  BY DEF UniqueKey, PersonEmail
<1>2. ASSUME NEW g \in F, UniqueKey(g) = <<"email", a>>
      PROVE  g = PersonEmail(a, g[3])
  <2>1. IsFact(g)
    OBVIOUS
  <2>2. g[1] \in {"email", "domain", "message", "company"} \cup PlainKinds
    BY <2>1, KeyedFacts
  <2>3. g[1] = "email" /\ g[2] = a
    <3>1. CASE g[1] \in {"email", "domain", "message"}
      BY <1>2, <3>1 DEF UniqueKey
    <3>2. CASE g[1] = "grant"
      BY <1>2, <3>2 DEF UniqueKey
    <3>3. CASE g[1] \notin {"email", "domain", "message", "grant"}
      BY <1>2, <3>3 DEF UniqueKey
    <3>4. QED
      BY <3>1, <3>2, <3>3
  <2>4. QED
    BY <2>1, <2>3, KeyedFacts
<1>3. QED
  BY <1>1, <1>2

\* Two domain rows collide in the unique key exactly when they name one host.
LEMMA DomainConflict ==
    ASSUME NEW F, \A f \in F : IsFact(f), NEW h, NEW c
    PROVE  (\E g \in F : UniqueKey(g) = UniqueKey(CompanyDomain(h, c)))
                <=> \E b : CompanyDomain(h, b) \in F
<1>1. \A q : UniqueKey(CompanyDomain(h, q)) = <<"domain", h>>
  BY DEF UniqueKey, CompanyDomain
<1>2. ASSUME NEW g \in F, UniqueKey(g) = <<"domain", h>>
      PROVE  g = CompanyDomain(h, g[3])
  <2>1. IsFact(g)
    OBVIOUS
  <2>2. g[1] = "domain" /\ g[2] = h
    <3>1. CASE g[1] \in {"email", "domain", "message"}
      BY <1>2, <3>1 DEF UniqueKey
    <3>2. CASE g[1] = "grant"
      BY <1>2, <3>2 DEF UniqueKey
    <3>3. CASE g[1] \notin {"email", "domain", "message", "grant"}
      BY <1>2, <3>3 DEF UniqueKey
    <3>4. QED
      BY <3>1, <3>2, <3>3
  <2>3. QED
    BY <2>1, <2>2, KeyedFacts
<1>3. QED
  BY <1>1, <1>2

\* Two message rows collide in the unique key exactly when they are of one mail.
LEMMA MessageConflict ==
    ASSUME NEW F, \A f \in F : IsFact(f), NEW m, NEW x
    PROVE  (\E g \in F : UniqueKey(g) = UniqueKey(EmailMessage(m, x)))
                <=> \E y : EmailMessage(m, y) \in F
<1>1. \A q : UniqueKey(EmailMessage(m, q)) = <<"message", m>>
  BY DEF UniqueKey, EmailMessage
<1>2. ASSUME NEW g \in F, UniqueKey(g) = <<"message", m>>
      PROVE  g = EmailMessage(m, g[3])
  <2>1. IsFact(g)
    OBVIOUS
  <2>2. g[1] = "message" /\ g[2] = m
    <3>1. CASE g[1] \in {"email", "domain", "message"}
      BY <1>2, <3>1 DEF UniqueKey
    <3>2. CASE g[1] = "grant"
      BY <1>2, <3>2 DEF UniqueKey
    <3>3. CASE g[1] \notin {"email", "domain", "message", "grant"}
      BY <1>2, <3>3 DEF UniqueKey
    <3>4. QED
      BY <3>1, <3>2, <3>3
  <2>3. QED
    BY <2>1, <2>2, KeyedFacts
<1>3. QED
  BY <1>1, <1>2

\* An alias or a link collides only with itself.
LEMMA PlainConflict ==
    ASSUME NEW F, NEW f, f[1] \in {"alias", "link"}, f = <<f[1], f[2], f[3]>>
    PROVE  (\E g \in F : UniqueKey(g) = UniqueKey(f)) <=> f \in F
<1>1. UniqueKey(f) = f
  BY DEF UniqueKey
<1>2. ASSUME NEW g \in F, UniqueKey(g) = f
      PROVE  g = f
  <2>1. CASE g[1] \in {"email", "domain", "message"}
    BY <1>2, <2>1 DEF UniqueKey
  <2>2. CASE g[1] = "grant"
    BY <1>2, <2>2 DEF UniqueKey
  <2>3. CASE g[1] \notin {"email", "domain", "message", "grant"}
    BY <1>2, <2>3 DEF UniqueKey
  <2>4. QED
    BY <2>1, <2>2, <2>3
<1>3. QED
  BY <1>1, <1>2

-----------------------------------------------------------------------------
(* What the caches claim.                                                   *)

\* The claim of each kind of entry.
LEMMA ClaimOf ==
    ASSUME NEW rows, NEW v
    PROVE  /\ \A a : Claim(rows, PersonKey(a), v)
                <=> a \in Address /\ v \in Id /\ PersonEmail(a, v) \in rows.facts
           /\ \A h : Claim(rows, CompanyKey(h), v)
                <=> h \in Host /\ v \in Id /\ CompanyDomain(h, v) \in rows.facts
           /\ \A p : Claim(rows, NamedMarker(p), v)
                <=> /\ p \in Id /\ v = TRUE
                    /\ p \in DOMAIN rows.people /\ rows.people[p].name # None
           /\ \A p, n : Claim(rows, AliasMarker(p, n), v)
                <=> p \in Id /\ n \in Name /\ v = TRUE /\ PersonAlias(p, n) \in rows.facts
           /\ \A c, h : Claim(rows, HostMarker(c, h), v)
                <=> c \in Id /\ h \in Host /\ v = TRUE /\ CompanyDomain(h, c) \in rows.facts
           /\ \A p, c : Claim(rows, LinkMarker(p, c), v)
                <=> p \in Id /\ c \in Id /\ v = TRUE /\ PersonCompany(p, c) \in rows.facts
           /\ \A p : Claim(rows, SeenWindow(p), v)
                <=> /\ p \in Id /\ v \in Nat \X Nat
                    /\ p \in DOMAIN rows.people /\ rows.people[p].seen # None
                    /\ rows.people[p].seen[1] <= v[1] /\ v[2] <= rows.people[p].seen[2]
<1> USE DEF PersonKey, CompanyKey, NamedMarker, AliasMarker, HostMarker, LinkMarker, SeenWindow
<1>1. \A a : Claim(rows, PersonKey(a), v)
        <=> a \in Address /\ v \in Id /\ PersonEmail(a, v) \in rows.facts
  BY DEF Claim, IsEntry
<1>2. \A h : Claim(rows, CompanyKey(h), v)
        <=> h \in Host /\ v \in Id /\ CompanyDomain(h, v) \in rows.facts
  BY DEF Claim, IsEntry
<1>3. \A p : Claim(rows, NamedMarker(p), v)
        <=> /\ p \in Id /\ v = TRUE
            /\ p \in DOMAIN rows.people /\ rows.people[p].name # None
  BY DEF Claim, IsEntry, Holds
<1>4. \A p, n : Claim(rows, AliasMarker(p, n), v)
        <=> p \in Id /\ n \in Name /\ v = TRUE /\ PersonAlias(p, n) \in rows.facts
  BY DEF Claim, IsEntry, Holds, PersonAlias
<1>5. \A c, h : Claim(rows, HostMarker(c, h), v)
        <=> c \in Id /\ h \in Host /\ v = TRUE /\ CompanyDomain(h, c) \in rows.facts
  BY DEF Claim, IsEntry, Holds
<1>6. \A p, c : Claim(rows, LinkMarker(p, c), v)
        <=> p \in Id /\ c \in Id /\ v = TRUE /\ PersonCompany(p, c) \in rows.facts
  BY DEF Claim, IsEntry, Holds, PersonCompany
<1>7. \A p : Claim(rows, SeenWindow(p), v)
        <=> /\ p \in Id /\ v \in Nat \X Nat
            /\ p \in DOMAIN rows.people /\ rows.people[p].seen # None
            /\ rows.people[p].seen[1] <= v[1] /\ v[2] <= rows.people[p].seen[2]
  BY DEF Claim, IsEntry, Holds
<1>8. QED
  BY <1>1, <1>2, <1>3, <1>4, <1>5, <1>6, <1>7

\* What is true of the rows stays true of later ones.
LEMMA ClaimGrows ==
    ASSUME NEW x, NEW y, IsRows(x), IsRows(y), Extends(x, y), NEW k, NEW v, Claim(x, k, v)
    PROVE  Claim(y, k, v)
<1>1. IsEntry(k, v)
  BY DEF Claim
<1>2. \A f \in x.facts : f \in y.facts
  BY DEF Extends
<1>3. ASSUME NEW a \in Address, k = PersonKey(a) PROVE Claim(y, k, v)
  BY <1>2, <1>3, ClaimOf
<1>4. ASSUME NEW h \in Host, k = CompanyKey(h) PROVE Claim(y, k, v)
  BY <1>2, <1>4, ClaimOf
<1>5. ASSUME NEW p \in Id, k = NamedMarker(p) PROVE Claim(y, k, v)
  <2>1. /\ v = TRUE /\ p \in DOMAIN x.people /\ x.people[p].name # None
    BY <1>5, ClaimOf
  <2>2. p \in DOMAIN y.people /\ Widens(x.people[p], y.people[p])
    BY <2>1 DEF Extends
  <2>3. y.people[p].name # None
    BY <2>1, <2>2 DEF Widens
  <2>4. QED
    BY <1>5, <2>1, <2>2, <2>3, ClaimOf
<1>6. ASSUME NEW p \in Id, NEW n \in Name, k = AliasMarker(p, n) PROVE Claim(y, k, v)
  BY <1>2, <1>6, ClaimOf
<1>7. ASSUME NEW c \in Id, NEW h \in Host, k = HostMarker(c, h) PROVE Claim(y, k, v)
  BY <1>2, <1>7, ClaimOf
<1>8. ASSUME NEW p \in Id, NEW c \in Id, k = LinkMarker(p, c) PROVE Claim(y, k, v)
  BY <1>2, <1>8, ClaimOf
<1>9. ASSUME NEW p \in Id, k = SeenWindow(p) PROVE Claim(y, k, v)
  <2>1. /\ v \in Nat \X Nat /\ p \in DOMAIN x.people /\ x.people[p].seen # None
        /\ x.people[p].seen[1] <= v[1] /\ v[2] <= x.people[p].seen[2]
    BY <1>9, ClaimOf
  <2>2. p \in DOMAIN y.people /\ Widens(x.people[p], y.people[p])
    BY <2>1 DEF Extends
  <2>3. /\ y.people[p].seen # None
        /\ y.people[p].seen[1] <= x.people[p].seen[1]
        /\ x.people[p].seen[2] <= y.people[p].seen[2]
    BY <2>1, <2>2 DEF Widens
  <2>4. x.people[p].seen \in Nat \X Nat /\ y.people[p].seen \in Nat \X Nat
    <3>1. x.people[p] \in PersonRow /\ y.people[p] \in PersonRow
      BY <2>1, <2>2, PeopleRows
    <3>2. QED
      BY <2>1, <2>3, <3>1 DEF PersonRow
  <2>5. PICK a \in Nat, b \in Nat, e \in Nat, f \in Nat, g \in Nat, h \in Nat :
            /\ a = x.people[p].seen[1] /\ b = x.people[p].seen[2]
            /\ e = y.people[p].seen[1] /\ f = y.people[p].seen[2]
            /\ g = v[1] /\ h = v[2]
    BY <2>1, <2>4
  <2>6. e <= a /\ b <= f /\ a <= g /\ h <= b
    BY <2>1, <2>3, <2>5
  <2>7. y.people[p].seen[1] <= v[1] /\ v[2] <= y.people[p].seen[2]
    BY <2>5, <2>6
  <2>8. QED
    BY <1>9, <2>1, <2>2, <2>3, <2>7, ClaimOf
<1>10. QED
  BY <1>1, <1>3, <1>4, <1>5, <1>6, <1>7, <1>8, <1>9 DEF IsEntry

\* A hit of the cache is true of what the session sees.
LEMMA CacheHit ==
    ASSUME NEW d, NEW t, NEW k, NEW c, NEW r \in Run, RowsInv(d, t, k), CachesInv(d, t, c),
           NEW key, Lookup(c[r], key) # None
    PROVE  Claim(Merged(d, t[r]), key, Lookup(c[r], key))
<1>1. /\ IsRows(d) /\ IsRows(Merged(d, t[r])) /\ Extends(d, Merged(d, t[r]))
  BY MergedRows, ViewExtends DEF RowsInv
<1>2. CASE key \in DOMAIN c[r].staged
  <2>1. Claim(Merged(d, t[r]), key, c[r].staged[key].value)
    BY <1>2 DEF CachesInv
  <2>2. Lookup(c[r], key) = c[r].staged[key].value
    BY <1>2 DEF Lookup
  <2>3. QED
    BY <2>1, <2>2
<1>3. CASE key \notin DOMAIN c[r].staged /\ key \in DOMAIN c[r].confirmed
  <2>1. Claim(d, key, c[r].confirmed[key])
    BY <1>3 DEF CachesInv
  <2>2. Lookup(c[r], key) = c[r].confirmed[key]
    BY <1>3 DEF Lookup
  <2>3. QED
    BY <1>1, <2>1, <2>2, ClaimGrows
<1>4. key \in DOMAIN c[r].staged \/ key \in DOMAIN c[r].confirmed
  BY DEF Lookup
<1>5. QED
  BY <1>2, <1>3, <1>4

\* The claims survive every later version of the rows.
LEMMA CachesGrow ==
    ASSUME NEW d, NEW t, NEW e, NEW t1, NEW c, NEW r \in Run, CachesInv(d, t, c),
           IsRows(d), IsRows(e), Extends(d, e),
           \A q \in Run : /\ IsRows(Merged(d, t[q])) /\ IsRows(Merged(e, t1[q]))
                          /\ Extends(Merged(d, t[q]), Merged(e, t1[q]))
    PROVE  CachesInv(e, t1, c)
<1> SUFFICES ASSUME NEW q \in Run
             PROVE  /\ \A k \in DOMAIN c[q].confirmed : Claim(e, k, c[q].confirmed[k])
                    /\ \A k \in DOMAIN c[q].staged :
                            Claim(Merged(e, t1[q]), k, c[q].staged[k].value)
  BY DEF CachesInv
<1>1. ASSUME NEW k \in DOMAIN c[q].confirmed
      PROVE  Claim(e, k, c[q].confirmed[k])
  <2>1. Claim(d, k, c[q].confirmed[k])
    BY DEF CachesInv
  <2>2. QED
    BY <2>1, ClaimGrows
<1>2. ASSUME NEW k \in DOMAIN c[q].staged
      PROVE  Claim(Merged(e, t1[q]), k, c[q].staged[k].value)
  <2>1. Claim(Merged(d, t[q]), k, c[q].staged[k].value)
    BY DEF CachesInv
  <2>2. QED
    BY <2>1, ClaimGrows
<1>3. QED
  BY <1>1, <1>2

\* What is true of what the session sees may be staged.
LEMMA CacheStage ==
    ASSUME NEW d, NEW t, NEW c, NEW r \in Run, CachesInv(d, t, c), NEW key, NEW v,
           Claim(Merged(d, t[r]), key, v), NEW c1, \A q \in Run \ {r} : c1[q] = c[q],
           c1[r] = Stage(c[r], key, v, Depth(r))
    PROVE  CachesInv(d, t, c1)
<1>1. IsCache(c[r])
  BY DEF CachesInv
<1> DEFINE s == Put(c[r].staged, key, [value |-> v, tag |-> Depth(r)])
<1>2. c1[r] = [staged |-> s, confirmed |-> c[r].confirmed]
  BY <1>1 DEF Stage, IsCache
<1>3. IsCache(c1[r])
  <2>1. s = [x \in DOMAIN s |-> s[x]]
    BY DEF Put
  <2>2. QED
    BY <1>1, <1>2, <2>1 DEF IsCache
<1>4. ASSUME NEW k \in DOMAIN s
      PROVE  Claim(Merged(d, t[r]), k, s[k].value) /\ s[k].tag = Depth(r)
  <2>1. CASE k = key
    <3>1. s[k] = [value |-> v, tag |-> Depth(r)]
      BY <1>4, <2>1 DEF Put
    <3>2. QED
      BY <2>1, <3>1
  <2>2. CASE k # key
    <3>1. k \in DOMAIN c[r].staged /\ s[k] = c[r].staged[k]
      BY <1>4, <2>2 DEF Put
    <3>2. QED
      BY <3>1 DEF CachesInv
  <2>3. QED
    BY <2>1, <2>2
<1> HIDE DEF s
<1>5. QED
  BY <1>2, <1>3, <1>4 DEF CachesInv

\* Every other session has what it had.
OthersSame(f, r, g) == \A q \in Run \ {r} : g[q] = f[q]

\* A rollback empties the staged tier.
LEMMA CacheDiscard ==
    ASSUME NEW d, NEW t, NEW c, NEW r \in Run, CachesInv(d, t, c), NEW t1, NEW c1,
           OthersSame(t, r, t1), OthersSame(c, r, c1),
           c1[r] \in {DiscardStaged(c[r], Depth(r)), EmptyCache}
    PROVE  CachesInv(d, t1, c1)
<1> USE DEF OthersSame
<1>1. IsCache(c[r]) /\ \A k \in DOMAIN c[r].staged : c[r].staged[k].tag = Depth(r)
  BY DEF CachesInv
<1>2. /\ c1[r].staged = [k \in {} |-> c[r].staged[k]]
      /\ c1[r] = [staged |-> c1[r].staged, confirmed |-> c1[r].confirmed]
      /\ c1[r].confirmed = c[r].confirmed \/ c1[r].confirmed = << >>
  <2>1. CASE c1[r] = EmptyCache
    <3>1. << >> = [k \in {} |-> c[r].staged[k]]
      OBVIOUS
    <3>2. QED
      BY <2>1, <3>1 DEF EmptyCache
  <2>2. CASE c1[r] = DiscardStaged(c[r], Depth(r))
    <3>1. {k \in DOMAIN c[r].staged : Depth(r) > 0 /\ c[r].staged[k].tag < Depth(r)} = {}
      BY <1>1 DEF Depth
    <3>2. DiscardStaged(c[r], Depth(r)) = [c[r] EXCEPT !.staged = [k \in {} |-> c[r].staged[k]]]
      BY <3>1 DEF DiscardStaged
    <3>3. [c[r] EXCEPT !.staged = [k \in {} |-> c[r].staged[k]]]
            = [staged |-> [k \in {} |-> c[r].staged[k]], confirmed |-> c[r].confirmed]
      BY <1>1 DEF IsCache
    <3>4. QED
      BY <2>2, <3>2, <3>3
  <2>3. QED
    BY <2>1, <2>2
<1>3. DOMAIN << >> = {} /\ << >> = [k \in {} |-> << >>[k]]
  OBVIOUS
<1>4. IsCache(c1[r])
  BY <1>1, <1>2, <1>3 DEF IsCache
<1>5. /\ \A k \in DOMAIN c1[r].confirmed : Claim(d, k, c1[r].confirmed[k])
      /\ DOMAIN c1[r].staged = {}
  BY <1>2, <1>3 DEF CachesInv
<1>6. QED
  BY <1>4, <1>5 DEF CachesInv

\* A savepoint of the resolver leaves the cache alone, whichever way it ends.
LEMMA SavepointLeavesCache ==
    ASSUME NEW c, IsCache(c), NEW r \in Run,
           \A k \in DOMAIN c.staged : c.staged[k].tag = Depth(r)
    PROVE  DiscardStaged(c, Depth(r) + 1) = c /\ PromoteStaged(c, Depth(r) + 1) = c
<1>1. Depth(r) \in Nat /\ Depth(r) + 1 > 0 /\ Depth(r) < Depth(r) + 1
  BY DEF Depth
<1>2. {k \in DOMAIN c.staged : Depth(r) + 1 > 0 /\ c.staged[k].tag < Depth(r) + 1}
        = DOMAIN c.staged
  BY <1>1
<1>3. [c EXCEPT !.staged = [k \in DOMAIN c.staged |-> c.staged[k]]] = c
  BY DEF IsCache
<1>4. DiscardStaged(c, Depth(r) + 1) = c
  BY <1>2, <1>3 DEF DiscardStaged
<1>5. PromoteStaged(c, Depth(r) + 1) = c
  BY <1>1 DEF PromoteStaged
<1>6. QED
  BY <1>4, <1>5

\* A commit confirms what was staged: it is true of the rows committed.
LEMMA CachePromote ==
    ASSUME NEW d, NEW t, NEW k, NEW c, NEW r \in Run, RowsInv(d, t, k), CachesInv(d, t, c),
           NEW t1, NEW k1, NEW c1,
           Closes(t, k, r, t1, k1), \A q \in Run \ {r} : c1[q] = c[q], c1[r] = Promoted(c[r])
    PROVE  CachesInv(Merged(d, t[r]), t1, c1)
<1>1. PICK e : e = Merged(d, t[r])
  OBVIOUS
<1>2. /\ RowsInv(e, t1, k1) /\ Extends(d, e)
      /\ \A q \in Run \ {r} : Extends(Merged(d, t[q]), Merged(e, t1[q]))
      /\ Merged(e, t1[r]) = e
  <2>1. /\ RowsInv(Merged(d, t[r]), t1, k1) /\ Extends(d, Merged(d, t[r]))
        /\ \A q \in Run \ {r} : Extends(Merged(d, t[q]), Merged(Merged(d, t[r]), t1[q]))
        /\ Merged(Merged(d, t[r]), t1[r]) = Merged(d, t[r])
    BY Commit
  <2>2. QED
    BY <1>1, <2>1
<1>3. IsRows(d) /\ IsRows(e) /\ \A q \in Run : IsRows(Merged(d, t[q])) /\ IsRows(Merged(e, t1[q]))
  BY <1>2, MergedRows DEF RowsInv
<1>4. ASSUME NEW q \in Run \ {r}
      PROVE  /\ IsCache(c1[q])
             /\ \A x \in DOMAIN c1[q].confirmed : Claim(e, x, c1[q].confirmed[x])
             /\ \A x \in DOMAIN c1[q].staged :
                    /\ Claim(Merged(e, t1[q]), x, c1[q].staged[x].value)
                    /\ c1[q].staged[x].tag = Depth(q)
  <2>1. /\ IsCache(c[q])
        /\ \A x \in DOMAIN c[q].confirmed : Claim(d, x, c[q].confirmed[x])
        /\ \A x \in DOMAIN c[q].staged : /\ Claim(Merged(d, t[q]), x, c[q].staged[x].value)
                                         /\ c[q].staged[x].tag = Depth(q)
    BY DEF CachesInv
  <2>2. \A x \in DOMAIN c[q].confirmed : Claim(e, x, c[q].confirmed[x])
    BY <1>2, <1>3, <2>1, ClaimGrows
  <2>3. \A x \in DOMAIN c[q].staged : Claim(Merged(e, t1[q]), x, c[q].staged[x].value)
    BY <1>2, <1>3, <2>1, ClaimGrows
  <2>4. QED
    BY <2>1, <2>2, <2>3
<1>5. /\ IsCache(c1[r])
      /\ \A x \in DOMAIN c1[r].confirmed : Claim(e, x, c1[r].confirmed[x])
      /\ DOMAIN c1[r].staged = {}
  <2>1. /\ IsCache(c[r])
        /\ \A x \in DOMAIN c[r].confirmed : Claim(d, x, c[r].confirmed[x])
        /\ \A x \in DOMAIN c[r].staged : Claim(e, x, c[r].staged[x].value)
    BY <1>1 DEF CachesInv
  <2>2. \A x \in DOMAIN c[r].confirmed : Claim(e, x, c[r].confirmed[x])
    BY <1>2, <1>3, <2>1, ClaimGrows
  <2> DEFINE g == Over([x \in DOMAIN c[r].staged |-> c[r].staged[x].value], c[r].confirmed)
  <2>3. c1[r] = [staged |-> << >>, confirmed |-> g]
    BY DEF Promoted
  <2>4. g = [x \in DOMAIN g |-> g[x]]
    BY DEF Over
  <2>5. \A x \in DOMAIN g : \/ x \in DOMAIN c[r].staged /\ g[x] = c[r].staged[x].value
                            \/ x \in DOMAIN c[r].confirmed /\ g[x] = c[r].confirmed[x]
    BY DEF Over
  <2>6. DOMAIN << >> = {} /\ << >> = [x \in {} |-> << >>[x]]
    OBVIOUS
  <2> HIDE DEF g
  <2>7. IsCache(c1[r])
    BY <2>3, <2>4, <2>6 DEF IsCache
  <2>8. \A x \in DOMAIN g : Claim(e, x, g[x])
    BY <2>1, <2>2, <2>5
  <2>9. QED
    BY <2>3, <2>6, <2>7, <2>8
<1>6. QED
  BY <1>1, <1>4, <1>5 DEF CachesInv

-----------------------------------------------------------------------------
(* A step of a session that writes rows and goes on with its mail.          *)

\* The transaction of r has grown.
Advances(d, t, k, r, t1) ==
    /\ t1 = [q \in Run |-> t1[q]]
    /\ RowsInv(d, t1, k)
    /\ \A q \in Run \ {r} : t1[q] = t[q]
    /\ t[r].facts \subseteq t1[r].facts
    /\ Extends(Merged(d, t[r]), Merged(d, t1[r]))

\* A session that only inserts facts advances.
LEMMA AdvanceFacts ==
    ASSUME NEW d, NEW t, NEW k, NEW r \in Run, NEW F, NEW t1,
           RowsInv(d, t, k), t = [q \in Run |-> t[q]],
           t1 = [t EXCEPT ![r] = [facts |-> t[r].facts \cup F, people |-> t[r].people]],
           RowsInv(d, t1, k)
    PROVE  Advances(d, t, k, r, t1)
<1>1. Extends(Merged(d, t[r]), Merged(d, t1[r]))
  BY FactsExtend
<1>2. t1 = [q \in Run |-> t1[q]]
  OBVIOUS
<1>3. /\ \A q \in Run \ {r} : t1[q] = t[q]
      /\ t[r].facts \subseteq t1[r].facts
  OBVIOUS
<1>4. QED
  BY <1>1, <1>2, <1>3 DEF Advances

\* A step that writes nothing.
LEMMA AdvanceNothing ==
    ASSUME NEW d, NEW t, NEW k, NEW r \in Run, RowsInv(d, t, k), t = [q \in Run |-> t[q]]
    PROVE  Advances(d, t, k, r, t)
<1>1. Extends(Merged(d, t[r]), Merged(d, t[r]))
  BY MergedRows, ExtendsReflexive DEF RowsInv
<1>2. QED
  BY <1>1 DEF Advances

\* Seeing more rows, a session stands as it did.
LEMMA StandingGrows ==
    ASSUME NEW F, NEW G, F \subseteq G, NEW u, Standing(F, u)
    PROVE  Standing(G, u)
BY DEF Standing

\* What everyone knew before the write, they know after it.
LEMMA AdvanceKeeps ==
    ASSUME NEW d, NEW t, NEW k, NEW u, NEW c, NEW r \in Run, NEW t1,
           IngestInvOf(d, t, k, u, c), Advances(d, t, k, r, t1)
    PROVE  IngestInvOf(d, t1, k, u, c)
<1>1. RowsInv(d, t, k) /\ CachesInv(d, t, c) /\ StandingInv(d, t, u)
  BY DEF IngestInvOf
<1>2. RowsInv(d, t1, k)
  BY DEF Advances
<1>3. \A q \in Run : /\ IsRows(d) /\ IsRows(Merged(d, t[q])) /\ IsRows(Merged(d, t1[q]))
                     /\ Extends(d, d)
  BY <1>1, <1>2, MergedRows, ExtendsReflexive DEF RowsInv
<1>4. \A q \in Run : Extends(Merged(d, t[q]), Merged(d, t1[q]))
  <2>1. ASSUME NEW q \in Run PROVE Extends(Merged(d, t[q]), Merged(d, t1[q]))
    <3>1. CASE q = r
      BY <3>1 DEF Advances
    <3>2. CASE q # r
      BY <1>3, <3>2, ExtendsReflexive DEF Advances
    <3>3. QED
      BY <3>1, <3>2
  <2>2. QED
    BY <2>1
<1>5. CachesInv(d, t1, c)
  BY <1>1, <1>3, <1>4, CachesGrow
<1>6. StandingInv(d, t1, u)
  <2>1. ASSUME NEW q \in Run PROVE Standing(d.facts \cup t1[q].facts, u[q])
    <3>1. Standing(d.facts \cup t[q].facts, u[q])
      BY <1>1 DEF StandingInv
    <3>2. d.facts \cup t[q].facts \subseteq d.facts \cup t1[q].facts
      BY DEF Advances
    <3>3. QED
      BY <3>1, <3>2, StandingGrows
  <2>2. QED
    BY <2>1 DEF StandingInv
<1>7. t1 = [q \in Run |-> t1[q]]
  BY DEF Advances
<1>8. QED
  BY <1>2, <1>5, <1>6, <1>7 DEF IngestInvOf

\* The session moves on.
LEMMA MoveKeeps ==
    ASSUME NEW d, NEW t, NEW k, NEW u, NEW c, NEW r \in Run, NEW w,
           IngestInvOf(d, t, k, u, c), Standing(d.facts \cup t[r].facts, w), w.at # "idle",
           NEW u1, u1 = [u EXCEPT ![r] = w]
    PROVE  IngestInvOf(d, t, k, u1, c)
<1>1. u1[r] = w /\ u1 = [q \in Run |-> u1[q]] /\ \A q \in Run \ {r} : u1[q] = u[q]
  BY DEF IngestInvOf
<1>2. StandingInv(d, t, u1)
  BY <1>1 DEF IngestInvOf, StandingInv
<1>3. \A q \in Run : u1[q].at = "idle" => k[q] = NoRows
  BY <1>1 DEF IngestInvOf
<1>4. QED
  BY <1>1, <1>2, <1>3 DEF IngestInvOf

\* The session remembers what is true.
LEMMA StageKeeps ==
    ASSUME NEW d, NEW t, NEW k, NEW u, NEW c, NEW r \in Run, NEW key, NEW v,
           IngestInvOf(d, t, k, u, c), Claim(Merged(d, t[r]), key, v),
           NEW c1, c1 = [c EXCEPT ![r] = Stage(c[r], key, v, Depth(r))]
    PROVE  IngestInvOf(d, t, k, u, c1)
<1>1. c1[r] = Stage(c[r], key, v, Depth(r)) /\ c1 = [q \in Run |-> c1[q]]
      /\ \A q \in Run \ {r} : c1[q] = c[q]
  BY DEF IngestInvOf
<1>2. CachesInv(d, t, c1)
  BY <1>1, CacheStage DEF IngestInvOf
<1>3. QED
  BY <1>1, <1>2 DEF IngestInvOf

-----------------------------------------------------------------------------
(* What a statement finds.                                                  *)

\* The invariant as a statement of session r needs it.
LEMMA Here ==
    ASSUME IngestInv, NEW r \in Run
    PROVE  /\ RowsInv(db, tx, mark) /\ CachesInv(db, tx, cache)
           /\ tx = [q \in Run |-> tx[q]]
           /\ IsRows(db) /\ IsRows(tx[r]) /\ IsRows(View(r))
           /\ View(r) = Merged(db, tx[r])
           /\ View(r).facts = db.facts \cup tx[r].facts
           /\ \A f \in View(r).facts : IsFact(f)
           /\ Standing(View(r).facts, run[r])
           /\ Layer(db, tx[r])
<1>1. /\ RowsInv(db, tx, mark) /\ CachesInv(db, tx, cache) /\ StandingInv(db, tx, run)
      /\ tx = [q \in Run |-> tx[q]]
  BY DEF IngestInv, IngestInvOf
<1>2. IsRows(db) /\ IsRows(tx[r]) /\ Layer(db, tx[r])
  BY <1>1 DEF RowsInv
<1>3. View(r) = Merged(db, tx[r]) /\ View(r).facts = db.facts \cup tx[r].facts
  BY DEF View, Merged
<1>4. IsRows(View(r))
  BY <1>2, <1>3, MergedRows
<1>5. Standing(View(r).facts, run[r])
  BY <1>1, <1>3 DEF StandingInv
<1>6. \A f \in View(r).facts : IsFact(f)
  BY <1>4 DEF IsRows
<1>7. QED
  BY <1>1, <1>2, <1>3, <1>4, <1>5, <1>6

\* Neither seen nor held by another transaction, a match key is free.
LEMMA FreeEmail ==
    ASSUME IngestInv, NEW r \in Run, NEW a, NEW p, ~KeyBusy(r, PersonEmail(a, p)),
           ~Violates(r, PersonEmail(a, p))
    PROVE  \A x : ~Known(db, tx, PersonEmail(a, x))
<1>1. \A x : PersonEmail(a, x) \notin View(r).facts
  BY Here, EmailConflict DEF Violates
<1>2. ASSUME NEW q \in Run \ {r} PROVE \A x : PersonEmail(a, x) \notin tx[q].facts
  <2>1. \A f \in tx[q].facts : IsFact(f)
    BY Here DEF IsRows
  <2>2. ~ (\E g \in tx[q].facts : UniqueKey(g) = UniqueKey(PersonEmail(a, p)))
    BY DEF KeyBusy
  <2>3. QED
    BY <2>1, <2>2, EmailConflict
<1>3. QED
  BY <1>1, <1>2, Here DEF Known

\* A host whose insert neither waits nor collides is in no row of anybody.
LEMMA FreeDomain ==
    ASSUME IngestInv, NEW r \in Run, NEW h, NEW c, ~KeyBusy(r, CompanyDomain(h, c)),
           ~Violates(r, CompanyDomain(h, c))
    PROVE  \A x : ~Known(db, tx, CompanyDomain(h, x))
<1>1. \A x : CompanyDomain(h, x) \notin View(r).facts
  BY Here, DomainConflict DEF Violates
<1>2. ASSUME NEW q \in Run \ {r} PROVE \A x : CompanyDomain(h, x) \notin tx[q].facts
  <2>1. \A f \in tx[q].facts : IsFact(f)
    BY Here DEF IsRows
  <2>2. ~ (\E g \in tx[q].facts : UniqueKey(g) = UniqueKey(CompanyDomain(h, c)))
    BY DEF KeyBusy
  <2>3. QED
    BY <2>1, <2>2, DomainConflict
<1>3. QED
  BY <1>1, <1>2, Here DEF Known

\* A mail whose insert neither waits nor collides is in no row of anybody.
LEMMA FreeMessage ==
    ASSUME IngestInv, NEW r \in Run, NEW m, NEW x, ~KeyBusy(r, EmailMessage(m, x)),
           ~Violates(r, EmailMessage(m, x))
    PROVE  \A y : ~Known(db, tx, EmailMessage(m, y))
<1>1. \A y : EmailMessage(m, y) \notin View(r).facts
  BY Here, MessageConflict DEF Violates
<1>2. ASSUME NEW q \in Run \ {r} PROVE \A y : EmailMessage(m, y) \notin tx[q].facts
  <2>1. \A f \in tx[q].facts : IsFact(f)
    BY Here DEF IsRows
  <2>2. ~ (\E g \in tx[q].facts : UniqueKey(g) = UniqueKey(EmailMessage(m, x)))
    BY DEF KeyBusy
  <2>3. QED
    BY <2>1, <2>2, MessageConflict
<1>3. QED
  BY <1>1, <1>2, Here DEF Known

\* A lookup in what the session sees, with the unique rows the invariant gives.
LEMMA SeenEmail ==
    ASSUME IngestInv, NEW r \in Run, NEW a
    PROVE  /\ Find(View(r), "email", a) # None
                => PersonEmail(a, Find(View(r), "email", a)) \in View(r).facts
           /\ Find(View(r), "email", a) = None => \A p : PersonEmail(a, p) \notin View(r).facts
           /\ \A p : PersonEmail(a, p) \in View(r).facts => Find(View(r), "email", a) = p
<1>1. ASSUME NEW p, NEW q, PersonEmail(a, p) \in View(r).facts,
             PersonEmail(a, q) \in View(r).facts
      PROVE  q = p
  <2>1. Known(db, tx, PersonEmail(a, p)) /\ Known(db, tx, PersonEmail(a, q))
    BY <1>1, Here DEF Known
  <2>2. QED
    BY <2>1, Here DEF RowsInv, KeysUnique
<1>2. QED
  BY <1>1, Here, FindEmail

\* A lookup by host finds the company of the one visible domain row of the host.
LEMMA SeenDomain ==
    ASSUME IngestInv, NEW r \in Run, NEW h
    PROVE  /\ Find(View(r), "domain", h) # None
                => CompanyDomain(h, Find(View(r), "domain", h)) \in View(r).facts
           /\ Find(View(r), "domain", h) = None => \A c : CompanyDomain(h, c) \notin View(r).facts
           /\ \A c : CompanyDomain(h, c) \in View(r).facts => Find(View(r), "domain", h) = c
<1>1. ASSUME NEW p, NEW q, CompanyDomain(h, p) \in View(r).facts,
             CompanyDomain(h, q) \in View(r).facts
      PROVE  q = p
  <2>1. Known(db, tx, CompanyDomain(h, p)) /\ Known(db, tx, CompanyDomain(h, q))
    BY <1>1, Here DEF Known
  <2>2. QED
    BY <2>1, Here DEF RowsInv, KeysUnique
<1>2. QED
  BY <1>1, Here, FindDomain

\* A fresh id is on no row.
LEMMA FreshEmailId ==
    ASSUME IngestInv, NEW r \in Run, NEW i \in FreshId("email")
    PROVE  i \in Id /\ \A x : ~Known(db, tx, PersonEmail(x, i))
<1>1. /\ i \in Id
      /\ \A q \in Run, x \in Address \cup Host : i # Find(View(q), "email", x)
  BY DEF FreshId
<1>2. ASSUME NEW x, NEW q \in Run PROVE PersonEmail(x, i) \notin View(q).facts
  <2>1. SUFFICES ASSUME PersonEmail(x, i) \in View(q).facts PROVE FALSE
    OBVIOUS
  <2>2. IsFact(PersonEmail(x, i)) /\ Find(View(q), "email", x) = i
    BY <2>1, Here, SeenEmail
  <2>3. x \in Address
    BY <2>2, EmailFacts
  <2>4. QED
    BY <1>1, <2>2, <2>3
<1>3. ASSUME NEW x, Known(db, tx, PersonEmail(x, i)) PROVE FALSE
  <2>1. PICK q \in Run : PersonEmail(x, i) \in db.facts \cup tx[q].facts
    BY <1>3 DEF Known
  <2>2. QED
    BY <1>2, <2>1, Here
<1>4. QED
  BY <1>1, <1>3

\* A new company id is in no domain row of anybody.
LEMMA FreshDomainId ==
    ASSUME IngestInv, NEW r \in Run, NEW i \in FreshId("domain")
    PROVE  i \in Id /\ \A x : ~Known(db, tx, CompanyDomain(x, i))
<1>1. /\ i \in Id
      /\ \A q \in Run, x \in Address \cup Host : i # Find(View(q), "domain", x)
  BY DEF FreshId
<1>2. ASSUME NEW x, NEW q \in Run PROVE CompanyDomain(x, i) \notin View(q).facts
  <2>1. SUFFICES ASSUME CompanyDomain(x, i) \in View(q).facts PROVE FALSE
    OBVIOUS
  <2>2. IsFact(CompanyDomain(x, i)) /\ Find(View(q), "domain", x) = i
    BY <2>1, Here, SeenDomain
  <2>3. x \in Host
    BY <2>2, DomainFacts
  <2>4. QED
    BY <1>1, <2>2, <2>3
<1>3. ASSUME NEW x, Known(db, tx, CompanyDomain(x, i)) PROVE FALSE
  <2>1. PICK q \in Run : CompanyDomain(x, i) \in db.facts \cup tx[q].facts
    BY <1>3 DEF Known
  <2>2. QED
    BY <1>2, <2>1, Here
<1>4. QED
  BY <1>1, <1>3

\* The cache is as it was before a savepoint of the resolver.
LEMMA CacheAfterSavepoint ==
    ASSUME IngestInv, NEW r \in Run, NEW failed \in BOOLEAN
    PROVE  AfterSavepoint(r, failed) = cache[r]
<1>1. IsCache(cache[r]) /\ \A x \in DOMAIN cache[r].staged : cache[r].staged[x].tag = Depth(r)
  BY Here DEF CachesInv
<1>2. DiscardStaged(cache[r], Depth(r) + 1) = cache[r]
      /\ PromoteStaged(cache[r], Depth(r) + 1) = cache[r]
  BY <1>1, SavepointLeavesCache
<1>3. QED
  BY <1>2 DEF AfterSavepoint

\* The record of a session that goes to another step.
LEMMA GoTo ==
    ASSUME IngestInv, NEW r \in Run, NEW step
    PROVE  /\ Go(r, step) = [at |-> step, mail |-> run[r].mail, part |-> run[r].part,
                             company |-> run[r].company, person |-> run[r].person]
           /\ \A c : [Go(r, step) EXCEPT !.company = c]
                        = [at |-> step, mail |-> run[r].mail, part |-> run[r].part,
                           company |-> c, person |-> run[r].person]
           /\ \A p : [Go(r, step) EXCEPT !.person = p]
                        = [at |-> step, mail |-> run[r].mail, part |-> run[r].part,
                           company |-> run[r].company, person |-> p]
<1>1. run[r] = [at |-> run[r].at, mail |-> run[r].mail, part |-> run[r].part,
                company |-> run[r].company, person |-> run[r].person]
  BY Here DEF Standing
<1>2. PICK u : u = run[r]
  OBVIOUS
<1>3. Go(r, step) = [at |-> step, mail |-> u.mail, part |-> u.part,
                     company |-> u.company, person |-> u.person]
  BY <1>1, <1>2 DEF Go
<1>4. QED
  BY <1>2, <1>3

-----------------------------------------------------------------------------
(* The ends of mails and transactions.                                      *)

\* A session between two mails stands on no row.
LEMMA IdleStands ==
    ASSUME NEW F
    PROVE  Standing(F, Idle) /\ Idle.at = "idle"
BY DEF Standing, Idle, Step, CompanySettled, PersonSettled, PersonSteps

\* The savepoint of a new mail.
LEMMA OpenKeeps ==
    ASSUME NEW d, NEW t, NEW k, NEW u, NEW c, NEW r \in Run, NEW w,
           IngestInvOf(d, t, k, u, c), Standing(d.facts \cup t[r].facts, w), w.at # "idle",
           NEW u1, u1 = [u EXCEPT ![r] = w], NEW k1, k1 = [k EXCEPT ![r] = t[r]]
    PROVE  IngestInvOf(d, t, k1, u1, c)
<1>1. /\ k1[r] = t[r] /\ k1 = [q \in Run |-> k1[q]] /\ \A q \in Run \ {r} : k1[q] = k[q]
      /\ u1[r] = w /\ u1 = [q \in Run |-> u1[q]] /\ \A q \in Run \ {r} : u1[q] = u[q]
  BY DEF IngestInvOf
<1>2. RowsInv(d, t, k1)
  BY <1>1, Savepoint DEF IngestInvOf
<1>3. StandingInv(d, t, u1)
  BY <1>1 DEF IngestInvOf, StandingInv
<1>4. \A q \in Run : u1[q].at = "idle" => k1[q] = NoRows
  BY <1>1 DEF IngestInvOf
<1>5. QED
  BY <1>1, <1>2, <1>3, <1>4 DEF IngestInvOf

\* Its release.
LEMMA ReleaseKeeps ==
    ASSUME NEW d, NEW t, NEW k, NEW u, NEW c, NEW r \in Run, IngestInvOf(d, t, k, u, c),
           NEW u1, u1 = [u EXCEPT ![r] = Idle], NEW k1, k1 = [k EXCEPT ![r] = NoRows]
    PROVE  IngestInvOf(d, t, k1, u1, c)
<1>1. /\ k1[r] = NoRows /\ k1 = [q \in Run |-> k1[q]] /\ \A q \in Run \ {r} : k1[q] = k[q]
      /\ u1[r] = Idle /\ u1 = [q \in Run |-> u1[q]] /\ \A q \in Run \ {r} : u1[q] = u[q]
  BY DEF IngestInvOf
<1>2. RowsInv(d, t, k1)
  BY <1>1, Savepoint DEF IngestInvOf
<1>3. StandingInv(d, t, u1)
  BY <1>1, IdleStands DEF IngestInvOf, StandingInv
<1>4. \A q \in Run : u1[q].at = "idle" => k1[q] = NoRows
  BY <1>1 DEF IngestInvOf
<1>5. QED
  BY <1>1, <1>2, <1>3, <1>4 DEF IngestInvOf

\* The commit of a transaction.
LEMMA CommitKeeps ==
    ASSUME NEW d, NEW t, NEW k, NEW u, NEW c, NEW r \in Run, IngestInvOf(d, t, k, u, c),
           NEW t1, t1 = [t EXCEPT ![r] = NoRows], NEW k1, k1 = [k EXCEPT ![r] = NoRows],
           NEW u1, u1 = [u EXCEPT ![r] = Idle], NEW c1, c1 = [c EXCEPT ![r] = Promoted(c[r])]
    PROVE  IngestInvOf(Merged(d, t[r]), t1, k1, u1, c1)
<1>1. /\ t1[r] = NoRows /\ t1 = [q \in Run |-> t1[q]] /\ \A q \in Run \ {r} : t1[q] = t[q]
      /\ k1[r] = NoRows /\ k1 = [q \in Run |-> k1[q]] /\ \A q \in Run \ {r} : k1[q] = k[q]
  BY DEF IngestInvOf
<1>2. /\ u1[r] = Idle /\ u1 = [q \in Run |-> u1[q]] /\ \A q \in Run \ {r} : u1[q] = u[q]
      /\ c1[r] = Promoted(c[r]) /\ c1 = [q \in Run |-> c1[q]]
      /\ \A q \in Run \ {r} : c1[q] = c[q]
  BY DEF IngestInvOf
<1>3. RowsInv(d, t, k) /\ CachesInv(d, t, c) /\ StandingInv(d, t, u)
  BY DEF IngestInvOf
<1>4. Closes(t, k, r, t1, k1)
  BY <1>1 DEF Closes
<1>5. RowsInv(Merged(d, t[r]), t1, k1)
  BY <1>3, <1>4, Commit
<1>6. CachesInv(Merged(d, t[r]), t1, c1)
  BY <1>2, <1>3, <1>4, CachePromote
<1>7. StandingInv(Merged(d, t[r]), t1, u1)
  <2>1. ASSUME NEW q \in Run
        PROVE  Standing(Merged(d, t[r]).facts \cup t1[q].facts, u1[q])
    <3>1. CASE q = r
      BY <1>2, <3>1, IdleStands
    <3>2. CASE q # r
      <4>1. Standing(d.facts \cup t[q].facts, u1[q])
        BY <1>2, <1>3, <3>2 DEF StandingInv
      <4>2. d.facts \cup t[q].facts \subseteq Merged(d, t[r]).facts \cup t1[q].facts
        BY <1>1, <3>2, MergedParts
      <4>3. QED
        BY <4>1, <4>2, StandingGrows
    <3>3. QED
      BY <3>1, <3>2
  <2>2. QED
    BY <2>1 DEF StandingInv
<1>8. \A q \in Run : u1[q].at = "idle" => k1[q] = NoRows
  BY <1>1, <1>2 DEF IngestInvOf
<1>9. QED
  BY <1>1, <1>2, <1>5, <1>6, <1>7, <1>8 DEF IngestInvOf

\* A rollback, to the savepoint or of everything.
LEMMA UnwindKeeps ==
    ASSUME NEW d, NEW t, NEW k, NEW u, NEW c, NEW r \in Run, IngestInvOf(d, t, k, u, c),
           NEW L \in {k[r], NoRows}, NEW t1, t1 = [t EXCEPT ![r] = L],
           NEW k1, k1 = [k EXCEPT ![r] = NoRows], NEW u1, u1 = [u EXCEPT ![r] = Idle],
           NEW s \in {DiscardStaged(c[r], Depth(r)), EmptyCache}, NEW c1,
           c1 = [c EXCEPT ![r] = s]
    PROVE  IngestInvOf(d, t1, k1, u1, c1)
<1>1. /\ t1[r] = L /\ t1 = [q \in Run |-> t1[q]] /\ \A q \in Run \ {r} : t1[q] = t[q]
      /\ k1[r] = NoRows /\ k1 = [q \in Run |-> k1[q]] /\ \A q \in Run \ {r} : k1[q] = k[q]
  BY DEF IngestInvOf
<1>2. /\ u1[r] = Idle /\ u1 = [q \in Run |-> u1[q]] /\ \A q \in Run \ {r} : u1[q] = u[q]
      /\ c1[r] = s /\ c1 = [q \in Run |-> c1[q]]
      /\ \A q \in Run \ {r} : c1[q] = c[q]
  BY DEF IngestInvOf
<1>3. RowsInv(d, t, k) /\ CachesInv(d, t, c) /\ StandingInv(d, t, u)
  BY DEF IngestInvOf
<1>4. RowsInv(d, t1, k1)
  <2>1. \A q \in Run \ {r} : t1[q] = t[q] /\ k1[q] = k[q]
    BY <1>1
  <2>2. t1[r] \in {k[r], NoRows} /\ k1[r] = NoRows
    BY <1>1
  <2>3. RowsInv(d, t, k)
    BY <1>3
  <2>. HIDE <1>1, <1>3
  <2>4. QED
    BY ONLY <2>1, <2>2, <2>3, Unwind
<1>5. CachesInv(d, t1, c1)
  <2>1. OthersSame(t, r, t1) /\ OthersSame(c, r, c1)
    BY <1>1, <1>2 DEF OthersSame
  <2>2. c1[r] \in {DiscardStaged(c[r], Depth(r)), EmptyCache}
    BY <1>2
  <2>3. QED
    BY <1>3, <2>1, <2>2, CacheDiscard
<1>6. StandingInv(d, t1, u1)
  <2>1. ASSUME NEW q \in Run PROVE Standing(d.facts \cup t1[q].facts, u1[q])
    BY <1>1, <1>2, <1>3, IdleStands DEF StandingInv
  <2>2. QED
    BY <2>1 DEF StandingInv
<1>7. \A q \in Run : u1[q].at = "idle" => k1[q] = NoRows
  BY <1>1, <1>2 DEF IngestInvOf
<1>8. QED
  BY <1>1, <1>2, <1>4, <1>5, <1>6, <1>7 DEF IngestInvOf

\* The end of a mail, with the last plain rows it writes.
LEMMA MailDoneKeeps ==
    ASSUME IngestInv, NEW r \in Run, NEW F, PlainFacts(F),
           MailDone(r, With(r, F), cache[r])
    PROVE  IngestInv'
<1>1. PICK t : t = [tx EXCEPT ![r] = [facts |-> tx[r].facts \cup F, people |-> tx[r].people]]
  OBVIOUS
<1>2. /\ IngestInvOf(db, tx, mark, run, cache) /\ RowsInv(db, tx, mark)
      /\ tx = [q \in Run |-> tx[q]]
  BY Here DEF IngestInv
<1>3. Advances(db, tx, mark, r, t)
  <2>1. RowsInv(db, t, mark)
    BY <1>1, <1>2, PlainInsert
  <2>2. QED
    BY <1>1, <1>2, <2>1, AdvanceFacts
<1>4. IngestInvOf(db, t, mark, run, cache)
  BY <1>2, <1>3, AdvanceKeeps
<1>5. t[r] = With(r, F)
  BY <1>1, <1>2 DEF With
<1>6. run' = [run EXCEPT ![r] = Idle] /\ mark' = [mark EXCEPT ![r] = NoRows]
  BY DEF MailDone, MoveTo
<1>7. CASE r \in SyncRun
  <2>1. tx' = t /\ cache' = cache /\ db' = db
    <3>1. tx' = [tx EXCEPT ![r] = With(r, F)] /\ db' = db
      BY <1>7 DEF MailDone
    <3>2. cache' = [cache EXCEPT ![r] = cache[r]]
      BY <1>7 DEF MailDone, Remember, PromoteStaged
    <3>3. cache = [q \in Run |-> cache[q]]
      BY <1>2 DEF IngestInvOf
    <3>4. QED
      BY <1>1, <3>1, <3>2, <3>3 DEF With
  <2>2. IngestInvOf(db, t, mark', run', cache)
    BY <1>4, <1>6, ReleaseKeeps
  <2>3. QED
    BY <2>1, <2>2 DEF IngestInv
<1>8. CASE r \notin SyncRun
  <2>1. db' = Merged(db, t[r]) /\ tx' = [tx EXCEPT ![r] = NoRows]
    BY <1>5, <1>8 DEF MailDone, CommitRows
  <2>2. cache' = [cache EXCEPT ![r] = Promoted(cache[r])]
    BY <1>8 DEF MailDone, Remember, PromoteStaged
  <2>3. tx' = [t EXCEPT ![r] = NoRows]
    BY <1>1, <1>2, <2>1
  <2>4. IngestInvOf(Merged(db, t[r]), tx', mark', run', cache')
    BY <1>4, <1>6, <2>2, <2>3, CommitKeeps
  <2>5. QED
    BY <2>1, <2>4 DEF IngestInv
<1>9. QED
  BY <1>7, <1>8

-----------------------------------------------------------------------------
(* The statements of a mail.                                                *)

\* A step that only moves on, and perhaps remembers what it read.
LEMMA ReadKeeps ==
    ASSUME IngestInv, NEW r \in Run, NEW w, Standing(View(r).facts, w), w.at # "idle",
           UNCHANGED <<db, tx, mark>>, run' = [run EXCEPT ![r] = w], NEW key, NEW v,
           \/ UNCHANGED cache
           \/ /\ Claim(View(r), key, v)
              /\ cache' = [cache EXCEPT ![r] = Stage(cache[r], key, v, Depth(r))]
    PROVE  IngestInv'
<1>1. /\ IngestInvOf(db, tx, mark, run, cache) /\ View(r) = Merged(db, tx[r])
      /\ View(r).facts = db.facts \cup tx[r].facts
  BY Here DEF IngestInv
<1>2. IngestInvOf(db, tx, mark, run', cache)
  BY <1>1, MoveKeeps
<1>3. IngestInvOf(db, tx, mark, run', cache')
  <2>1. CASE UNCHANGED cache
    BY <1>2, <2>1
  <2>2. CASE /\ Claim(View(r), key, v)
             /\ cache' = [cache EXCEPT ![r] = Stage(cache[r], key, v, Depth(r))]
    BY <1>1, <1>2, <2>2, StageKeeps
  <2>3. QED
    BY <2>1, <2>2
<1>4. QED
  BY <1>3 DEF IngestInv

\* A step that writes rows, remembers them and moves on.
LEMMA WriteKeeps ==
    ASSUME IngestInv, NEW r \in Run, NEW w, Advances(db, tx, mark, r, tx'),
           Standing(db.facts \cup tx'[r].facts, w), w.at # "idle",
           UNCHANGED <<db, mark>>, run' = [run EXCEPT ![r] = w], NEW key, NEW v,
           \/ UNCHANGED cache
           \/ /\ Claim(Merged(db, tx'[r]), key, v)
              /\ cache' = [cache EXCEPT ![r] = Stage(cache[r], key, v, Depth(r))]
    PROVE  IngestInv'
<1>1. IngestInvOf(db, tx', mark, run, cache)
  BY AdvanceKeeps DEF IngestInv
<1>2. IngestInvOf(db, tx', mark, run', cache)
  BY <1>1, MoveKeeps
<1>3. IngestInvOf(db, tx', mark, run', cache')
  <2>1. CASE UNCHANGED cache
    BY <1>2, <2>1
  <2>2. CASE /\ Claim(Merged(db, tx'[r]), key, v)
             /\ cache' = [cache EXCEPT ![r] = Stage(cache[r], key, v, Depth(r))]
    BY <1>2, <2>2, StageKeeps
  <2>3. QED
    BY <2>1, <2>2
<1>4. QED
  BY <1>3 DEF IngestInv

\* The company of an address is a host that folds onto itself.
LEMMA ObservedCompanyIsKey ==
    ASSUME NEW a \in Address, ObservedCompany(a) # None
    PROVE  /\ ObservedCompany(a) \in Host /\ HostOf[a] \in Host
           /\ Registrable[HostOf[a]] = ObservedCompany(a)
           /\ Registrable[ObservedCompany(a)] = ObservedCompany(a)
BY IngestAssumption DEF ObservedCompany

\* The part of its mail that a session is at.
LEMMA PartTypes ==
    ASSUME IngestInv, NEW r \in Run, ~At(r, "idle")
    PROVE  /\ run[r].mail \in Mail /\ run[r].part \in DOMAIN Participants[run[r].mail]
           /\ Part(r) = PartOf(run[r])
           /\ PartOf(run[r]).address \in Address /\ PartOf(run[r]).name \in Name \cup {None}
           /\ AddressOf(r) = PartOf(run[r]).address
           /\ ObservedCompany(AddressOf(r)) = CompanyOf(run[r])
<1>1. run[r].mail \in Mail /\ run[r].part \in DOMAIN Participants[run[r].mail]
  BY Here DEF At, Standing
<1>2. Participants[run[r].mail]
        \in Seq([kind : STRING, address : Address, name : Name \cup {None}])
  BY <1>1, IngestAssumption
<1>3. PartOf(run[r]) \in [kind : STRING, address : Address, name : Name \cup {None}]
  <2>1. PICK S : S = [kind : STRING, address : Address, name : Name \cup {None}]
    OBVIOUS
  <2>2. PICK s \in Seq(S) : s = Participants[run[r].mail]
    BY <1>2, <2>1
  <2>3. \A i \in DOMAIN s : s[i] \in S
    OBVIOUS
  <2>4. QED
    BY <1>1, <2>1, <2>2, <2>3 DEF PartOf
<1>4. PartOf(run[r]).address \in Address /\ PartOf(run[r]).name \in Name \cup {None}
  BY <1>3
<1>5. QED
  BY <1>1, <1>4 DEF Part, PartOf, AddressOf, CompanyOf

\* Looking a company up, in the cache or in the table, keeps the invariant: what it
\* stages in the cache it has just read from a row.
LEMMA LookupCompanyKeeps ==
    ASSUME IngestInv, NEW r \in Run, LookupCompany(r)
    PROVE  IngestInv'
<1> DEFINE key == ObservedCompany(AddressOf(r))
           cached == Lookup(cache[r], CompanyKey(key))
           found == GetCompanyIdByDomain(r, key)
           u == run[r]
           W(step, c) == [at |-> step, mail |-> u.mail, part |-> u.part,
                          company |-> c, person |-> u.person]
<1>1. /\ At(r, "company") /\ UNCHANGED <<db, tx, mark>>
      /\ Standing(View(r).facts, u) /\ key = CompanyOf(u)
      /\ AddressOf(r) \in Address
  BY Here, PartTypes DEF LookupCompany, At
<1>2. \A c : [Go(r, "person") EXCEPT !.company = c] = W("person", c)
             /\ [Go(r, "host") EXCEPT !.company = c] = W("host", c)
             /\ Go(r, "mint_company") = W("mint_company", u.company)
  BY GoTo
<1>3. CASE key = None
  <2>1. run' = [run EXCEPT ![r] = W("person", None)] /\ UNCHANGED cache
    BY <1>2, <1>3 DEF LookupCompany, MoveTo
  <2>2. Standing(View(r).facts, W("person", None)) /\ W("person", None).at # "idle"
    BY <1>1, <1>3 DEF Standing, At, Step, CompanySettled, PersonSettled, PersonSteps,
                      CompanyOf, PartOf
  <2> HIDE DEF W
  <2>3. QED
    BY <1>1, <2>1, <2>2, ReadKeeps
<1>4. CASE key # None
  <2>0. key \in Host
    BY <1>1, <1>4, ObservedCompanyIsKey
  <2>1. ASSUME NEW c, CompanyDomain(key, c) \in View(r).facts
        PROVE  /\ c \in Id /\ Standing(View(r).facts, W("host", c))
               /\ W("host", c).at # "idle" /\ Claim(View(r), CompanyKey(key), c)
    <3>1. c \in Id
      BY <2>1, Here, DomainFacts
    <3>2. Claim(View(r), CompanyKey(key), c)
      BY <2>0, <2>1, <3>1, ClaimOf
    <3>3. Standing(View(r).facts, W("host", c)) /\ W("host", c).at # "idle"
      BY <1>1, <1>4, <2>1, <3>1 DEF Standing, At, Step, CompanySettled, PersonSettled,
                                    PersonSteps, CompanyOf, PartOf
    <3>4. QED
      BY <3>1, <3>2, <3>3
  <2>2. CASE cached # None
    <3>1. Claim(View(r), CompanyKey(key), cached)
      BY <2>2, Here, CacheHit
    <3>2. CompanyDomain(key, cached) \in View(r).facts
      BY <3>1, ClaimOf
    <3>3. run' = [run EXCEPT ![r] = W("host", cached)] /\ UNCHANGED cache
      BY <1>2, <1>4, <2>2 DEF LookupCompany, MoveTo
    <3>4. Standing(View(r).facts, W("host", cached)) /\ W("host", cached).at # "idle"
      BY <2>1, <3>2
    <3> HIDE DEF W, cached
    <3>5. QED
      BY <1>1, <3>3, <3>4, ReadKeeps
  <2>3. CASE cached = None /\ found # None
    <3>1. CompanyDomain(key, found) \in View(r).facts
      BY <2>3, SeenDomain DEF GetCompanyIdByDomain
    <3>2. /\ run' = [run EXCEPT ![r] = W("host", found)]
          /\ cache' = [cache EXCEPT ![r] = Stage(cache[r], CompanyKey(key), found, Depth(r))]
      BY <1>2, <1>4, <2>3 DEF LookupCompany, MoveTo, Remember
    <3>3. /\ Standing(View(r).facts, W("host", found)) /\ W("host", found).at # "idle"
          /\ Claim(View(r), CompanyKey(key), found)
      BY <2>1, <3>1
    <3> HIDE DEF W, found
    <3>4. QED
      BY <1>1, <3>2, <3>3, ReadKeeps
  <2>4. CASE cached = None /\ found = None
    <3>1. run' = [run EXCEPT ![r] = W("mint_company", u.company)] /\ UNCHANGED cache
      BY <1>2, <1>4, <2>4 DEF LookupCompany, MoveTo
    <3>2. Standing(View(r).facts, W("mint_company", u.company))
          /\ W("mint_company", u.company).at # "idle"
      BY <1>1, <1>4 DEF Standing, At, Step, CompanySettled, PersonSettled, PersonSteps,
                        CompanyOf, PartOf
    <3> HIDE DEF W
    <3>3. QED
      BY <1>1, <3>1, <3>2, ReadKeeps
  <2>5. QED
    BY <2>2, <2>3, <2>4
<1>5. QED
  BY <1>3, <1>4

\* Whoever wins the race for a key, the session goes on with the winner's company.
LEMMA InsertCompanyKeeps ==
    ASSUME IngestInv, NEW r \in Run, InsertCompany(r)
    PROVE  IngestInv'
<1> DEFINE key == ObservedCompany(AddressOf(r))
           u == run[r]
           W(c) == [at |-> "host", mail |-> u.mail, part |-> u.part,
                    company |-> c, person |-> u.person]
           lost(c) == Violates(r, CompanyDomain(key, c))
           id(c) == IF lost(c) THEN GetCompanyIdByDomain(r, key) ELSE c
<1>1. /\ At(r, "mint_company") /\ UNCHANGED <<db, mark>>
      /\ Standing(View(r).facts, u) /\ key = CompanyOf(u)
      /\ AddressOf(r) \in Address
  BY Here, PartTypes DEF InsertCompany, At
<1>2. key # None
  BY <1>1 DEF Standing, At
<1>3. key \in Host /\ Registrable[key] = key
  BY <1>1, <1>2, ObservedCompanyIsKey
<1>4. PICK c \in FreshId("domain") :
        /\ ~KeyBusy(r, CompanyDomain(key, c))
        /\ Write(r, IF lost(c) THEN tx[r] ELSE With(r, {Company(c), CompanyDomain(key, c)}))
        /\ Remember(r, Stage(AfterSavepoint(r, lost(c)), CompanyKey(key), id(c), Depth(r)))
        /\ MoveTo(r, [Go(r, "host") EXCEPT !.company = id(c)])
  BY DEF InsertCompany
<1>5. c \in Id /\ \A x : ~Known(db, tx, CompanyDomain(x, c))
  BY FreshDomainId
<1>6. lost(c) \in BOOLEAN
  BY DEF Violates
<1>7. cache' = [cache EXCEPT ![r] = Stage(cache[r], CompanyKey(key), id(c), Depth(r))]
  BY <1>4, <1>6, CacheAfterSavepoint DEF Remember
<1>8. run' = [run EXCEPT ![r] = W(id(c))]
  BY <1>4, GoTo DEF MoveTo
<1>9. /\ RowsInv(db, tx, mark) /\ tx = [q \in Run |-> tx[q]]
      /\ View(r).facts = db.facts \cup tx[r].facts
  BY Here
<1>10. /\ Advances(db, tx, mark, r, tx')
       /\ CompanyDomain(key, id(c)) \in db.facts \cup tx'[r].facts /\ id(c) \in Id
  <2>1. CASE lost(c)
    <3>1. tx' = tx
      BY <1>4, <1>9, <2>1 DEF Write
    <3>2. \E b : CompanyDomain(key, b) \in View(r).facts
      BY <2>1, Here, DomainConflict DEF Violates
    <3>3. CompanyDomain(key, id(c)) \in View(r).facts
      BY <2>1, <3>2, SeenDomain DEF GetCompanyIdByDomain
    <3>4. id(c) \in Id
      BY <3>3, Here, DomainFacts
    <3>5. QED
      BY <1>9, <3>1, <3>3, <3>4, AdvanceNothing
  <2>2. CASE ~lost(c)
    <3>1. tx' = [tx EXCEPT ![r] = [facts |-> tx[r].facts
                                        \cup {Company(c), CompanyDomain(key, c)},
                                   people |-> tx[r].people]]
      BY <1>4, <2>2 DEF Write, With
    <3>2. \A x : ~Known(db, tx, CompanyDomain(key, x))
      BY <1>4, <2>2, FreeDomain
    <3>3. RowsInv(db, tx', mark)
      BY <1>3, <1>5, <1>9, <3>1, <3>2, CompanyInsert
    <3>4. Advances(db, tx, mark, r, tx')
      BY <1>9, <3>1, <3>3, AdvanceFacts
    <3>5. CompanyDomain(key, c) \in tx'[r].facts
      BY <1>9, <3>1
    <3>6. QED
      BY <1>5, <2>2, <3>4, <3>5
  <2>3. QED
    BY <2>1, <2>2
<1> HIDE DEF lost, id
<1>11. Standing(db.facts \cup tx'[r].facts, W(id(c))) /\ W(id(c)).at # "idle"
  BY <1>1, <1>2, <1>10 DEF Standing, At, Step, CompanySettled, PersonSettled, PersonSteps,
                           CompanyOf, PartOf
<1>12. Claim(Merged(db, tx'[r]), CompanyKey(key), id(c))
  <2>1. PICK rows : rows = Merged(db, tx'[r])
    OBVIOUS
  <2>2. CompanyDomain(key, id(c)) \in rows.facts
    BY <1>10, <2>1 DEF Merged
  <2>3. Claim(rows, CompanyKey(key), id(c))
    BY <1>3, <1>10, <2>2, ClaimOf
  <2>4. QED
    BY <2>1, <2>3
<1> HIDE DEF W
<1>13. QED
  BY <1>1, <1>7, <1>8, <1>10, <1>11, <1>12, WriteKeeps

\* A row that may be there already: the evidence row of a host, an alias or a
\* link.  Skipped or not, what the marker says is true afterwards.
LEMMA EnsureKeeps ==
    ASSUME IngestInv, NEW r \in Run, NEW f, NEW marker, NEW w, UNCHANGED <<db, mark>>,
           Ensure(r, f, marker, w),
           Standing(View(r).facts, w), w.at # "idle",
           \A t1 : /\ ~KeyBusy(r, f) /\ ~Violates(r, f)
                   /\ t1 = [tx EXCEPT ![r] = [facts |-> tx[r].facts \cup {f},
                                              people |-> tx[r].people]]
                   => RowsInv(db, t1, mark),
           Violates(r, f) => f \in View(r).facts,
           \A rows : f \in rows.facts => Claim(rows, marker, TRUE)
    PROVE  IngestInv'
<1>1. /\ RowsInv(db, tx, mark) /\ tx = [q \in Run |-> tx[q]]
      /\ View(r).facts = db.facts \cup tx[r].facts /\ View(r) = Merged(db, tx[r])
  BY Here
<1>2. CASE Lookup(cache[r], marker) # None
  <2>1. UNCHANGED <<db, tx, mark>> /\ UNCHANGED cache /\ run' = [run EXCEPT ![r] = w]
    BY <1>2 DEF Ensure, MoveTo
  <2>2. QED
    BY <2>1, ReadKeeps
<1>3. CASE Lookup(cache[r], marker) = None
  <2>1. /\ ~KeyBusy(r, f)
        /\ tx' = [tx EXCEPT ![r] = IF Violates(r, f) THEN tx[r] ELSE With(r, {f})]
        /\ cache' = [cache EXCEPT ![r] = Stage(AfterSavepoint(r, Violates(r, f)), marker,
                                               TRUE, Depth(r))]
        /\ run' = [run EXCEPT ![r] = w]
    BY <1>3 DEF Ensure, MoveTo, Write, Remember
  <2>2. Violates(r, f) \in BOOLEAN
    BY DEF Violates
  <2>3. cache' = [cache EXCEPT ![r] = Stage(cache[r], marker, TRUE, Depth(r))]
    BY <2>1, <2>2, CacheAfterSavepoint
  <2>4. Advances(db, tx, mark, r, tx') /\ f \in db.facts \cup tx'[r].facts
    <3>1. CASE Violates(r, f)
      <4>1. tx' = tx
        BY <1>1, <2>1, <3>1
      <4>2. QED
        BY <1>1, <3>1, <4>1, AdvanceNothing
    <3>2. CASE ~Violates(r, f)
      <4>1. tx' = [tx EXCEPT ![r] = [facts |-> tx[r].facts \cup {f}, people |-> tx[r].people]]
        BY <2>1, <3>2 DEF With
      <4>2. RowsInv(db, tx', mark)
        BY <2>1, <3>2, <4>1
      <4>3. Advances(db, tx, mark, r, tx')
        BY <1>1, <4>1, <4>2, AdvanceFacts
      <4>4. f \in tx'[r].facts
        BY <1>1, <4>1
      <4>5. QED
        BY <4>3, <4>4
    <3>3. QED
      BY <3>1, <3>2
  <2>5. Claim(Merged(db, tx'[r]), marker, TRUE)
    <3>1. PICK rows : rows = Merged(db, tx'[r])
      OBVIOUS
    <3>2. f \in rows.facts
      BY <2>4, <3>1 DEF Merged
    <3>3. Claim(rows, marker, TRUE)
      BY <3>2
    <3>4. QED
      BY <3>1, <3>3
  <2>6. Standing(db.facts \cup tx'[r].facts, w)
    <3>1. View(r).facts \subseteq db.facts \cup tx'[r].facts
      BY <1>1, <2>4 DEF Advances
    <3>2. QED
      BY <3>1, StandingGrows
  <2>7. QED
    BY <2>1, <2>3, <2>4, <2>5, <2>6, WriteKeeps
<1>4. QED
  BY <1>2, <1>3

\* The evidence row of a host, under the company of its part.
LEMMA RecordObservedHostKeeps ==
    ASSUME IngestInv, NEW r \in Run, RecordObservedHost(r)
    PROVE  IngestInv'
<1> DEFINE a == AddressOf(r)
           u == run[r]
           h == HostOf[a]
           f == CompanyDomain(h, u.company)
           marker == HostMarker(u.company, h)
           w == [at |-> "person", mail |-> u.mail, part |-> u.part,
                 company |-> u.company, person |-> u.person]
<1>1. /\ At(r, "host") /\ UNCHANGED <<db, mark>>
      /\ Standing(View(r).facts, u) /\ ObservedCompany(a) = CompanyOf(u)
      /\ a \in Address
  BY Here, PartTypes DEF RecordObservedHost, At
<1>2. ObservedCompany(a) # None /\ CompanyDomain(ObservedCompany(a), u.company) \in View(r).facts
  BY <1>1 DEF Standing, At, CompanySettled
<1>3. h \in Host /\ Registrable[h] = ObservedCompany(a)
  BY <1>1, <1>2, ObservedCompanyIsKey
<1>4. u.company \in Id
  BY <1>2, Here, DomainFacts
<1>5. Standing(View(r).facts, w) /\ w.at # "idle" /\ Go(r, "person") = w
  <2>1. Go(r, "person") = w
    BY GoTo
  <2>2. Standing(View(r).facts, w) /\ w.at # "idle"
    BY <1>1, <1>2 DEF Standing, At, Step, CompanySettled, PersonSettled, PersonSteps,
                      CompanyOf, PartOf
  <2>3. QED
    BY <2>1, <2>2
<1> HIDE DEF w
<1>6. CASE h = ObservedCompany(a)
  <2>1. UNCHANGED <<db, tx, mark>> /\ UNCHANGED cache /\ run' = [run EXCEPT ![r] = w]
    BY <1>1, <1>5, <1>6 DEF RecordObservedHost, MoveTo
  <2>2. QED
    BY <1>5, <2>1, ReadKeeps
<1>7. CASE h # ObservedCompany(a)
  <2>1. Ensure(r, f, marker, w)
    BY <1>5, <1>7 DEF RecordObservedHost
  <2>2. /\ RowsInv(db, tx, mark) /\ tx = [q \in Run |-> tx[q]]
        /\ View(r).facts = db.facts \cup tx[r].facts /\ Layer(db, tx[r])
    BY Here
  <2>3. ASSUME NEW t1, ~KeyBusy(r, f), ~Violates(r, f),
               t1 = [tx EXCEPT ![r] = [facts |-> tx[r].facts \cup {f}, people |-> tx[r].people]]
        PROVE  RowsInv(db, t1, mark)
    <3>1. \A x : ~Known(db, tx, CompanyDomain(h, x))
      BY <2>3, FreeDomain
    <3>2. Registrable[h] # h /\ CompanyDomain(Registrable[h], u.company)
                                    \in db.facts \cup tx[r].facts
      BY <1>2, <1>3, <1>7, <2>2
    <3>3. QED
      BY <1>3, <1>4, <2>2, <2>3, <3>1, <3>2, HostInsert
  <2>4. ASSUME Violates(r, f) PROVE f \in View(r).facts
    <3>1. PICK c : CompanyDomain(h, c) \in View(r).facts
      BY <2>4, Here, DomainConflict DEF Violates
    <3>2. CompanyDomain(ObservedCompany(a), c) \in View(r).facts
      BY <1>3, <2>2, <3>1 DEF Layer
    <3>3. Known(db, tx, CompanyDomain(ObservedCompany(a), c))
          /\ Known(db, tx, CompanyDomain(ObservedCompany(a), u.company))
      BY <1>2, <2>2, <3>2 DEF Known
    <3>4. c = u.company
      BY <2>2, <3>3 DEF RowsInv, KeysUnique
    <3>5. QED
      BY <3>1, <3>4
  <2>5. ASSUME NEW rows, f \in rows.facts PROVE Claim(rows, marker, TRUE)
    BY <1>3, <1>4, <2>5, ClaimOf
  <2> HIDE DEF f, marker
  <2>6. QED
    BY <1>1, <1>5, <2>1, <2>3, <2>4, <2>5, EnsureKeeps
<1>8. QED
  BY <1>6, <1>7

\* A row of a table whose UNIQUE constraint names every column.
LEMMA EnsurePlainKeeps ==
    ASSUME IngestInv, NEW r \in Run, NEW f, NEW marker, NEW w, UNCHANGED <<db, mark>>,
           Ensure(r, f, marker, w), Standing(View(r).facts, w), w.at # "idle",
           IsFact(f), f[1] \in {"alias", "link"}, f = <<f[1], f[2], f[3]>>,
           \A rows : f \in rows.facts => Claim(rows, marker, TRUE)
    PROVE  IngestInv'
<1>1. /\ RowsInv(db, tx, mark) /\ tx = [q \in Run |-> tx[q]]
  BY Here
<1>2. ASSUME NEW t1,
             t1 = [tx EXCEPT ![r] = [facts |-> tx[r].facts \cup {f}, people |-> tx[r].people]]
      PROVE  RowsInv(db, t1, mark)
  <2>1. PlainFacts({f})
    BY DEF PlainFacts, PlainKinds
  <2>2. QED
    BY <1>1, <1>2, <2>1, PlainInsert
<1>3. Violates(r, f) => f \in View(r).facts
  BY PlainConflict DEF Violates
<1>4. QED
  BY <1>2, <1>3, EnsureKeeps

\* A person is settled: eligible, and the owner of the address.
LEMMA PersonStands ==
    ASSUME IngestInv, NEW r \in Run, run[r].at \in {"name", "alias", "seen", "link"}
    PROVE  /\ run[r].person \in Id /\ run[r].person # None
           /\ BecomesPerson(run[r].mail, PartOf(run[r]))
           /\ PersonEmail(PartOf(run[r]).address, run[r].person) \in View(r).facts
           /\ run[r].person \in DOMAIN View(r).people
<1>1. Standing(View(r).facts, run[r]) /\ Layer(db, tx[r])
      /\ View(r) = Merged(db, tx[r]) /\ View(r).facts = db.facts \cup tx[r].facts
  BY Here
<1>2. BecomesPerson(run[r].mail, PartOf(run[r]))
      /\ PersonEmail(PartOf(run[r]).address, run[r].person) \in View(r).facts
  BY <1>1 DEF Standing, PersonSteps, PersonSettled
<1>3. run[r].person \in Id
  BY <1>2, Here, EmailFacts
<1>4. run[r].person \in DOMAIN db.people \cup DOMAIN tx[r].people
  BY <1>1, <1>2 DEF Layer
<1>5. run[r].person \in DOMAIN View(r).people
  BY <1>1, <1>4, MergedParts
<1>6. QED
  BY <1>2, <1>3, <1>5, IngestAssumption DEF Id

\* The alias of a person under the name of the part.
LEMMA AddAliasKeeps ==
    ASSUME IngestInv, NEW r \in Run, AddAlias(r)
    PROVE  IngestInv'
<1> DEFINE u == run[r]
           n == Part(r).name
           f == PersonAlias(u.person, n)
           marker == AliasMarker(u.person, n)
           w == [at |-> "seen", mail |-> u.mail, part |-> u.part,
                 company |-> u.company, person |-> u.person]
<1>1. /\ At(r, "alias") /\ UNCHANGED <<db, mark>> /\ Ensure(r, f, marker, Go(r, "seen"))
      /\ Standing(View(r).facts, u) /\ n = PartOf(u).name /\ n \in Name \cup {None}
  BY Here, PartTypes DEF AddAlias, At
<1>2. u.person \in Id /\ n \in Name
  BY <1>1, PersonStands DEF At, Standing
<1>3. Go(r, "seen") = w
  BY GoTo
<1>4. Standing(View(r).facts, w) /\ w.at # "idle"
  BY <1>1, PersonStands DEF Standing, At, Step, CompanySettled, PersonSettled, PersonSteps,
                            CompanyOf, PartOf
<1>5. IsFact(f) /\ f[1] \in {"alias", "link"} /\ f = <<f[1], f[2], f[3]>>
  BY <1>2 DEF IsFact, PersonAlias
<1>6. ASSUME NEW rows, f \in rows.facts PROVE Claim(rows, marker, TRUE)
  BY <1>2, <1>6, ClaimOf
<1> HIDE DEF f, marker, w
<1>7. QED
  BY <1>1, <1>3, <1>4, <1>5, <1>6, EnsurePlainKeeps

\* The link of a person with the company of the part.
LEMMA LinkPersonCompanyKeeps ==
    ASSUME IngestInv, NEW r \in Run, LinkPersonCompany(r)
    PROVE  IngestInv'
<1> DEFINE u == run[r]
           f == PersonCompany(u.person, u.company)
           marker == LinkMarker(u.person, u.company)
           w == [at |-> "store", mail |-> u.mail, part |-> u.part,
                 company |-> u.company, person |-> u.person]
<1>1. /\ At(r, "link") /\ UNCHANGED <<db, mark>> /\ Standing(View(r).facts, u)
      /\ u.person \in Id /\ u.company \in Id \cup {None}
  BY Here, PersonStands DEF LinkPersonCompany, At, Standing
<1>2. Go(r, "store") = w
  BY GoTo
<1>3. Standing(View(r).facts, w) /\ w.at # "idle"
  BY <1>1, PersonStands DEF Standing, At, Step, CompanySettled, PersonSettled, PersonSteps,
                            CompanyOf, PartOf
<1> HIDE DEF w
<1>4. CASE u.company = None
  <2>1. UNCHANGED <<db, tx, mark>> /\ UNCHANGED cache /\ run' = [run EXCEPT ![r] = w]
    BY <1>1, <1>2, <1>4 DEF LinkPersonCompany, MoveTo
  <2>2. QED
    BY <1>3, <2>1, ReadKeeps
<1>5. CASE u.company # None
  <2>1. u.company \in Id
    BY <1>1, <1>5
  <2>2. Ensure(r, f, marker, w)
    BY <1>2, <1>5 DEF LinkPersonCompany
  <2>3. IsFact(f) /\ f[1] \in {"alias", "link"} /\ f = <<f[1], f[2], f[3]>>
    BY <1>1, <2>1 DEF IsFact, PersonCompany
  <2>4. ASSUME NEW rows, f \in rows.facts PROVE Claim(rows, marker, TRUE)
    BY <1>1, <2>1, <2>4, ClaimOf
  <2> HIDE DEF f, marker
  <2>5. QED
    BY <1>1, <1>3, <2>2, <2>3, <2>4, EnsurePlainKeeps
<1>6. QED
  BY <1>4, <1>5

\* Known to the cache or to the rows, a person is the owner of the address.
LEMMA LookupPersonKeeps ==
    ASSUME IngestInv, NEW r \in Run, LookupPerson(r)
    PROVE  IngestInv'
<1> DEFINE a == AddressOf(r)
           u == run[r]
           cached == Lookup(cache[r], PersonKey(a))
           found == GetPersonIdByEmail(r, a)
           eligible == BecomesPerson(u.mail, Part(r))
           W(step, p) == [at |-> step, mail |-> u.mail, part |-> u.part,
                          company |-> u.company, person |-> p]
<1>1. /\ At(r, "person") /\ UNCHANGED <<db, tx, mark>>
      /\ Standing(View(r).facts, u) /\ Part(r) = PartOf(u) /\ a = PartOf(u).address
      /\ a \in Address
  BY Here, PartTypes DEF LookupPerson, At
<1>2. \A p : [Go(r, "store") EXCEPT !.person = p] = W("store", p)
             /\ [Go(r, "name") EXCEPT !.person = p] = W("name", p)
             /\ Go(r, "mint_person") = W("mint_person", u.person)
  BY GoTo
<1>3. CASE ~eligible
  <2>1. run' = [run EXCEPT ![r] = W("store", None)] /\ UNCHANGED cache
    BY <1>2, <1>3 DEF LookupPerson, MoveTo
  <2>2. Standing(View(r).facts, W("store", None)) /\ W("store", None).at # "idle"
    BY <1>1, <1>3 DEF Standing, At, Step, CompanySettled, PersonSettled, PersonSteps,
                      CompanyOf, PartOf
  <2> HIDE DEF W
  <2>3. QED
    BY <1>1, <2>1, <2>2, ReadKeeps
<1>4. CASE eligible
  <2>1. ASSUME NEW p, PersonEmail(a, p) \in View(r).facts
        PROVE  /\ Standing(View(r).facts, W("name", p))
               /\ W("name", p).at # "idle" /\ Claim(View(r), PersonKey(a), p)
    <3>1. p \in Id
      BY <2>1, Here, EmailFacts
    <3>2. Claim(View(r), PersonKey(a), p)
      BY <1>1, <2>1, <3>1, ClaimOf
    <3>3. Standing(View(r).facts, W("name", p)) /\ W("name", p).at # "idle"
      BY <1>1, <1>4, <2>1, <3>1 DEF Standing, At, Step, CompanySettled, PersonSettled,
                                    PersonSteps, CompanyOf, PartOf
    <3>4. QED
      BY <3>2, <3>3
  <2>2. CASE cached # None
    <3>1. Claim(View(r), PersonKey(a), cached)
      BY <2>2, Here, CacheHit
    <3>2. PersonEmail(a, cached) \in View(r).facts
      BY <3>1, ClaimOf
    <3>3. run' = [run EXCEPT ![r] = W("name", cached)] /\ UNCHANGED cache
      BY <1>2, <1>4, <2>2 DEF LookupPerson, MoveTo
    <3>4. Standing(View(r).facts, W("name", cached)) /\ W("name", cached).at # "idle"
      BY <2>1, <3>2
    <3> HIDE DEF W, cached
    <3>5. QED
      BY <1>1, <3>3, <3>4, ReadKeeps
  <2>3. CASE cached = None /\ found # None
    <3>1. PersonEmail(a, found) \in View(r).facts
      BY <2>3, SeenEmail DEF GetPersonIdByEmail
    <3>2. /\ run' = [run EXCEPT ![r] = W("name", found)]
          /\ cache' = [cache EXCEPT ![r] = Stage(cache[r], PersonKey(a), found, Depth(r))]
      BY <1>2, <1>4, <2>3 DEF LookupPerson, MoveTo, Remember
    <3>3. /\ Standing(View(r).facts, W("name", found)) /\ W("name", found).at # "idle"
          /\ Claim(View(r), PersonKey(a), found)
      BY <2>1, <3>1
    <3> HIDE DEF W, found
    <3>4. QED
      BY <1>1, <3>2, <3>3, ReadKeeps
  <2>4. CASE cached = None /\ found = None
    <3>1. run' = [run EXCEPT ![r] = W("mint_person", u.person)] /\ UNCHANGED cache
      BY <1>2, <1>4, <2>4 DEF LookupPerson, MoveTo
    <3>2. Standing(View(r).facts, W("mint_person", u.person))
          /\ W("mint_person", u.person).at # "idle"
      BY <1>1, <1>4 DEF Standing, At, Step, CompanySettled, PersonSettled, PersonSteps,
                        CompanyOf, PartOf
    <3> HIDE DEF W
    <3>3. QED
      BY <1>1, <3>1, <3>2, ReadKeeps
  <2>5. QED
    BY <2>2, <2>3, <2>4
<1>5. QED
  BY <1>3, <1>4

\* Whoever wins the race for an address, the session goes on with its owner.
LEMMA InsertPersonKeeps ==
    ASSUME IngestInv, NEW r \in Run, InsertPerson(r)
    PROVE  IngestInv'
<1> DEFINE a == AddressOf(r)
           u == run[r]
           row == [name |-> Part(r).name, seen |-> None]
           W(p) == [at |-> "name", mail |-> u.mail, part |-> u.part,
                    company |-> u.company, person |-> p]
           lost(p) == Violates(r, PersonEmail(a, p))
           id(p) == IF lost(p) THEN GetPersonIdByEmail(r, a) ELSE p
<1>1. /\ At(r, "mint_person") /\ UNCHANGED <<db, mark>>
      /\ Standing(View(r).facts, u) /\ Part(r) = PartOf(u) /\ a = PartOf(u).address
      /\ a \in Address /\ Part(r).name \in Name \cup {None}
  BY Here, PartTypes DEF InsertPerson, At
<1>2. row \in PersonRow
  BY <1>1 DEF PersonRow
<1>3. BecomesPerson(u.mail, PartOf(u))
  BY <1>1 DEF Standing, At, PersonSteps
<1>4. PICK p \in FreshId("email") :
        /\ ~KeyBusy(r, PersonEmail(a, p))
        /\ Write(r, MintedPerson(r, p, lost(p)))
        /\ Remember(r, Stage(AfterSavepoint(r, lost(p)), PersonKey(a), id(p), Depth(r)))
        /\ MoveTo(r, [Go(r, "name") EXCEPT !.person = id(p)])
  BY DEF InsertPerson
<1>5. p \in Id /\ \A x : ~Known(db, tx, PersonEmail(x, p))
  BY FreshEmailId
<1>6. lost(p) \in BOOLEAN
  BY DEF Violates
<1>7. cache' = [cache EXCEPT ![r] = Stage(cache[r], PersonKey(a), id(p), Depth(r))]
  BY <1>4, <1>6, CacheAfterSavepoint DEF Remember
<1>8. run' = [run EXCEPT ![r] = W(id(p))]
  BY <1>4, GoTo DEF MoveTo
<1>9. /\ RowsInv(db, tx, mark) /\ tx = [q \in Run |-> tx[q]]
      /\ View(r).facts = db.facts \cup tx[r].facts
  BY Here
<1>10. /\ Advances(db, tx, mark, r, tx')
       /\ PersonEmail(a, id(p)) \in db.facts \cup tx'[r].facts /\ id(p) \in Id
  <2>1. CASE lost(p)
    <3>1. tx' = tx
      BY <1>4, <1>9, <2>1 DEF Write, MintedPerson
    <3>2. \E q : PersonEmail(a, q) \in View(r).facts
      BY <2>1, Here, EmailConflict DEF Violates
    <3>3. PersonEmail(a, id(p)) \in View(r).facts
      BY <2>1, <3>2, SeenEmail DEF GetPersonIdByEmail
    <3>4. id(p) \in Id
      BY <3>3, Here, EmailFacts
    <3>5. QED
      BY <1>9, <3>1, <3>3, <3>4, AdvanceNothing
  <2>2. CASE ~lost(p)
    <3>1. tx' = [tx EXCEPT ![r] = [facts |-> tx[r].facts \cup {PersonEmail(a, p)},
                                   people |-> Put(tx[r].people, p, row)]]
      BY <1>4, <2>2 DEF Write, MintedPerson, NewPerson
    <3>2. \A x : ~Known(db, tx, PersonEmail(a, x))
      BY <1>4, <2>2, FreeEmail
    <3>3. RowsInv(db, tx', mark) /\ Extends(Merged(db, tx[r]), Merged(db, tx'[r]))
      <4>1. PICK t : t = tx'
        OBVIOUS
      <4>2. PICK x \in PersonRow : x = row
        BY <1>2
      <4>3. t = [tx EXCEPT ![r] = [facts |-> tx[r].facts \cup {PersonEmail(a, p)},
                                   people |-> Put(tx[r].people, p, x)]]
        BY <3>1, <4>1, <4>2
      <4>4. RowsInv(db, t, mark) /\ Extends(Merged(db, tx[r]), Merged(db, t[r]))
        <5>1. PICK b \in Address : b = a
          BY <1>1
        <5>2. /\ p \in Id /\ RowsInv(db, tx, mark) /\ tx = [q \in Run |-> tx[q]]
              /\ \A y : ~Known(db, tx, PersonEmail(y, p))
          BY <1>5, <1>9
        <5>3. /\ \A y : ~Known(db, tx, PersonEmail(b, y))
              /\ t = [tx EXCEPT ![r] = [facts |-> tx[r].facts \cup {PersonEmail(b, p)},
                                       people |-> Put(tx[r].people, p, x)]]
          BY <3>2, <4>3, <5>1
        <5>4. QED
          BY ONLY <5>2, <5>3, PersonInsert, r \in Run, p \in Id, b \in Address, x \in PersonRow
      <4>5. QED
        BY <4>1, <4>4
    <3>4. /\ tx' = [q \in Run |-> tx'[q]] /\ \A q \in Run \ {r} : tx'[q] = tx[q]
          /\ tx'[r].facts = tx[r].facts \cup {PersonEmail(a, p)}
      BY <1>9, <3>1
    <3>5. Advances(db, tx, mark, r, tx')
      BY <3>3, <3>4 DEF Advances
    <3>6. QED
      BY <1>5, <2>2, <3>4, <3>5
  <2>3. QED
    BY <2>1, <2>2
<1> HIDE DEF lost, id
<1>11. Standing(db.facts \cup tx'[r].facts, W(id(p))) /\ W(id(p)).at # "idle"
  <2>1. Standing(db.facts \cup tx'[r].facts, u)
    <3>1. View(r).facts \subseteq db.facts \cup tx'[r].facts
      BY <1>9, <1>10 DEF Advances
    <3>2. QED
      BY <1>1, <3>1, StandingGrows
  <2>2. QED
    BY <1>1, <1>3, <1>10, <2>1 DEF Standing, At, Step, CompanySettled, PersonSettled, PersonSteps,
                                   CompanyOf, PartOf
<1>12. Claim(Merged(db, tx'[r]), PersonKey(a), id(p))
  <2>1. PICK rows : rows = Merged(db, tx'[r])
    OBVIOUS
  <2>2. PersonEmail(a, id(p)) \in rows.facts
    BY <1>10, <2>1 DEF Merged
  <2>3. Claim(rows, PersonKey(a), id(p))
    BY <1>1, <1>10, <2>2, ClaimOf
  <2>4. QED
    BY <2>1, <2>3
<1> HIDE DEF W
<1>13. QED
  BY <1>1, <1>7, <1>8, <1>10, <1>11, <1>12, WriteKeeps

\* An update of a person that only adds to the row.
LEMMA UpdateAdvances ==
    ASSUME IngestInv, NEW r \in Run, NEW p, NEW row \in PersonRow,
           p \in DOMAIN View(r).people, Widens(View(r).people[p], row),
           ~RowBusy(r, p), UpdatePerson(r, p, row)
    PROVE  /\ Advances(db, tx, mark, r, tx')
           /\ p \in DOMAIN Merged(db, tx'[r]).people /\ Merged(db, tx'[r]).people[p] = row
<1>1. /\ RowsInv(db, tx, mark) /\ tx = [q \in Run |-> tx[q]] /\ View(r) = Merged(db, tx[r])
  BY Here
<1>2. tx' = [tx EXCEPT ![r] = [facts |-> tx[r].facts, people |-> Put(tx[r].people, p, row)]]
  BY DEF UpdatePerson, Write
<1>3. \A q \in Run \ {r} : p \notin DOMAIN tx[q].people
  BY DEF RowBusy
<1>4. RowsInv(db, tx', mark) /\ Extends(Merged(db, tx[r]), Merged(db, tx'[r]))
  <2>1. PICK t : t = tx'
    OBVIOUS
  <2>2. /\ p \in DOMAIN Merged(db, tx[r]).people
        /\ Widens(Merged(db, tx[r]).people[p], row)
    BY <1>1
  <2>3. t = [tx EXCEPT ![r] = [facts |-> tx[r].facts, people |-> Put(tx[r].people, p, row)]]
    BY <1>2, <2>1
  <2>4. RowsInv(db, t, mark) /\ Extends(Merged(db, tx[r]), Merged(db, t[r]))
    BY <1>1, <1>3, <2>2, <2>3, PersonUpdate
  <2>5. QED
    BY <2>1, <2>4
<1>5. /\ tx' = [q \in Run |-> tx'[q]] /\ \A q \in Run \ {r} : tx'[q] = tx[q]
      /\ tx'[r] = [facts |-> tx[r].facts, people |-> Put(tx[r].people, p, row)]
  BY <1>1, <1>2
<1>6. p \in DOMAIN tx'[r].people /\ tx'[r].people[p] = row
  BY <1>5 DEF Put
<1>7. p \in DOMAIN Merged(db, tx'[r]).people /\ Merged(db, tx'[r]).people[p] = row
  <2>1. PICK L : L = tx'[r]
    OBVIOUS
  <2>2. QED
    BY <1>6, <2>1, MergedParts
<1>8. QED
  BY <1>4, <1>5, <1>7 DEF Advances

\* A name for a person who has none.
LEMMA BackfillDisplayNameKeeps ==
    ASSUME IngestInv, NEW r \in Run, BackfillDisplayName(r)
    PROVE  IngestInv'
<1> DEFINE u == run[r]
           p == run[r].person
           name == Part(r).name
           old == View(r).people[p]
           W(step) == [at |-> step, mail |-> u.mail, part |-> u.part,
                       company |-> u.company, person |-> p]
<1>1. /\ At(r, "name") /\ UNCHANGED <<db, mark>> /\ Standing(View(r).facts, u)
      /\ name = PartOf(u).name /\ name \in Name \cup {None}
      /\ p \in Id /\ p \in DOMAIN View(r).people
  BY Here, PartTypes, PersonStands DEF BackfillDisplayName, At
<1>2. \A step : Go(r, step) = W(step)
  BY GoTo
<1>3. /\ Standing(View(r).facts, W("seen")) /\ W("seen").at # "idle"
      /\ name # None => Standing(View(r).facts, W("alias")) /\ W("alias").at # "idle"
  BY <1>1, PersonStands DEF Standing, At, Step, CompanySettled, PersonSettled, PersonSteps,
                            CompanyOf, PartOf
<1> HIDE DEF W
<1>4. CASE name = None
  <2>1. UNCHANGED <<db, tx, mark>> /\ UNCHANGED cache /\ run' = [run EXCEPT ![r] = W("seen")]
    BY <1>1, <1>2, <1>4 DEF BackfillDisplayName, MoveTo
  <2>2. QED
    BY <1>3, <2>1, ReadKeeps
<1>5. CASE name # None /\ Lookup(cache[r], NamedMarker(p)) # None
  <2>1. UNCHANGED <<db, tx, mark>> /\ UNCHANGED cache /\ run' = [run EXCEPT ![r] = W("alias")]
    BY <1>1, <1>2, <1>5 DEF BackfillDisplayName, MoveTo
  <2>2. QED
    BY <1>3, <1>5, <2>1, ReadKeeps
<1>6. CASE name # None /\ Lookup(cache[r], NamedMarker(p)) = None
  <2>1. /\ cache' = [cache EXCEPT ![r] = Stage(cache[r], NamedMarker(p), TRUE, Depth(r))]
        /\ run' = [run EXCEPT ![r] = W("alias")]
    BY <1>2, <1>6 DEF BackfillDisplayName, MoveTo, Remember
  <2>2. IsRows(View(r)) /\ View(r) = Merged(db, tx[r])
        /\ RowsInv(db, tx, mark) /\ tx = [q \in Run |-> tx[q]]
        /\ View(r).facts = db.facts \cup tx[r].facts
    BY Here
  <2>3. old \in PersonRow
    BY <1>1, <2>2, PeopleRows
  <2>4. /\ Advances(db, tx, mark, r, tx')
        /\ p \in DOMAIN Merged(db, tx'[r]).people
        /\ Merged(db, tx'[r]).people[p].name # None
    <3>1. CASE BackfillMatches(r, p)
      <4>1. PICK row : row = [old EXCEPT !.name = name]
        OBVIOUS
      <4>2. row \in PersonRow /\ row.name # None /\ row.seen = old.seen
        BY <1>1, <1>6, <2>3, <4>1 DEF PersonRow
      <4>3. Widens(old, row)
        <5>1. Widens(old, old)
          BY <2>3, WidensReflexive
        <5>2. QED
          BY <4>2, <5>1 DEF Widens
      <4>4. ~RowBusy(r, p) /\ UpdatePerson(r, p, row)
        BY <1>6, <3>1, <4>1 DEF BackfillDisplayName
      <4>5. QED
        BY <1>1, <4>2, <4>3, <4>4, UpdateAdvances
    <3>2. CASE ~BackfillMatches(r, p)
      <4>1. tx' = tx
        BY <1>6, <3>2 DEF BackfillDisplayName
      <4>2. View(r).people[p].name # None
        BY <1>1, <3>2 DEF BackfillMatches
      <4>3. QED
        BY <1>1, <2>2, <4>1, <4>2, AdvanceNothing
    <3>3. QED
      BY <3>1, <3>2
  <2>5. Claim(Merged(db, tx'[r]), NamedMarker(p), TRUE)
    BY <1>1, <2>4, ClaimOf
  <2>6. Standing(db.facts \cup tx'[r].facts, W("alias"))
    <3>1. View(r).facts \subseteq db.facts \cup tx'[r].facts
      BY <2>2, <2>4 DEF Advances
    <3>2. QED
      BY <1>3, <1>6, <3>1, StandingGrows
  <2>7. QED
    BY <1>1, <1>3, <1>6, <2>1, <2>4, <2>5, <2>6, WriteKeeps
<1>7. QED
  BY <1>4, <1>5, <1>6

\* A widened window covers the old one and the new time.
LEMMA WidenedWindow ==
    ASSUME NEW old \in PersonRow, NEW t \in Nat
    PROVE  LET row == Widened(old, t)
           IN  /\ row \in PersonRow /\ row.seen \in Nat \X Nat /\ row.name = old.name
               /\ row.seen[1] <= t /\ t <= row.seen[2]
               /\ old.seen # None => /\ row.seen[1] <= old.seen[1]
                                     /\ old.seen[2] <= row.seen[2]
               /\ Widens(old, row)
<1> DEFINE row == Widened(old, t)
<1>0. old = [name |-> old.name, seen |-> old.seen] /\ old.name \in Name \cup {None}
      /\ old.seen \in {None} \cup (Nat \X Nat)
  BY DEF PersonRow
<1>1. CASE old.seen = None
  <2>1. row = [name |-> old.name, seen |-> <<t, t>>]
    BY <1>0, <1>1 DEF Widened
  <2>2. row.seen \in Nat \X Nat /\ row.seen[1] = t /\ row.seen[2] = t /\ row.name = old.name
    BY <2>1
  <2>3. row \in PersonRow
    BY <1>0, <2>1 DEF PersonRow
  <2> HIDE DEF row
  <2>4. QED
    BY <1>1, <2>2, <2>3 DEF Widens, row
<1>2. CASE old.seen # None
  <2>1. PICK a \in Nat, b \in Nat : old.seen = <<a, b>>
    BY <1>0, <1>2
  <2>2. row = [name |-> old.name, seen |-> <<Lesser(a, t), Greater(b, t)>>]
    BY <1>0, <1>2, <2>1 DEF Widened
  <2>3. /\ Lesser(a, t) \in Nat /\ Lesser(a, t) <= t /\ Lesser(a, t) <= a
        /\ Greater(b, t) \in Nat /\ t <= Greater(b, t) /\ b <= Greater(b, t)
    BY DEF Lesser, Greater
  <2>4. row.seen \in Nat \X Nat /\ row.seen[1] = Lesser(a, t) /\ row.seen[2] = Greater(b, t)
        /\ row.name = old.name
    BY <2>2, <2>3
  <2>5. row \in PersonRow
    BY <1>0, <2>2, <2>3 DEF PersonRow
  <2>6. old.seen[1] = a /\ old.seen[2] = b
    BY <2>1
  <2>7. row.seen # None
    BY <2>4, IngestAssumption
  <2> HIDE DEF row
  <2>8. QED
    BY <2>3, <2>4, <2>5, <2>6, <2>7 DEF Widens, row
<1>3. QED
  BY <1>0, <1>1, <1>2

\* The window that is staged is inside the row's.
LEMMA StagedWindow ==
    ASSUME IngestInv, NEW r \in Run, NEW p \in DOMAIN View(r).people, NEW t \in Nat
    PROVE  LET window == Lookup(cache[r], SeenWindow(p))
               v == IF window = None THEN <<t, t>>
                    ELSE <<Lesser(window[1], t), Greater(window[2], t)>>
               row == Widened(View(r).people[p], t)
           IN  /\ v \in Nat \X Nat /\ p \in Id
               /\ row.seen[1] <= v[1] /\ v[2] <= row.seen[2]
<1> DEFINE window == Lookup(cache[r], SeenWindow(p))
           old == View(r).people[p]
           row == Widened(old, t)
<1>1. old \in PersonRow /\ p \in Id
  BY Here, PeopleRows
<1>2. /\ row.seen \in Nat \X Nat /\ row.seen[1] <= t /\ t <= row.seen[2]
      /\ old.seen # None => row.seen[1] <= old.seen[1] /\ old.seen[2] <= row.seen[2]
  BY <1>1, WidenedWindow
<1>3. CASE window = None
  BY <1>1, <1>2, <1>3
<1>4. CASE window # None
  <2>1. Claim(View(r), SeenWindow(p), window)
    BY <1>4, Here, CacheHit
  <2>2. /\ window \in Nat \X Nat /\ old.seen # None
        /\ old.seen[1] <= window[1] /\ window[2] <= old.seen[2]
    BY <2>1, ClaimOf
  <2>3. old.seen \in Nat \X Nat
    BY <1>1, <2>2 DEF PersonRow
  <2>4. PICK a \in Nat, b \in Nat : window = <<a, b>> /\ a = window[1] /\ b = window[2]
    BY <2>2
  <2>5. PICK e \in Nat, f \in Nat : e = old.seen[1] /\ f = old.seen[2]
    BY <2>3
  <2>6. PICK x \in Nat, y \in Nat : x = row.seen[1] /\ y = row.seen[2]
    BY <1>2
  <2>7. x <= t /\ t <= y /\ x <= e /\ f <= y /\ e <= a /\ b <= f
    BY <1>2, <2>2, <2>4, <2>5, <2>6
  <2>8. /\ Lesser(a, t) \in Nat /\ Greater(b, t) \in Nat
        /\ x <= Lesser(a, t) /\ Greater(b, t) <= y
    BY <2>7 DEF Lesser, Greater
  <2>9. PICK v : v = <<Lesser(window[1], t), Greater(window[2], t)>>
    OBVIOUS
  <2>10. v \in Nat \X Nat /\ row.seen[1] <= v[1] /\ v[2] <= row.seen[2]
    BY <2>4, <2>6, <2>8, <2>9
  <2>11. QED
    BY <1>1, <1>4, <2>9, <2>10
<1>5. QED
  BY <1>3, <1>4

\* The window of the person is widened, unless the cache says it covers the mail.
LEMMA ExtendSeenWindowKeeps ==
    ASSUME IngestInv, NEW r \in Run, ExtendSeenWindow(r)
    PROVE  IngestInv'
<1> DEFINE u == run[r]
           p == run[r].person
           t == SeenAt[run[r].mail]
           row == Widened(View(r).people[p], t)
           window == Lookup(cache[r], SeenWindow(p))
           v == IF window = None THEN <<t, t>>
                ELSE <<Lesser(window[1], t), Greater(window[2], t)>>
           w == [at |-> "link", mail |-> u.mail, part |-> u.part,
                 company |-> u.company, person |-> p]
<1>1. /\ At(r, "seen") /\ UNCHANGED <<db, mark>> /\ Standing(View(r).facts, u)
      /\ p \in Id /\ p \in DOMAIN View(r).people /\ u.mail \in Mail
  BY Here, PartTypes, PersonStands DEF ExtendSeenWindow, At
<1>2. t # None => t \in Nat
  BY <1>1, IngestAssumption
<1>3. run' = [run EXCEPT ![r] = w]
  BY GoTo DEF ExtendSeenWindow, MoveTo
<1>4. Standing(View(r).facts, w) /\ w.at # "idle"
  BY <1>1, PersonStands DEF Standing, At, Step, CompanySettled, PersonSettled, PersonSteps,
                            CompanyOf, PartOf
<1> HIDE DEF w
<1>5. CASE t = None \/ SeenWindowCovers(cache[r], p, t)
  <2>1. UNCHANGED <<db, tx, mark>> /\ UNCHANGED cache
    BY <1>1, <1>5 DEF ExtendSeenWindow
  <2>2. QED
    BY <1>3, <1>4, <2>1, ReadKeeps
<1>6. CASE ~(t = None \/ SeenWindowCovers(cache[r], p, t))
  <2>1. ~RowBusy(r, p) /\ UpdatePerson(r, p, row)
    BY <1>1, <1>6 DEF ExtendSeenWindow
  <2>2. cache' = [cache EXCEPT ![r] = Stage(cache[r], SeenWindow(p), v, Depth(r))]
    BY <1>6 DEF ExtendSeenWindow, Remember, StageSeenWindow
  <2>3. View(r).people[p] \in PersonRow /\ View(r).facts = db.facts \cup tx[r].facts
    BY <1>1, Here, PeopleRows
  <2>4. row \in PersonRow /\ row.seen \in Nat \X Nat /\ Widens(View(r).people[p], row)
    BY <1>2, <1>6, <2>3, WidenedWindow
  <2>5. v \in Nat \X Nat /\ row.seen[1] <= v[1] /\ v[2] <= row.seen[2]
    BY <1>1, <1>2, <1>6, StagedWindow
  <2> HIDE DEF row, v
  <2>6. /\ Advances(db, tx, mark, r, tx')
        /\ p \in DOMAIN Merged(db, tx'[r]).people /\ Merged(db, tx'[r]).people[p] = row
    BY <1>1, <2>1, <2>4, UpdateAdvances
  <2>7. row.seen # None
    BY <2>4, IngestAssumption
  <2>8. Claim(Merged(db, tx'[r]), SeenWindow(p), v)
    BY <1>1, <2>5, <2>6, <2>7, ClaimOf
  <2>9. Standing(db.facts \cup tx'[r].facts, w)
    <3>1. View(r).facts \subseteq db.facts \cup tx'[r].facts
      BY <2>3, <2>6 DEF Advances
    <3>2. QED
      BY <1>4, <3>1, StandingGrows
  <2>10. QED
    BY <1>1, <1>3, <1>4, <2>2, <2>6, <2>8, <2>9, WriteKeeps
<1>7. QED
  BY <1>5, <1>6

\* After a part comes the next one, and after the last the end of the mail.
LEMMA NextPartStands ==
    ASSUME IngestInv, NEW r \in Run, At(r, "store")
    PROVE  /\ \A F : Standing(F, NextPart(r))
           /\ NextPart(r).at \in {"finish", "company"} /\ NextPart(r).mail = run[r].mail
           /\ run[r].part \in Nat
           /\ IF run[r].part = Len(Participants[run[r].mail])
              THEN NextPart(r).at = "finish"
              ELSE NextPart(r).at = "company" /\ NextPart(r).part = run[r].part + 1
<1> DEFINE u == run[r]
           W(step, i) == [at |-> step, mail |-> u.mail, part |-> i,
                          company |-> u.company, person |-> u.person]
<1>1. /\ u.mail \in Mail /\ u.part \in DOMAIN Participants[u.mail]
      /\ u.company \in Id \cup {None} /\ u.person \in Id \cup {None}
  BY Here, PartTypes DEF At, Standing
<1>2. PICK n \in Nat : DOMAIN Participants[u.mail] = 1..n /\ Len(Participants[u.mail]) = n
  <2>1. PICK S : S = [kind : STRING, address : Address, name : Name \cup {None}]
    OBVIOUS
  <2>2. PICK s \in Seq(S) : s = Participants[u.mail]
    BY <1>1, <2>1, IngestAssumption
  <2>3. DOMAIN s = 1..Len(s) /\ Len(s) \in Nat
    OBVIOUS
  <2>4. QED
    BY <2>2, <2>3
<1>3. NextPart(r) = IF u.part = n THEN W("finish", u.part) ELSE W("company", u.part + 1)
  <2>1. Go(r, "finish") = W("finish", u.part) /\ Go(r, "company") = W("company", u.part)
    BY GoTo
  <2>2. [W("company", u.part) EXCEPT !.part = u.part + 1] = W("company", u.part + 1)
    OBVIOUS
  <2> HIDE DEF W
  <2>3. QED
    BY <1>2, <2>1, <2>2 DEF NextPart
<1>4. CASE u.part = n
  <2>1. \A F : Standing(F, W("finish", u.part))
    BY <1>1 DEF Standing, Step, CompanySettled, PersonSettled, PersonSteps
  <2>2. QED
    BY <1>1, <1>2, <1>3, <1>4, <2>1
<1>5. CASE u.part # n
  <2>1. u.part + 1 \in DOMAIN Participants[u.mail]
    BY <1>1, <1>2, <1>5
  <2>2. \A F : Standing(F, W("company", u.part + 1))
    BY <1>1, <2>1 DEF Standing, Step, CompanySettled, PersonSettled, PersonSteps
  <2>3. QED
    BY <1>1, <1>2, <1>3, <1>5, <2>2
<1>6. QED
  BY <1>4, <1>5

\* The grants of a mail, new or re-derived, and its attachments are plain rows.
LEMMA PlainMailFacts ==
    ASSUME NEW m \in Mail, NEW G \in SUBSET EmailGrants(m), NEW X \in SUBSET Attachments[m]
    PROVE  PlainFacts({EmailAttachment(m, x) : x \in X} \cup G)
<1>1. ASSUME NEW x \in X
      PROVE  IsFact(EmailAttachment(m, x)) /\ EmailAttachment(m, x)[1] = "attachment"
  BY <1>1 DEF IsFact, EmailAttachment
<1>2. ASSUME NEW g \in G PROVE IsFact(g) /\ g[1] = "grant"
  BY <1>2, GrantFacts DEF IsFact
<1>3. QED
  BY <1>1, <1>2 DEF PlainFacts, PlainKinds

\* What ReconcileGrants writes.
LEMMA ReconcileFacts ==
    ASSUME NEW r \in Run, NEW m \in Mail
    PROVE  \E G \in SUBSET EmailGrants(m) : ReconcileGrants(r, m) = With(r, G) /\ PlainFacts(G)
<1> DEFINE live == {f \in View(r).facts : f[1] = "grant" /\ f[2] = m}
           held == {f[3] : f \in live}
           G == {g \in EmailGrants(m) : g[3] \notin held}
<1>1. ReconcileGrants(r, m) = With(r, G)
  BY DEF ReconcileGrants
<1>2. G \in SUBSET EmailGrants(m)
  OBVIOUS
<1> HIDE DEF G
<1>3. PlainFacts(G)
  BY <1>2, GrantFacts DEF PlainFacts, PlainKinds, IsFact
<1>4. QED
  BY <1>1, <1>2, <1>3

\* A mail that is stored already, or gets its savepoint.
LEMMA BeginMailKeeps ==
    ASSUME IngestInv, NEW r \in Run, NEW m \in Mail, BeginMail(r, m)
    PROVE  IngestInv'
<1>1. CASE GetMessageIdByDedup(r, m)
  <2>1. MailDone(r, ReconcileGrants(r, m), cache[r])
    BY <1>1 DEF BeginMail
  <2>2. QED
    BY <2>1, ReconcileFacts, MailDoneKeeps
<1>2. CASE ~GetMessageIdByDedup(r, m)
  <2>1. PICK w : w = [Idle EXCEPT !.at = "company", !.mail = m]
    OBVIOUS
  <2>2. w = [at |-> "company", mail |-> m, part |-> 1, company |-> None, person |-> None]
    BY <2>1 DEF Idle
  <2>3. 1 \in DOMAIN Participants[m]
    <3>1. PICK S : S = [kind : STRING, address : Address, name : Name \cup {None}]
      OBVIOUS
    <3>2. PICK s \in Seq(S) : s = Participants[m]
      BY <3>1, IngestAssumption
    <3>3. s # <<>>
      BY <3>2, IngestAssumption
    <3>4. 1 \in DOMAIN s
      BY <3>3
    <3>5. QED
      BY <3>2, <3>4
  <2>4. Standing(db.facts \cup tx[r].facts, w) /\ w.at # "idle"
    BY <2>2, <2>3 DEF Standing, Step, CompanySettled, PersonSettled, PersonSteps
  <2>5. /\ run' = [run EXCEPT ![r] = w] /\ mark' = [mark EXCEPT ![r] = tx[r]]
        /\ UNCHANGED <<db, tx, cache>>
    BY <1>2, <2>1 DEF BeginMail, MoveTo
  <2>6. IngestInvOf(db, tx, mark', run', cache)
    BY <2>4, <2>5, OpenKeeps DEF IngestInv
  <2>7. QED
    BY <2>5, <2>6 DEF IngestInv
<1>3. QED
  BY <1>1, <1>2

\* The row of the mail, or the end of a mail another session has stored.
LEMMA InsertMessageKeeps ==
    ASSUME IngestInv, NEW r \in Run, InsertMessage(r)
    PROVE  IngestInv'
<1> DEFINE m == run[r].mail
           x == run[r].person
           w == NextPart(r)
<1>1. /\ m \in Mail /\ x \in Id \cup {None}
      /\ RowsInv(db, tx, mark) /\ tx = [q \in Run |-> tx[q]]
      /\ At(r, "store") /\ ~KeyBusy(r, EmailMessage(m, x))
  BY Here, PartTypes DEF InsertMessage, At, Standing
<1>2. CASE Violates(r, EmailMessage(m, x))
  <2>1. MailDone(r, ReconcileGrants(r, m), AfterSavepoint(r, TRUE))
    BY <1>2 DEF InsertMessage
  <2>2. MailDone(r, ReconcileGrants(r, m), cache[r])
    BY <2>1, CacheAfterSavepoint
  <2>3. QED
    BY <1>1, <2>2, ReconcileFacts, MailDoneKeeps
<1>3. CASE ~Violates(r, EmailMessage(m, x))
  <2>1. /\ tx' = [tx EXCEPT ![r] = [facts |-> tx[r].facts \cup {EmailMessage(m, x)},
                                    people |-> tx[r].people]]
        /\ cache' = [cache EXCEPT ![r] = AfterSavepoint(r, FALSE)]
        /\ run' = [run EXCEPT ![r] = w] /\ UNCHANGED <<db, mark>>
    BY <1>3 DEF InsertMessage, Write, With, Remember, MoveTo
  <2>2. UNCHANGED cache
    <3>1. cache = [q \in Run |-> cache[q]]
      BY DEF IngestInv, IngestInvOf
    <3>2. QED
      BY <2>1, <3>1, CacheAfterSavepoint
  <2>3. \A y : ~Known(db, tx, EmailMessage(m, y))
    BY <1>1, <1>3, FreeMessage
  <2>4. PICK t : t = tx'
    OBVIOUS
  <2>5. RowsInv(db, t, mark)
    BY <1>1, <2>1, <2>3, <2>4, MessageInsert
  <2>6. Advances(db, tx, mark, r, t)
    BY <1>1, <2>1, <2>4, <2>5, AdvanceFacts
  <2>7. Standing(db.facts \cup tx'[r].facts, w) /\ w.at # "idle"
    BY <1>1, NextPartStands
  <2> HIDE DEF w
  <2>8. QED
    BY <2>1, <2>2, <2>4, <2>6, <2>7, WriteKeeps
<1>4. QED
  BY <1>2, <1>3

\* The row of a recipient.
LEMMA AddRecipientKeeps ==
    ASSUME IngestInv, NEW r \in Run, AddRecipient(r)
    PROVE  IngestInv'
<1> DEFINE f == EmailRecipient(run[r].mail, run[r].part, run[r].person)
           w == NextPart(r)
<1>1. /\ run[r].mail \in Mail /\ run[r].part \in DOMAIN Participants[run[r].mail]
      /\ run[r].person \in Id \cup {None}
      /\ RowsInv(db, tx, mark) /\ tx = [q \in Run |-> tx[q]] /\ At(r, "store")
  BY Here, PartTypes DEF AddRecipient, At, Standing
<1>2. /\ tx' = [tx EXCEPT ![r] = [facts |-> tx[r].facts \cup {f}, people |-> tx[r].people]]
      /\ run' = [run EXCEPT ![r] = w] /\ UNCHANGED <<db, mark>> /\ UNCHANGED cache
  BY DEF AddRecipient, Write, With, MoveTo
<1>3. PlainFacts({f})
  BY <1>1 DEF PlainFacts, PlainKinds, IsFact, EmailRecipient
<1>4. PICK t : t = tx'
  OBVIOUS
<1>5. RowsInv(db, t, mark)
  BY <1>1, <1>2, <1>3, <1>4, PlainInsert
<1>6. Advances(db, tx, mark, r, t)
  BY <1>1, <1>2, <1>4, <1>5, AdvanceFacts
<1>7. Standing(db.facts \cup tx'[r].facts, w) /\ w.at # "idle"
  BY <1>1, NextPartStands
<1> HIDE DEF w
<1>8. QED
  BY <1>2, <1>4, <1>6, <1>7, WriteKeeps

\* The last rows of a mail.
LEMMA FinishKeeps ==
    ASSUME IngestInv, NEW r \in Run, Finish(r)
    PROVE  IngestInv'
<1> DEFINE m == run[r].mail
           F == {EmailAttachment(m, x) : x \in Attachments[m]} \cup EmailGrants(m)
<1>1. m \in Mail /\ MailDone(r, With(r, F), cache[r])
  BY PartTypes DEF Finish, At
<1>2. PlainFacts(F)
  BY <1>1, PlainMailFacts
<1>3. QED
  BY <1>1, <1>2, MailDoneKeeps

\* A mail that fails, with the rollback to its savepoint or of the transaction.
LEMMA FailMailKeeps ==
    ASSUME IngestInv, NEW r \in Run, FailMail(r)
    PROVE  IngestInv'
<1>1. PICK L \in {mark[r], NoRows} : tx' = [tx EXCEPT ![r] = L]
  BY DEF FailMail, Write
<1>2. PICK s \in {DiscardStaged(cache[r], Depth(r)), EmptyCache} :
            cache' = [cache EXCEPT ![r] = s]
  BY DEF FailMail, Remember
<1>3. /\ run' = [run EXCEPT ![r] = Idle] /\ mark' = [mark EXCEPT ![r] = NoRows]
      /\ UNCHANGED db
  BY DEF FailMail, MoveTo
<1>4. IngestInvOf(db, tx', mark', run', cache')
  BY <1>1, <1>2, <1>3, UnwindKeeps DEF IngestInv
<1>5. QED
  BY <1>3, <1>4 DEF IngestInv

\* A lost claim or a dead process.
LEMMA AbandonKeeps ==
    ASSUME IngestInv, NEW r \in Run, Abandon(r)
    PROVE  IngestInv'
<1>1. PICK L \in {mark[r], NoRows} : tx' = [tx EXCEPT ![r] = L]
  BY DEF Abandon, Write
<1>2. PICK s \in {DiscardStaged(cache[r], Depth(r)), EmptyCache} :
            cache' = [cache EXCEPT ![r] = s]
  BY DEF Abandon, Remember
<1>3. /\ run' = [run EXCEPT ![r] = Idle] /\ mark' = [mark EXCEPT ![r] = NoRows]
      /\ UNCHANGED db
  BY DEF Abandon, MoveTo
<1>4. IngestInvOf(db, tx', mark', run', cache')
  BY <1>1, <1>2, <1>3, UnwindKeeps DEF IngestInv
<1>5. QED
  BY <1>3, <1>4 DEF IngestInv

\* The commit of a batch.
LEMMA CommitBatchKeeps ==
    ASSUME IngestInv, NEW r \in Run, CommitBatch(r)
    PROVE  IngestInv'
<1>1. run[r].at = "idle" /\ run[r] = Idle
  BY Here DEF CommitBatch, At, Standing
<1>2. /\ mark[r] = NoRows
      /\ mark = [q \in Run |-> mark[q]] /\ run = [q \in Run |-> run[q]]
  BY <1>1 DEF IngestInv, IngestInvOf
<1>3. /\ run' = [run EXCEPT ![r] = Idle] /\ mark' = [mark EXCEPT ![r] = NoRows]
  BY <1>1, <1>2 DEF CommitBatch
<1>4. /\ db' = Merged(db, tx[r]) /\ tx' = [tx EXCEPT ![r] = NoRows]
      /\ cache' = [cache EXCEPT ![r] = Promoted(cache[r])]
  BY DEF CommitBatch, CommitRows, Write, Remember, PromoteStaged
<1>5. IngestInvOf(Merged(db, tx[r]), tx', mark', run', cache')
  BY <1>3, <1>4, CommitKeeps DEF IngestInv
<1>6. QED
  BY <1>4, <1>5 DEF IngestInv

\* Init: nothing is stored, no session has begun.
LEMMA InitIngest == Init => IngestInv
<1> SUFFICES ASSUME Init PROVE IngestInv
  OBVIOUS
<1>1. /\ db = NoRows
      /\ tx = [r \in Run |-> NoRows] /\ mark = [r \in Run |-> NoRows]
      /\ run = [r \in Run |-> Idle] /\ cache = [r \in Run |-> EmptyCache]
  BY DEF Init
<1>2. IsRows(NoRows) /\ NoRows.facts = {} /\ DOMAIN NoRows.people = {}
  BY EmptyRows
<1>3. \A f : ~Known(db, tx, f)
  BY <1>1, <1>2 DEF Known
<1>4. KeysUnique(db, tx)
  BY <1>3 DEF KeysUnique
<1>5. Layer(NoRows, NoRows)
  BY <1>2 DEF Layer
<1>6. RowsInv(db, tx, mark)
  BY <1>1, <1>2, <1>4, <1>5 DEF RowsInv
<1>7. CachesInv(db, tx, cache)
  <2>1. EmptyCache = [staged |-> <<>>, confirmed |-> <<>>] /\ DOMAIN << >> = {}
    BY DEF EmptyCache
  <2>2. << >> = [x \in {} |-> << >>[x]]
    OBVIOUS
  <2>3. IsCache(EmptyCache) /\ DOMAIN EmptyCache.staged = {} /\ DOMAIN EmptyCache.confirmed = {}
    BY <2>1, <2>2 DEF IsCache
  <2>4. QED
    BY <1>1, <2>3 DEF CachesInv
<1>8. StandingInv(db, tx, run)
  BY <1>1, IdleStands DEF StandingInv
<1>9. QED
  BY <1>1, <1>6, <1>7, <1>8 DEF IngestInv, IngestInvOf

\* Every statement, failure and commit keeps the invariant.
LEMMA NextIngest == IngestInv /\ [Next]_vars => IngestInv'
<1> SUFFICES ASSUME IngestInv, [Next]_vars PROVE IngestInv'
  OBVIOUS
<1>1. CASE UNCHANGED vars
  BY <1>1 DEF vars, IngestInv
<1>2. CASE Next
  <2>1. PICK r \in Run :
            \/ \E m \in Mail : BeginMail(r, m)
            \/ LookupCompany(r) \/ InsertCompany(r) \/ RecordObservedHost(r)
            \/ LookupPerson(r) \/ InsertPerson(r)
            \/ BackfillDisplayName(r) \/ AddAlias(r) \/ ExtendSeenWindow(r)
            \/ LinkPersonCompany(r)
            \/ InsertMessage(r) \/ AddRecipient(r) \/ Finish(r)
            \/ FailMail(r) \/ CommitBatch(r) \/ Abandon(r)
    BY <1>2 DEF Next
  <2>2. CASE \E m \in Mail : BeginMail(r, m)
    BY <2>2, BeginMailKeeps
  <2>3. CASE LookupCompany(r) \/ InsertCompany(r) \/ RecordObservedHost(r)
    BY <2>3, LookupCompanyKeeps, InsertCompanyKeeps, RecordObservedHostKeeps
  <2>4. CASE LookupPerson(r) \/ InsertPerson(r)
    BY <2>4, LookupPersonKeeps, InsertPersonKeeps
  <2>5. CASE BackfillDisplayName(r) \/ AddAlias(r) \/ ExtendSeenWindow(r) \/ LinkPersonCompany(r)
    BY <2>5, BackfillDisplayNameKeeps, AddAliasKeeps, ExtendSeenWindowKeeps,
       LinkPersonCompanyKeeps
  <2>6. CASE InsertMessage(r) \/ AddRecipient(r) \/ Finish(r)
    BY <2>6, InsertMessageKeeps, AddRecipientKeeps, FinishKeeps
  <2>7. CASE FailMail(r) \/ CommitBatch(r) \/ Abandon(r)
    BY <2>7, FailMailKeeps, CommitBatchKeeps, AbandonKeeps
  <2>8. QED
    BY <2>1, <2>2, <2>3, <2>4, <2>5, <2>6, <2>7
<1>3. QED
  BY <1>1, <1>2

-----------------------------------------------------------------------------
(* What follows for every ingest.                                           *)

\* The invariant of rows, caches and sessions holds however the statements,
\* failures and commits of the sessions interleave.
THEOREM IngestInvariant == Spec => []IngestInv
<1>1. Init => IngestInv
  BY InitIngest
<1>2. IngestInv /\ [Next]_vars => IngestInv'
  BY NextIngest
<1>3. QED
  BY <1>1, <1>2, PTL DEF Spec

\* Type correctness of the rows and of the sessions' local variables.
THEOREM IngestTypes == Spec => []TypeOK
<1>1. IngestInv => TypeOK
  <2> SUFFICES ASSUME IngestInv PROVE TypeOK
    OBVIOUS
  <2>1. ASSUME NEW rows \in {db} \cup {tx[r] : r \in Run} \cup {mark[r] : r \in Run}
        PROVE  /\ DOMAIN rows.people \subseteq Id
               /\ \A p \in DOMAIN rows.people : rows.people[p] \in PersonRow
    <3>1. RowsInv(db, tx, mark)
      BY DEF IngestInv, IngestInvOf
    <3>2. IsRows(rows)
      BY <2>1, <3>1 DEF RowsInv
    <3>3. QED
      BY <3>2, PeopleRows
  <2>2. ASSUME NEW r \in Run
        PROVE  /\ run[r].at \in Step
               /\ run[r].mail \in Mail \cup {None}
               /\ run[r].company \in Id \cup {None}
               /\ run[r].person \in Id \cup {None}
    BY Here DEF Standing
  <2>3. QED
    BY <2>1, <2>2 DEF TypeOK
<1>2. QED
  BY <1>1, IngestInvariant, PTL

\* A claim is what Holds says, where a match key has one row.
LEMMA ClaimHolds ==
    ASSUME NEW rows, \A f \in rows.facts : IsFact(f), NEW k, NEW v, Claim(rows, k, v),
           \A a, p, q : PersonEmail(a, p) \in rows.facts /\ PersonEmail(a, q) \in rows.facts
                            => p = q,
           \A h, b, c : CompanyDomain(h, b) \in rows.facts /\ CompanyDomain(h, c) \in rows.facts
                            => b = c
    PROVE  Holds(rows, k, v)
<1>1. CASE k[1] = "email"
  <2>1. PersonEmail(k[2], v) \in rows.facts
    BY <1>1 DEF Claim
  <2>2. Find(rows, "email", k[2]) = v
    BY <2>1, FindEmail
  <2>3. QED
    BY <1>1, <2>2 DEF Holds
<1>2. CASE k[1] = "domain"
  <2>1. CompanyDomain(k[2], v) \in rows.facts
    BY <1>2 DEF Claim
  <2>2. Find(rows, "domain", k[2]) = v
    BY <2>1, FindDomain
  <2>3. QED
    BY <1>2, <2>2 DEF Holds
<1>3. CASE k[1] \notin {"email", "domain"}
  BY <1>3 DEF Claim
<1>4. QED
  BY <1>1, <1>2, <1>3

\* CacheIsTrue, for every set of sessions, mails and hosts: a confirmed entry is
\* true of the committed rows and a staged one of what its session sees.
THEOREM CachesTellTheTruth == Spec => []CacheIsTrue
<1>1. IngestInv => CacheIsTrue
  <2> SUFFICES ASSUME IngestInv, NEW r \in Run
               PROVE  /\ \A k \in DOMAIN cache[r].confirmed :
                            Holds(db, k, cache[r].confirmed[k])
                      /\ \A k \in DOMAIN cache[r].staged :
                            Holds(View(r), k, cache[r].staged[k].value)
    BY DEF CacheIsTrue
  <2>1. /\ RowsInv(db, tx, mark) /\ CachesInv(db, tx, cache) /\ IsRows(db) /\ IsRows(View(r))
        /\ View(r) = Merged(db, tx[r]) /\ View(r).facts = db.facts \cup tx[r].facts
    BY Here
  <2>2. \A a, p, q : PersonEmail(a, p) \in View(r).facts /\ PersonEmail(a, q) \in View(r).facts
                        => p = q
    BY <2>1 DEF RowsInv, KeysUnique, Known
  <2>3. \A h, b, c : CompanyDomain(h, b) \in View(r).facts
                     /\ CompanyDomain(h, c) \in View(r).facts => b = c
    BY <2>1 DEF RowsInv, KeysUnique, Known
  <2>4. db.facts \subseteq View(r).facts
    BY <2>1
  <2>5. ASSUME NEW k \in DOMAIN cache[r].confirmed
        PROVE  Holds(db, k, cache[r].confirmed[k])
    <3>1. Claim(db, k, cache[r].confirmed[k])
      BY <2>1 DEF CachesInv
    <3>2. \A f \in db.facts : IsFact(f)
      BY <2>1 DEF IsRows
    <3>3. QED
      BY <2>2, <2>3, <2>4, <3>1, <3>2, ClaimHolds
  <2>6. ASSUME NEW k \in DOMAIN cache[r].staged
        PROVE  Holds(View(r), k, cache[r].staged[k].value)
    <3>1. Claim(View(r), k, cache[r].staged[k].value)
      BY <2>1 DEF CachesInv
    <3>2. \A f \in View(r).facts : IsFact(f)
      BY <2>1 DEF IsRows
    <3>3. QED
      BY <2>2, <2>3, <3>1, <3>2, ClaimHolds
  <2>7. QED
    BY <2>5, <2>6
<1>2. QED
  BY <1>1, IngestInvariant, PTL

-----------------------------------------------------------------------------
(* A stored mail is whole.                                                  *)

HasMessage(X, m) == \E x \in Id \cup {None} : EmailMessage(m, x) \in X

\* The person of the i-th part of a mail, as the rows F know it.
PersonFor(F, m, i, x) ==
    IF BecomesPerson(m, Participants[m][i])
    THEN PersonEmail(Participants[m][i].address, x) \in F ELSE x = None

\* X holds the first n parts of the mail and no other: its row, then a row for
\* each recipient.
StoredUpTo(F, X, m, n) ==
    /\ HasMessage(X, m) <=> n >= 1
    /\ \A x \in Id \cup {None} : EmailMessage(m, x) \in X => PersonFor(F, m, 1, x)
    /\ \A i \in DOMAIN Participants[m], x \in Id \cup {None} :
            EmailRecipient(m, i, x) \in X => 2 <= i /\ i <= n /\ PersonFor(F, m, i, x)
    /\ \A i \in 2..n : \E x \in Id \cup {None} : EmailRecipient(m, i, x) \in X

Ended(X, m) ==
    /\ \A x \in Attachments[m] : EmailAttachment(m, x) \in X
    /\ EmailGrants(m) \subseteq X
NotEnded(X, m) ==
    /\ \A x \in Attachments[m] : EmailAttachment(m, x) \notin X
    /\ \A g \in EmailGrants(m) : g \notin X

Complete(F, X, m) == StoredUpTo(F, X, m, Len(Participants[m])) /\ Ended(X, m)
InProgress(F, X, m, n) == StoredUpTo(F, X, m, n) /\ NotEnded(X, m)
Settled(F, X, m) == Complete(F, X, m) \/ InProgress(F, X, m, 0)

\* How many parts of its mail a session has stored.
Progress(u) == IF u.at = "finish" THEN u.part ELSE u.part - 1

\* The rows L of a session that stands at u, over the committed rows d.
Mails(d, L, u) ==
    \A m \in Mail :
        IF u.at # "idle" /\ u.mail = m
        THEN InProgress(d.facts \cup L.facts, L.facts, m, Progress(u))
        ELSE Settled(d.facts \cup L.facts, L.facts, m)

MailsInvOf(d, t, k, u) ==
    /\ \A m \in Mail : Settled(d.facts, d.facts, m)
    /\ \A r \in Run : /\ Mails(d, t[r], u[r])
                      /\ Mails(d, k[r], Idle)
                      /\ u[r].at = "finish" => u[r].part = Len(Participants[u[r].mail])

MailsInv == IngestInv /\ MailsInvOf(db, tx, mark, run)

MailKinds == {"message", "recipient", "attachment", "grant"}

\* The parts of a mail are numbered from 1.
LEMMA PartNumbers ==
    ASSUME NEW m \in Mail
    PROVE  /\ Len(Participants[m]) \in Nat \ {0}
           /\ DOMAIN Participants[m] = 1..Len(Participants[m])
<1>1. PICK S : S = [kind : STRING, address : Address, name : Name \cup {None}]
  OBVIOUS
<1>2. PICK s \in Seq(S) : s = Participants[m]
  BY <1>1, IngestAssumption
<1>3. s # <<>>
  BY <1>2, IngestAssumption
<1>4. DOMAIN s = 1..Len(s) /\ Len(s) \in Nat \ {0}
  BY <1>3
<1>5. QED
  BY <1>2, <1>4

\* What is stored of a mail stays so when more persons are known.
LEMMA SettledGrows ==
    ASSUME NEW F, NEW G, F \subseteq G, NEW X, NEW m, NEW n
    PROVE  /\ StoredUpTo(F, X, m, n) => StoredUpTo(G, X, m, n)
           /\ InProgress(F, X, m, n) => InProgress(G, X, m, n)
           /\ Settled(F, X, m) => Settled(G, X, m)
<1>1. \A i, x : PersonFor(F, m, i, x) => PersonFor(G, m, i, x)
  BY DEF PersonFor
<1>2. ASSUME NEW j, StoredUpTo(F, X, m, j) PROVE StoredUpTo(G, X, m, j)
  BY <1>1, <1>2 DEF StoredUpTo
<1>3. QED
  BY <1>2 DEF InProgress, Settled, Complete

\* Two sets of rows with the same rows of the mail.
SameMail(X, Y, m) == \A f : f[1] \in MailKinds /\ f[2] = m => (f \in X <=> f \in Y)

\* Whether a mail is settled or in progress depends on the rows of that mail alone.
LEMMA SameMailSettled ==
    ASSUME NEW F, NEW X, NEW Y, NEW m, SameMail(X, Y, m), NEW n
    PROVE  /\ InProgress(F, X, m, n) => InProgress(F, Y, m, n)
           /\ Settled(F, X, m) => Settled(F, Y, m)
<1>1. \A x : EmailMessage(m, x) \in X <=> EmailMessage(m, x) \in Y
  BY DEF SameMail, MailKinds, EmailMessage
<1>2. \A i, x : EmailRecipient(m, i, x) \in X <=> EmailRecipient(m, i, x) \in Y
  BY DEF SameMail, MailKinds, EmailRecipient
<1>3. \A x : EmailAttachment(m, x) \in X <=> EmailAttachment(m, x) \in Y
  BY DEF SameMail, MailKinds, EmailAttachment
<1>4. \A g \in EmailGrants(m) : g \in X <=> g \in Y
  BY GrantFacts DEF SameMail, MailKinds
<1>5. ASSUME NEW j, StoredUpTo(F, X, m, j) PROVE StoredUpTo(F, Y, m, j)
  BY <1>1, <1>2, <1>5 DEF StoredUpTo, HasMessage
<1>6. (Ended(X, m) => Ended(Y, m)) /\ (NotEnded(X, m) => NotEnded(Y, m))
  BY <1>3, <1>4 DEF Ended, NotEnded
<1>7. QED
  BY <1>5, <1>6 DEF InProgress, Settled, Complete

\* What two transactions have stored of a mail, together.
LEMMA SettledUnion ==
    ASSUME NEW F, NEW X, NEW Y, NEW m \in Mail, Settled(F, X, m), Settled(F, Y, m)
    PROVE  Settled(F, X \cup Y, m)
<1>1. PICK n \in Nat \ {0} : n = Len(Participants[m]) /\ DOMAIN Participants[m] = 1..n
  BY PartNumbers
<1>2. HasMessage(X \cup Y, m) <=> HasMessage(X, m) \/ HasMessage(Y, m)
  BY DEF HasMessage
<1>3. CASE Complete(F, X, m) \/ Complete(F, Y, m)
  <2>1. StoredUpTo(F, X \cup Y, m, n)
    <3>1. HasMessage(X \cup Y, m)
      <4>1. n >= 1
        BY <1>1
      <4>2. HasMessage(X, m) \/ HasMessage(Y, m)
        BY <1>1, <1>3, <4>1 DEF Complete, StoredUpTo
      <4>3. QED
        BY <1>2, <4>2
    <3>2. \A x \in Id \cup {None} : EmailMessage(m, x) \in X \cup Y => PersonFor(F, m, 1, x)
      BY DEF Settled, Complete, InProgress, StoredUpTo
    <3>3. \A i \in DOMAIN Participants[m], x \in Id \cup {None} :
            EmailRecipient(m, i, x) \in X \cup Y => 2 <= i /\ i <= n /\ PersonFor(F, m, i, x)
      BY <1>1 DEF Settled, Complete, InProgress, StoredUpTo
    <3>4. \A i \in 2..n : \E x \in Id \cup {None} : EmailRecipient(m, i, x) \in X \cup Y
      BY <1>1, <1>3 DEF Complete, StoredUpTo
    <3>5. QED
      BY <1>1, <3>1, <3>2, <3>3, <3>4 DEF StoredUpTo
  <2>2. Ended(X \cup Y, m)
    BY <1>3 DEF Complete, Ended
  <2>3. QED
    BY <1>1, <2>1, <2>2 DEF Settled, Complete
<1>4. CASE InProgress(F, X, m, 0) /\ InProgress(F, Y, m, 0)
  <2>1. StoredUpTo(F, X \cup Y, m, 0)
    <3>1. ~HasMessage(X \cup Y, m)
      BY <1>2, <1>4 DEF InProgress, StoredUpTo
    <3>2. \A x \in Id \cup {None} : EmailMessage(m, x) \notin X \cup Y
      BY <3>1 DEF HasMessage
    <3>3. \A i \in DOMAIN Participants[m], x \in Id \cup {None} :
            EmailRecipient(m, i, x) \in X \cup Y => 2 <= i /\ i <= 0 /\ PersonFor(F, m, i, x)
      BY <1>4 DEF InProgress, StoredUpTo
    <3>4. QED
      BY <3>1, <3>2, <3>3 DEF StoredUpTo
  <2>2. NotEnded(X \cup Y, m)
    BY <1>4 DEF InProgress, NotEnded
  <2>3. QED
    BY <2>1, <2>2 DEF Settled, InProgress
<1>5. QED
  BY <1>3, <1>4 DEF Settled

\* The rows of a transaction, when more is committed under them.
LEMMA MailsGrow ==
    ASSUME NEW d, NEW e, d.facts \subseteq e.facts, NEW L, NEW u, Mails(d, L, u)
    PROVE  Mails(e, L, u)
<1>1. d.facts \cup L.facts \subseteq e.facts \cup L.facts
  OBVIOUS
<1>2. ASSUME NEW m \in Mail
      PROVE  IF u.at # "idle" /\ u.mail = m
             THEN InProgress(e.facts \cup L.facts, L.facts, m, Progress(u))
             ELSE Settled(e.facts \cup L.facts, L.facts, m)
  <2>1. CASE u.at # "idle" /\ u.mail = m
    <3>1. InProgress(d.facts \cup L.facts, L.facts, m, Progress(u))
      BY <2>1 DEF Mails
    <3>2. QED
      BY <1>1, <2>1, <3>1, SettledGrows
  <2>2. CASE ~(u.at # "idle" /\ u.mail = m)
    <3>1. Settled(d.facts \cup L.facts, L.facts, m)
      BY <2>2 DEF Mails
    <3>2. QED
      BY <1>1, <2>2, <3>1, SettledGrows
  <2>3. QED
    BY <2>1, <2>2
<1>3. QED
  BY <1>2 DEF Mails

\* A transaction with nothing written has stored nothing.
LEMMA NoMails ==
    ASSUME NEW d
    PROVE  Mails(d, NoRows, Idle)
<1>1. NoRows.facts = {}
  BY EmptyRows
<1>2. \A F, m : InProgress(F, {}, m, 0)
  BY DEF InProgress, StoredUpTo, HasMessage, NotEnded
<1>3. QED
  BY <1>1, <1>2, IdleStands DEF Mails, Settled

\* The rows of one session replaced, with the others as they were.
LEMMA MailsReplace ==
    ASSUME NEW d, NEW t, NEW k, NEW u, NEW r \in Run, MailsInvOf(d, t, k, u),
           NEW t1, NEW k1, NEW u1,
           \A q \in Run \ {r} : t1[q] = t[q] /\ k1[q] = k[q] /\ u1[q] = u[q],
           Mails(d, t1[r], u1[r]), Mails(d, k1[r], Idle),
           u1[r].at = "finish" => u1[r].part = Len(Participants[u1[r].mail])
    PROVE  MailsInvOf(d, t1, k1, u1)
BY DEF MailsInvOf

\* A step that writes no row of a mail and stays at its part.
LEMMA MailsQuiet ==
    ASSUME NEW d, NEW L, NEW u, NEW M, NEW w, Mails(d, L, u),
           L.facts \subseteq M.facts, \A f \in M.facts : f \in L.facts \/ f[1] \notin MailKinds,
           u.at \notin {"idle", "finish"}, w.at \notin {"idle", "finish"},
           w.mail = u.mail, w.part = u.part
    PROVE  Mails(d, M, w)
<1>1. \A m : SameMail(L.facts, M.facts, m)
  BY DEF SameMail
<1>2. d.facts \cup L.facts \subseteq d.facts \cup M.facts
  OBVIOUS
<1>3. Progress(w) = Progress(u)
  BY DEF Progress
<1>4. ASSUME NEW m \in Mail
      PROVE  IF w.at # "idle" /\ w.mail = m
             THEN InProgress(d.facts \cup M.facts, M.facts, m, Progress(w))
             ELSE Settled(d.facts \cup M.facts, M.facts, m)
  <2>1. CASE u.mail = m
    <3>1. InProgress(d.facts \cup L.facts, L.facts, m, Progress(u))
      BY <2>1 DEF Mails
    <3>2. InProgress(d.facts \cup M.facts, L.facts, m, Progress(u))
      BY <1>2, <3>1, SettledGrows
    <3>3. InProgress(d.facts \cup M.facts, M.facts, m, Progress(u))
      BY <1>1, <3>2, SameMailSettled
    <3>4. QED
      BY <1>3, <2>1, <3>3
  <2>2. CASE u.mail # m
    <3>1. Settled(d.facts \cup L.facts, L.facts, m)
      BY <2>2 DEF Mails
    <3>2. Settled(d.facts \cup M.facts, L.facts, m)
      BY <1>2, <3>1, SettledGrows
    <3>3. Settled(d.facts \cup M.facts, M.facts, m)
      BY <1>1, <3>2, SameMailSettled
    <3>4. QED
      BY <2>2, <3>3
  <2>3. QED
    BY <2>1, <2>2
<1>5. QED
  BY <1>4 DEF Mails

\* A step that writes rows of one mail, its own.
LEMMA MailsTouch ==
    ASSUME NEW d, NEW L, NEW u, NEW M, NEW w, NEW m, Mails(d, L, u),
           u.at # "idle" => u.mail = m,
           L.facts \subseteq M.facts,
           \A f \in M.facts : f \in L.facts \/ f[1] \notin MailKinds \/ f[2] = m,
           IF w.at # "idle"
           THEN w.mail = m /\ InProgress(d.facts \cup M.facts, M.facts, m, Progress(w))
           ELSE Settled(d.facts \cup M.facts, M.facts, m)
    PROVE  Mails(d, M, w)
<1>1. d.facts \cup L.facts \subseteq d.facts \cup M.facts
  OBVIOUS
<1>2. ASSUME NEW n \in Mail, n # m
      PROVE  Settled(d.facts \cup M.facts, M.facts, n)
  <2>1. SameMail(L.facts, M.facts, n)
    BY <1>2 DEF SameMail
  <2>2. Settled(d.facts \cup L.facts, L.facts, n)
    BY <1>2 DEF Mails
  <2>3. Settled(d.facts \cup M.facts, L.facts, n)
    BY <1>1, <2>2, SettledGrows
  <2>4. QED
    BY <2>1, <2>3, SameMailSettled
<1>3. QED
  BY <1>2 DEF Mails

\* A commit of settled mails.
LEMMA MailsCommit ==
    ASSUME NEW d, NEW t, NEW k, NEW u, NEW r \in Run, MailsInvOf(d, t, k, u),
           Mails(d, t[r], Idle), NEW t1, NEW k1, NEW u1, Closes(t, k, r, t1, k1),
           u1[r] = Idle, \A q \in Run \ {r} : u1[q] = u[q]
    PROVE  MailsInvOf(Merged(d, t[r]), t1, k1, u1)
<1>1. PICK e : e = Merged(d, t[r])
  OBVIOUS
<1>2. e.facts = d.facts \cup t[r].facts
  BY <1>1 DEF Merged
<1>3. ASSUME NEW m \in Mail PROVE Settled(e.facts, e.facts, m)
  <2>1. Settled(d.facts, d.facts, m) /\ Settled(e.facts, t[r].facts, m)
    BY <1>2, IdleStands DEF MailsInvOf, Mails
  <2>2. d.facts \subseteq e.facts
    BY <1>2
  <2>3. Settled(e.facts, d.facts, m)
    BY <2>1, <2>2, SettledGrows
  <2>4. QED
    BY <1>2, <2>1, <2>3, SettledUnion
<1>4. ASSUME NEW q \in Run
      PROVE  /\ Mails(e, t1[q], u1[q])
             /\ Mails(e, k1[q], Idle)
             /\ u1[q].at = "finish" => u1[q].part = Len(Participants[u1[q].mail])
  <2>1. CASE q = r
    BY <2>1, NoMails, IdleStands DEF Closes
  <2>2. CASE q # r
    <3>1. t1[q] = t[q] /\ k1[q] = k[q] /\ u1[q] = u[q]
      BY <2>2 DEF Closes
    <3>2. /\ Mails(d, t[q], u[q]) /\ Mails(d, k[q], Idle)
          /\ u[q].at = "finish" => u[q].part = Len(Participants[u[q].mail])
      BY DEF MailsInvOf
    <3>3. QED
      BY <1>2, <3>1, <3>2, MailsGrow
  <2>3. QED
    BY <2>1, <2>2
<1>5. QED
  BY <1>1, <1>3, <1>4 DEF MailsInvOf

\* The steps of the resolver: no row of a mail, the same part.
ResolverStep(r) ==
    \/ LookupCompany(r) \/ InsertCompany(r) \/ RecordObservedHost(r)
    \/ LookupPerson(r) \/ InsertPerson(r)
    \/ BackfillDisplayName(r) \/ AddAlias(r) \/ ExtendSeenWindow(r) \/ LinkPersonCompany(r)

\* An insert that is tolerated writes one row or none.
LEMMA EnsureWrites ==
    ASSUME IngestInv, NEW r \in Run, NEW f, NEW marker, NEW w, Ensure(r, f, marker, w)
    PROVE  /\ run' = [run EXCEPT ![r] = w]
           /\ \E M : /\ tx' = [tx EXCEPT ![r] = M] /\ M.people = tx[r].people
                     /\ M = tx[r] \/ M.facts = tx[r].facts \cup {f}
<1>1. tx = [q \in Run |-> tx[q]]
  BY Here
<1>2. tx = [tx EXCEPT ![r] = tx[r]]
  BY <1>1
<1>3. tx' = tx \/ tx' = [tx EXCEPT ![r] = IF Violates(r, f) THEN tx[r] ELSE With(r, {f})]
  BY DEF Ensure, Write
<1>4. PICK M : M = With(r, {f})
  OBVIOUS
<1>5. M.people = tx[r].people /\ M.facts = tx[r].facts \cup {f}
  BY <1>4 DEF With
<1>6. \E N : /\ tx' = [tx EXCEPT ![r] = N] /\ N.people = tx[r].people
             /\ N = tx[r] \/ N.facts = tx[r].facts \cup {f}
  BY <1>2, <1>3, <1>4, <1>5
<1>7. run' = [run EXCEPT ![r] = w]
  BY DEF Ensure, MoveTo
<1>8. QED
  BY <1>6, <1>7

\* The steps a step of the resolver leads to.
ResolverGoes == {"host", "person", "mint_company", "mint_person", "name", "alias", "seen", "link",
                 "store"}

\* Where each step of the resolver goes, and what it writes.
LEMMA ResolverMoves ==
    ASSUME IngestInv, NEW r \in Run, ResolverStep(r)
    PROVE  /\ UNCHANGED <<db, mark>> /\ run[r].at \notin {"idle", "finish"}
           /\ \E step, c, p :
                /\ step \in ResolverGoes
                /\ run' = [run EXCEPT ![r] = [at |-> step, mail |-> run[r].mail,
                                              part |-> run[r].part, company |-> c, person |-> p]]
<1> DEFINE W(step, c, p) == [at |-> step, mail |-> run[r].mail, part |-> run[r].part,
                             company |-> c, person |-> p]
           Moves == \E step, c, p :
                        step \in ResolverGoes /\ run' = [run EXCEPT ![r] = W(step, c, p)]
<1>1. \A step : Go(r, step) = W(step, run[r].company, run[r].person)
  BY GoTo
<1>2. \A c : /\ [Go(r, "host") EXCEPT !.company = c] = W("host", c, run[r].person)
             /\ [Go(r, "person") EXCEPT !.company = c] = W("person", c, run[r].person)
  BY GoTo
<1>3. \A p : /\ [Go(r, "store") EXCEPT !.person = p] = W("store", run[r].company, p)
             /\ [Go(r, "name") EXCEPT !.person = p] = W("name", run[r].company, p)
  BY GoTo
<1>4. UNCHANGED <<db, mark>> /\ run[r].at \notin {"idle", "finish"}
  BY DEF ResolverStep, LookupCompany, InsertCompany, RecordObservedHost, LookupPerson,
         InsertPerson, BackfillDisplayName, AddAlias, ExtendSeenWindow, LinkPersonCompany, At
<1>m. /\ \A c, p : run' = [run EXCEPT ![r] = W("host", c, p)] => Moves
      /\ \A c, p : run' = [run EXCEPT ![r] = W("person", c, p)] => Moves
      /\ \A c, p : run' = [run EXCEPT ![r] = W("mint_company", c, p)] => Moves
      /\ \A c, p : run' = [run EXCEPT ![r] = W("mint_person", c, p)] => Moves
      /\ \A c, p : run' = [run EXCEPT ![r] = W("name", c, p)] => Moves
      /\ \A c, p : run' = [run EXCEPT ![r] = W("alias", c, p)] => Moves
      /\ \A c, p : run' = [run EXCEPT ![r] = W("seen", c, p)] => Moves
      /\ \A c, p : run' = [run EXCEPT ![r] = W("link", c, p)] => Moves
      /\ \A c, p : run' = [run EXCEPT ![r] = W("store", c, p)] => Moves
  <2> HIDE DEF W
  <2>1. QED
    BY DEF ResolverGoes
<1>w. Moves => \E step, c, p :
                /\ step \in ResolverGoes
                /\ run' = [run EXCEPT ![r] = [at |-> step, mail |-> run[r].mail,
                                              part |-> run[r].part, company |-> c, person |-> p]]
  OBVIOUS
<1> HIDE DEF Moves
<1> SUFFICES Moves
  BY <1>4, <1>w DEF W
<1> HIDE DEF W
<1>5. CASE LookupCompany(r)
  <2>1. ObservedCompany(AddressOf(r)) = None =>
            run' = [run EXCEPT ![r] = W("person", None, run[r].person)]
    BY <1>2, <1>5 DEF LookupCompany, MoveTo
  <2>2. ObservedCompany(AddressOf(r)) # None => Moves
    <3> DEFINE key == ObservedCompany(AddressOf(r))
               cached == Lookup(cache[r], CompanyKey(key))
               found == GetCompanyIdByDomain(r, key)
    <3>1. SUFFICES ASSUME key # None PROVE Moves
      OBVIOUS
    <3>2. CASE cached # None
      <4>1. run' = [run EXCEPT ![r] = W("host", cached, run[r].person)]
        BY <1>2, <1>5, <3>1, <3>2 DEF LookupCompany, MoveTo
      <4>2. QED
        BY <4>1, <1>m
    <3>3. CASE cached = None /\ found # None
      <4>1. run' = [run EXCEPT ![r] = W("host", found, run[r].person)]
        BY <1>2, <1>5, <3>1, <3>3 DEF LookupCompany, MoveTo
      <4>2. QED
        BY <4>1, <1>m
    <3>4. CASE cached = None /\ found = None
      <4>1. run' = [run EXCEPT ![r] = W("mint_company", run[r].company, run[r].person)]
        BY <1>1, <1>5, <3>1, <3>4 DEF LookupCompany, MoveTo
      <4>2. QED
        BY <4>1, <1>m
    <3>5. QED
      BY <3>2, <3>3, <3>4
  <2>3. QED
    BY <1>m, <2>1, <2>2
<1>6. CASE InsertCompany(r)
  <2>1. PICK c : run' = [run EXCEPT ![r] = [Go(r, "host") EXCEPT !.company = c]]
    BY <1>6 DEF InsertCompany, MoveTo
  <2>2. run' = [run EXCEPT ![r] = W("host", c, run[r].person)]
    BY <1>2, <2>1
  <2>3. QED
    BY <1>m, <2>2
<1>7. CASE RecordObservedHost(r)
  <2>1. run' = [run EXCEPT ![r] = Go(r, "person")]
    BY <1>7, EnsureWrites DEF RecordObservedHost, MoveTo
  <2>2. QED
    BY <1>1, <1>m, <2>1
<1>8. CASE LookupPerson(r)
  <2>1. \/ run' = [run EXCEPT ![r] = [Go(r, "store") EXCEPT !.person = None]]
        \/ \E id : run' = [run EXCEPT ![r] = [Go(r, "name") EXCEPT !.person = id]]
        \/ run' = [run EXCEPT ![r] = Go(r, "mint_person")]
    BY <1>8 DEF LookupPerson, MoveTo
  <2>2. Moves
    <3>1. CASE run' = [run EXCEPT ![r] = [Go(r, "store") EXCEPT !.person = None]]
      <4>1. run' = [run EXCEPT ![r] = W("store", run[r].company, None)]
        BY <1>3, <3>1
      <4>2. QED
        BY <1>m, <4>1
    <3>2. CASE \E id : run' = [run EXCEPT ![r] = [Go(r, "name") EXCEPT !.person = id]]
      <4>1. PICK id : run' = [run EXCEPT ![r] = [Go(r, "name") EXCEPT !.person = id]]
        BY <3>2
      <4>2. run' = [run EXCEPT ![r] = W("name", run[r].company, id)]
        BY <1>3, <4>1
      <4>3. QED
        BY <1>m, <4>2
    <3>3. CASE run' = [run EXCEPT ![r] = Go(r, "mint_person")]
      BY <1>1, <1>m, <3>3
    <3>4. QED
      BY <2>1, <3>1, <3>2, <3>3
  <2>3. QED
    BY <2>2
<1>9. CASE InsertPerson(r)
  <2>1. PICK p : run' = [run EXCEPT ![r] = [Go(r, "name") EXCEPT !.person = p]]
    BY <1>9 DEF InsertPerson, MoveTo
  <2>2. run' = [run EXCEPT ![r] = W("name", run[r].company, p)]
    BY <1>3, <2>1
  <2>3. QED
    BY <1>m, <2>2
<1>10. CASE BackfillDisplayName(r)
  <2>1. run' = [run EXCEPT ![r] = Go(r, "seen")] \/ run' = [run EXCEPT ![r] = Go(r, "alias")]
    BY <1>10 DEF BackfillDisplayName, MoveTo
  <2>2. QED
    BY <1>1, <1>m, <2>1
<1>11. CASE AddAlias(r)
  <2>1. run' = [run EXCEPT ![r] = Go(r, "seen")]
    BY <1>11, EnsureWrites DEF AddAlias
  <2>2. QED
    BY <1>1, <1>m, <2>1
<1>12. CASE ExtendSeenWindow(r)
  <2>1. run' = [run EXCEPT ![r] = Go(r, "link")]
    BY <1>12 DEF ExtendSeenWindow, MoveTo
  <2>2. QED
    BY <1>1, <1>m, <2>1
<1>13. CASE LinkPersonCompany(r)
  <2>1. run' = [run EXCEPT ![r] = Go(r, "store")]
    BY <1>13, EnsureWrites DEF LinkPersonCompany, MoveTo
  <2>2. QED
    BY <1>1, <1>m, <2>1
<1>14. QED
  BY <1>5, <1>6, <1>7, <1>8, <1>9, <1>10, <1>11, <1>12, <1>13 DEF ResolverStep

\* No step of the resolver writes a row of a mail.
LEMMA ResolverWrites ==
    ASSUME IngestInv, NEW r \in Run, ResolverStep(r)
    PROVE  \E M : /\ tx' = [tx EXCEPT ![r] = M] /\ tx[r].facts \subseteq M.facts
                  /\ \A f \in M.facts : f \in tx[r].facts \/ f[1] \notin MailKinds
<1> DEFINE Quiet(M) == /\ tx' = [tx EXCEPT ![r] = M] /\ tx[r].facts \subseteq M.facts
                       /\ \A f \in M.facts : f \in tx[r].facts \/ f[1] \notin MailKinds
<1> SUFFICES \E M : Quiet(M)
  OBVIOUS
<1>1. tx = [tx EXCEPT ![r] = tx[r]]
  <2>1. tx = [q \in Run |-> tx[q]]
    BY Here
  <2>2. QED
    BY <2>1
<1>2. ASSUME UNCHANGED tx PROVE \E M : Quiet(M)
  <2>1. Quiet(tx[r])
    BY <1>1, <1>2
  <2>2. QED
    BY <2>1
<1>3. ASSUME NEW M, NEW F, tx' = [tx EXCEPT ![r] = M], M.facts = tx[r].facts \cup F,
             \A f \in F : f[1] \notin MailKinds
      PROVE  \E N : Quiet(N)
  <2>1. Quiet(M)
    BY <1>3
  <2> HIDE DEF Quiet
  <2>2. QED
    BY <2>1
<1>4. ASSUME NEW f, NEW marker, NEW w, Ensure(r, f, marker, w), f[1] \notin MailKinds
      PROVE  \E M : Quiet(M)
  <2>1. PICK M : /\ tx' = [tx EXCEPT ![r] = M]
                 /\ M = tx[r] \/ M.facts = tx[r].facts \cup {f}
    BY <1>4, EnsureWrites
  <2>2. Quiet(M)
    BY <1>4, <2>1
  <2> HIDE DEF Quiet
  <2>3. QED
    BY <2>2
<1> HIDE DEF Quiet
<1>5. CASE LookupCompany(r) \/ LookupPerson(r)
  BY <1>2, <1>5 DEF LookupCompany, LookupPerson
<1>6. CASE InsertCompany(r)
  <2>1. PICK c : LET key == ObservedCompany(AddressOf(r))
                 IN  Write(r, IF Violates(r, CompanyDomain(key, c)) THEN tx[r]
                              ELSE With(r, {Company(c), CompanyDomain(key, c)}))
    BY <1>6 DEF InsertCompany
  <2>2. PICK key : key = ObservedCompany(AddressOf(r))
    OBVIOUS
  <2>3. CASE Violates(r, CompanyDomain(key, c))
    BY <1>1, <1>2, <2>1, <2>2, <2>3 DEF Write
  <2>4. CASE ~Violates(r, CompanyDomain(key, c))
    <3>1. PICK F : F = {Company(c), CompanyDomain(key, c)}
      OBVIOUS
    <3>2. PICK M : M = With(r, F)
      OBVIOUS
    <3>3. tx' = [tx EXCEPT ![r] = M] /\ M.facts = tx[r].facts \cup F
      BY <2>1, <2>2, <2>4, <3>1, <3>2 DEF Write, With
    <3>4. \A f \in F : f[1] \notin MailKinds
      BY <3>1 DEF Company, CompanyDomain, MailKinds
    <3>5. QED
      BY <1>3, <3>3, <3>4
  <2>5. QED
    BY <2>3, <2>4
<1>7. CASE RecordObservedHost(r)
  <2>1. \A h, c : CompanyDomain(h, c)[1] \notin MailKinds
    BY DEF CompanyDomain, MailKinds
  <2>2. QED
    BY <1>2, <1>4, <1>7, <2>1 DEF RecordObservedHost
<1>8. CASE InsertPerson(r)
  <2>1. PICK p : LET lost == Violates(r, PersonEmail(AddressOf(r), p))
                 IN  Write(r, MintedPerson(r, p, lost))
    BY <1>8 DEF InsertPerson
  <2>2. CASE Violates(r, PersonEmail(AddressOf(r), p))
    BY <1>1, <1>2, <2>1, <2>2 DEF Write, MintedPerson
  <2>3. CASE ~Violates(r, PersonEmail(AddressOf(r), p))
    <3>1. PICK M : M = MintedPerson(r, p, FALSE)
      OBVIOUS
    <3>2. tx' = [tx EXCEPT ![r] = M]
      BY <2>1, <2>3, <3>1 DEF Write, MintedPerson
    <3>3. PICK F : F = {PersonEmail(AddressOf(r), p)}
      OBVIOUS
    <3>4. M.facts = tx[r].facts \cup F
      BY <3>1, <3>3 DEF MintedPerson
    <3>5. \A f \in F : f[1] \notin MailKinds
      BY <3>3 DEF PersonEmail, MailKinds
    <3>6. QED
      BY <1>3, <3>2, <3>4, <3>5
  <2>4. QED
    BY <2>2, <2>3
<1>9. CASE BackfillDisplayName(r) \/ ExtendSeenWindow(r)
  <2>1. ASSUME NEW p, NEW row, UpdatePerson(r, p, row) PROVE \E M : Quiet(M)
    <3>1. PICK M : M = [facts |-> tx[r].facts, people |-> Put(tx[r].people, p, row)]
      OBVIOUS
    <3>2. PICK F : F = {}
      OBVIOUS
    <3>3. tx' = [tx EXCEPT ![r] = M] /\ M.facts = tx[r].facts \cup F
      BY <2>1, <3>1, <3>2 DEF UpdatePerson, Write
    <3>4. \A f \in F : f[1] \notin MailKinds
      BY <3>2
    <3>5. QED
      BY <1>3, <3>3, <3>4
  <2>2. QED
    BY <1>2, <1>9, <2>1 DEF BackfillDisplayName, ExtendSeenWindow
<1>10. CASE AddAlias(r)
  <2>1. \A p, n : PersonAlias(p, n)[1] \notin MailKinds
    BY DEF PersonAlias, MailKinds
  <2>2. QED
    BY <1>4, <1>10, <2>1 DEF AddAlias
<1>11. CASE LinkPersonCompany(r)
  <2>1. \A p, c : PersonCompany(p, c)[1] \notin MailKinds
    BY DEF PersonCompany, MailKinds
  <2>2. QED
    BY <1>2, <1>4, <1>11, <2>1 DEF LinkPersonCompany
<1>12. QED
  BY <1>5, <1>6, <1>7, <1>8, <1>9, <1>10, <1>11 DEF ResolverStep

\* The resolver leaves what is stored of the mails alone.
LEMMA ResolverKeepsMails ==
    ASSUME MailsInv, NEW r \in Run, ResolverStep(r)
    PROVE  MailsInvOf(db, tx, mark, run)'
<1>1. IngestInv /\ MailsInvOf(db, tx, mark, run)
  BY DEF MailsInv
<1>2. PICK M : /\ tx' = [tx EXCEPT ![r] = M] /\ tx[r].facts \subseteq M.facts
               /\ \A f \in M.facts : f \in tx[r].facts \/ f[1] \notin MailKinds
  BY <1>1, ResolverWrites
<1>3. /\ UNCHANGED <<db, mark>> /\ run[r].at \notin {"idle", "finish"}
      /\ \E w : /\ run' = [run EXCEPT ![r] = w] /\ w.at \notin {"idle", "finish"}
                /\ w.mail = run[r].mail /\ w.part = run[r].part
  <2>1. PICK step, c, p :
            /\ step \in ResolverGoes
            /\ run' = [run EXCEPT ![r] = [at |-> step, mail |-> run[r].mail,
                                          part |-> run[r].part, company |-> c, person |-> p]]
    BY <1>1, ResolverMoves
  <2>2. PICK w : w = [at |-> step, mail |-> run[r].mail,
                      part |-> run[r].part, company |-> c, person |-> p]
    OBVIOUS
  <2>3. /\ run' = [run EXCEPT ![r] = w] /\ w.at \notin {"idle", "finish"}
        /\ w.mail = run[r].mail /\ w.part = run[r].part
    BY <2>1, <2>2 DEF ResolverGoes
  <2>4. UNCHANGED <<db, mark>> /\ run[r].at \notin {"idle", "finish"}
    BY <1>1, ResolverMoves
  <2>5. QED
    BY <2>3, <2>4
<1>4. PICK w : /\ run' = [run EXCEPT ![r] = w] /\ w.at \notin {"idle", "finish"}
               /\ w.mail = run[r].mail /\ w.part = run[r].part
  BY <1>3
<1>5. tx = [q \in Run |-> tx[q]] /\ run = [q \in Run |-> run[q]]
  BY <1>1 DEF IngestInv, IngestInvOf
<1>6. /\ tx'[r] = M /\ run'[r] = w
      /\ \A q \in Run \ {r} : tx'[q] = tx[q] /\ run'[q] = run[q]
  BY <1>2, <1>4, <1>5
<1>7. Mails(db, tx[r], run[r]) /\ Mails(db, mark[r], Idle)
  BY <1>1 DEF MailsInvOf
<1>8. Mails(db, M, w)
  BY <1>2, <1>3, <1>4, <1>7, MailsQuiet
<1>9. PICK t, u : t = tx' /\ u = run'
  OBVIOUS
<1>10. MailsInvOf(db, t, mark, u)
  <2>1. \A q \in Run \ {r} : t[q] = tx[q] /\ mark[q] = mark[q] /\ u[q] = run[q]
    BY <1>6, <1>9
  <2>2. Mails(db, t[r], u[r]) /\ u[r].at # "finish"
    BY <1>4, <1>6, <1>8, <1>9
  <2>3. QED
    BY <1>1, <1>7, <2>1, <2>2, MailsReplace
<1>11. QED
  BY <1>3, <1>9, <1>10

\* The row of the mail.
LEMMA StoreFirst ==
    ASSUME NEW F, NEW G, F \subseteq G, NEW X, NEW m \in Mail, NEW x \in Id \cup {None},
           InProgress(F, X, m, 0), PersonFor(F, m, 1, x)
    PROVE  InProgress(G, X \cup {EmailMessage(m, x)}, m, 1)
<1> DEFINE Y == X \cup {EmailMessage(m, x)}
<1>1. InProgress(G, X, m, 0) /\ PersonFor(G, m, 1, x)
  BY SettledGrows DEF PersonFor
<1>2. \A y : EmailMessage(m, y) \in Y => EmailMessage(m, y) \in X \/ y = x
  BY DEF EmailMessage
<1>3. \A i, y : EmailRecipient(m, i, y) \in Y <=> EmailRecipient(m, i, y) \in X
  BY DEF EmailMessage, EmailRecipient
<1>4. HasMessage(Y, m) /\ ~HasMessage(X, m)
  BY <1>1 DEF HasMessage, InProgress, StoredUpTo
<1>5. \A y \in Id \cup {None} : EmailMessage(m, y) \in Y => PersonFor(G, m, 1, y)
  BY <1>1, <1>2, <1>4 DEF HasMessage
<1>6. \A i \in DOMAIN Participants[m], y \in Id \cup {None} : EmailRecipient(m, i, y) \notin Y
  <2>1. ASSUME NEW i \in DOMAIN Participants[m], NEW y \in Id \cup {None},
               EmailRecipient(m, i, y) \in X
        PROVE  FALSE
    <3>1. i \in Nat
      BY PartNumbers
    <3>2. 2 <= i /\ i <= 0
      BY <1>1, <2>1 DEF InProgress, StoredUpTo
    <3>3. QED
      BY <3>1, <3>2
  <2>2. QED
    BY <1>3, <2>1
<1>7. NotEnded(Y, m)
  <2>1. \A z \in Attachments[m] : EmailAttachment(m, z) # EmailMessage(m, x)
    BY DEF EmailAttachment, EmailMessage
  <2>2. \A g \in EmailGrants(m) : g # EmailMessage(m, x)
    BY GrantFacts DEF EmailMessage
  <2>3. QED
    BY <1>1, <2>1, <2>2 DEF InProgress, NotEnded
<1> HIDE DEF Y
<1>8. StoredUpTo(G, Y, m, 1)
  BY <1>4, <1>5, <1>6 DEF StoredUpTo
<1>9. QED
  BY <1>7, <1>8 DEF InProgress, Y

\* The row of the next recipient.
LEMMA StoreNext ==
    ASSUME NEW F, NEW G, F \subseteq G, NEW X, NEW m \in Mail, NEW x \in Id \cup {None},
           NEW n \in DOMAIN Participants[m], n > 1,
           InProgress(F, X, m, n - 1), PersonFor(F, m, n, x)
    PROVE  InProgress(G, X \cup {EmailRecipient(m, n, x)}, m, n)
<1> DEFINE Y == X \cup {EmailRecipient(m, n, x)}
<1>1. InProgress(G, X, m, n - 1) /\ PersonFor(G, m, n, x) /\ n \in Nat
  <2>1. n \in Nat
    BY PartNumbers
  <2>2. PICK i : i = n - 1
    OBVIOUS
  <2>3. InProgress(F, X, m, i)
    BY <2>2
  <2>4. InProgress(G, X, m, i)
    BY <2>3, SettledGrows
  <2>5. PersonFor(G, m, n, x)
    BY DEF PersonFor
  <2>6. QED
    BY <2>1, <2>2, <2>4, <2>5
<1>2. \A y : EmailMessage(m, y) \in Y <=> EmailMessage(m, y) \in X
  BY DEF EmailMessage, EmailRecipient
<1>3. \A i, y : EmailRecipient(m, i, y) \in Y => EmailRecipient(m, i, y) \in X \/ (i = n /\ y = x)
  BY DEF EmailRecipient
<1>4. HasMessage(Y, m)
  <2>1. n - 1 >= 1
    BY <1>1
  <2>2. QED
    BY <1>1, <1>2, <2>1 DEF HasMessage, InProgress, StoredUpTo
<1>5. \A y \in Id \cup {None} : EmailMessage(m, y) \in Y => PersonFor(G, m, 1, y)
  BY <1>1, <1>2 DEF InProgress, StoredUpTo
<1>6. ASSUME NEW i \in DOMAIN Participants[m], NEW y \in Id \cup {None},
             EmailRecipient(m, i, y) \in Y
      PROVE  2 <= i /\ i <= n /\ PersonFor(G, m, i, y)
  <2>1. i \in Nat
    BY PartNumbers
  <2>2. CASE EmailRecipient(m, i, y) \in X
    <3>1. 2 <= i /\ i <= n - 1 /\ PersonFor(G, m, i, y)
      BY <1>1, <2>2 DEF InProgress, StoredUpTo
    <3>2. QED
      BY <1>1, <2>1, <3>1
  <2>3. CASE i = n /\ y = x
    BY <1>1, <2>3
  <2>4. QED
    BY <1>3, <1>6, <2>2, <2>3
<1>7. ASSUME NEW i \in 2..n PROVE \E y \in Id \cup {None} : EmailRecipient(m, i, y) \in Y
  <2>1. CASE i = n
    BY <2>1
  <2>2. CASE i # n
    <3>1. i \in 2..(n - 1)
      BY <1>1, <2>2
    <3>2. QED
      BY <1>1, <3>1 DEF InProgress, StoredUpTo
  <2>3. QED
    BY <2>1, <2>2
<1>8. NotEnded(Y, m)
  <2>1. \A z \in Attachments[m] : EmailAttachment(m, z) # EmailRecipient(m, n, x)
    BY DEF EmailAttachment, EmailRecipient
  <2>2. \A g \in EmailGrants(m) : g # EmailRecipient(m, n, x)
    BY GrantFacts DEF EmailRecipient
  <2>3. QED
    BY <1>1, <2>1, <2>2 DEF InProgress, NotEnded
<1> HIDE DEF Y
<1>9. n >= 1
  BY <1>1
<1>10. StoredUpTo(G, Y, m, n)
  BY <1>4, <1>5, <1>6, <1>7, <1>9 DEF StoredUpTo
<1>11. QED
  BY <1>8, <1>10 DEF InProgress, Y

\* The attachments and the grants.
LEMMA StoreEnd ==
    ASSUME NEW F, NEW G, F \subseteq G, NEW X, NEW m \in Mail,
           InProgress(F, X, m, Len(Participants[m]))
    PROVE  Complete(G, X \cup ({EmailAttachment(m, x) : x \in Attachments[m]} \cup EmailGrants(m)),
                    m)
<1> DEFINE E == {EmailAttachment(m, x) : x \in Attachments[m]} \cup EmailGrants(m)
           Y == X \cup E
<1>1. InProgress(G, X, m, Len(Participants[m]))
  BY SettledGrows
<1>2. \A f \in E : f[1] \in {"attachment", "grant"}
  BY GrantFacts DEF EmailAttachment
<1>3. Ended(Y, m)
  BY DEF Ended
<1> HIDE DEF E
<1>4. \A y : EmailMessage(m, y) \in Y <=> EmailMessage(m, y) \in X
  BY <1>2 DEF EmailMessage
<1>5. \A i, y : EmailRecipient(m, i, y) \in Y <=> EmailRecipient(m, i, y) \in X
  BY <1>2 DEF EmailRecipient
<1> HIDE DEF Y
<1>6. StoredUpTo(G, Y, m, Len(Participants[m]))
  BY <1>1, <1>4, <1>5 DEF InProgress, StoredUpTo, HasMessage
<1>7. QED
  BY <1>3, <1>6 DEF Complete, Y, E

\* The end of a mail whose transaction holds settled mails only.
LEMMA MailDoneMails ==
    ASSUME MailsInv, NEW r \in Run, NEW F, MailDone(r, With(r, F), cache[r]),
           Mails(db, With(r, F), Idle)
    PROVE  MailsInvOf(db, tx, mark, run)'
<1>1. MailsInvOf(db, tx, mark, run) /\ IngestInvOf(db, tx, mark, run, cache)
  BY DEF MailsInv, IngestInv
<1>2. /\ tx = [q \in Run |-> tx[q]] /\ mark = [q \in Run |-> mark[q]]
      /\ run = [q \in Run |-> run[q]]
  BY <1>1 DEF IngestInvOf
<1>3. PICK t, k, u : /\ t = [tx EXCEPT ![r] = With(r, F)] /\ k = [mark EXCEPT ![r] = NoRows]
                     /\ u = [run EXCEPT ![r] = Idle]
  OBVIOUS
<1>4. /\ t[r] = With(r, F) /\ k[r] = NoRows /\ u[r] = Idle
      /\ \A q \in Run \ {r} : t[q] = tx[q] /\ k[q] = mark[q] /\ u[q] = run[q]
  BY <1>2, <1>3
<1>5. MailsInvOf(db, t, k, u)
  BY <1>1, <1>4, NoMails, IdleStands, MailsReplace
<1>6. mark' = k /\ run' = u
  BY <1>3 DEF MailDone, MoveTo
<1>7. CASE r \in SyncRun
  <2>1. tx' = t /\ db' = db
    BY <1>3, <1>7 DEF MailDone
  <2>2. QED
    BY <1>5, <1>6, <2>1
<1>8. CASE r \notin SyncRun
  <2>1. db' = Merged(db, t[r]) /\ tx' = [tx EXCEPT ![r] = NoRows]
    BY <1>4, <1>8 DEF MailDone, CommitRows
  <2>2. PICK t1 : t1 = tx'
    OBVIOUS
  <2>3. t1[r] = NoRows /\ \A q \in Run \ {r} : t1[q] = t[q]
    BY <1>2, <1>4, <2>1, <2>2
  <2>4. Closes(t, k, r, t1, k)
    BY <1>4, <2>3 DEF Closes
  <2>5. MailsInvOf(Merged(db, t[r]), t1, k, u)
    BY <1>4, <1>5, <2>4, MailsCommit
  <2>6. QED
    BY <1>6, <2>1, <2>2, <2>5
<1>9. QED
  BY <1>7, <1>8

\* A message that is seen, by its dedup key.
LEMMA SeenMessage ==
    ASSUME IngestInv, NEW r \in Run, NEW m
    PROVE  /\ GetMessageIdByDedup(r, m)
                <=> HasMessage(db.facts, m) \/ HasMessage(tx[r].facts, m)
           /\ \A x : Violates(r, EmailMessage(m, x))
                <=> HasMessage(db.facts, m) \/ HasMessage(tx[r].facts, m)
<1>1. \A f \in View(r).facts : IsFact(f)
  BY Here
<1>2. \A y : EmailMessage(m, y) \in View(r).facts => y \in Id \cup {None}
  BY <1>1, MessageFacts
<1>3. (\E y : EmailMessage(m, y) \in View(r).facts)
        <=> HasMessage(db.facts, m) \/ HasMessage(tx[r].facts, m)
  BY <1>2, Here DEF HasMessage
<1>4. GetMessageIdByDedup(r, m) <=> \E y : EmailMessage(m, y) \in View(r).facts
  <2>1. ASSUME NEW f \in View(r).facts, f[1] = "message", f[2] = m
        PROVE  \E y : EmailMessage(m, y) \in View(r).facts
    BY <1>1, <2>1, KeyedFacts
  <2>2. ASSUME NEW y, EmailMessage(m, y) \in View(r).facts
        PROVE  \E f \in View(r).facts : f[1] = "message" /\ f[2] = m
    BY <2>2 DEF EmailMessage
  <2>3. QED
    BY <2>1, <2>2 DEF GetMessageIdByDedup
<1>5. ASSUME NEW x
      PROVE  Violates(r, EmailMessage(m, x)) <=> \E y : EmailMessage(m, y) \in View(r).facts
  BY <1>1, MessageConflict DEF Violates
<1>6. QED
  BY <1>3, <1>4, <1>5

\* A mail that is stored and settled has its grants: there is nothing to
\* reconcile.
LEMMA NothingToReconcile ==
    ASSUME IngestInv, NEW r \in Run, NEW m \in Mail,
           HasMessage(db.facts, m) \/ HasMessage(tx[r].facts, m), NEW F, NEW G,
           Settled(F, db.facts, m), Settled(G, tx[r].facts, m)
    PROVE  ReconcileGrants(r, m) = With(r, {})
<1>1. \A H, X : HasMessage(X, m) /\ Settled(H, X, m) => EmailGrants(m) \subseteq X
  BY DEF Settled, InProgress, StoredUpTo, Complete, Ended
<1>2. EmailGrants(m) \subseteq View(r).facts
  BY <1>1, Here
<1>3. \A g \in EmailGrants(m) :
        g[3] \in {f[3] : f \in {h \in View(r).facts : h[1] = "grant" /\ h[2] = m}}
  BY <1>2, GrantFacts
<1>4. {g \in EmailGrants(m) :
        g[3] \notin {f[3] : f \in {h \in View(r).facts : h[1] = "grant" /\ h[2] = m}}} = {}
  BY <1>3
<1>5. QED
  BY <1>4 DEF ReconcileGrants

\* Without a new row the mails are as they were.
LEMMA WithNothing ==
    ASSUME NEW r, NEW d, NEW u, Mails(d, tx[r], u)
    PROVE  Mails(d, With(r, {}), u)
<1>1. With(r, {}).facts = tx[r].facts
  BY DEF With
<1>2. QED
  BY <1>1 DEF Mails

\* A mail found stored, or one that begins.
LEMMA BeginMailMails ==
    ASSUME MailsInv, NEW r \in Run, NEW m \in Mail, BeginMail(r, m)
    PROVE  MailsInvOf(db, tx, mark, run)'
<1>1. MailsInvOf(db, tx, mark, run) /\ IngestInv /\ IngestInvOf(db, tx, mark, run, cache)
  BY DEF MailsInv, IngestInv
<1>2. run[r] = Idle /\ run[r].at = "idle"
  BY <1>1, Here DEF BeginMail, At, Standing
<1>3. Mails(db, tx[r], Idle) /\ Settled(db.facts, db.facts, m)
  BY <1>1, <1>2 DEF MailsInvOf
<1>4. CASE GetMessageIdByDedup(r, m)
  <2>1. MailDone(r, ReconcileGrants(r, m), cache[r])
    BY <1>4 DEF BeginMail
  <2>2. HasMessage(db.facts, m) \/ HasMessage(tx[r].facts, m)
    BY <1>1, <1>4, SeenMessage
  <2>3. Settled(db.facts \cup tx[r].facts, tx[r].facts, m)
    BY <1>3, IdleStands DEF Mails
  <2>4. ReconcileGrants(r, m) = With(r, {})
    BY <1>1, <1>3, <2>2, <2>3, NothingToReconcile
  <2>5. Mails(db, With(r, {}), Idle)
    BY <1>3, WithNothing
  <2>6. QED
    BY <2>1, <2>4, <2>5, MailDoneMails
<1>5. CASE ~GetMessageIdByDedup(r, m)
  <2>1. PICK w : w = [Idle EXCEPT !.at = "company", !.mail = m]
    OBVIOUS
  <2>2. w.at = "company" /\ w.mail = m /\ w.part = 1
    BY <2>1 DEF Idle
  <2>3. /\ run' = [run EXCEPT ![r] = w] /\ mark' = [mark EXCEPT ![r] = tx[r]]
        /\ UNCHANGED <<db, tx>>
    BY <1>5, <2>1 DEF BeginMail, MoveTo
  <2>4. InProgress(db.facts \cup tx[r].facts, tx[r].facts, m, 0)
    <3>1. ~HasMessage(tx[r].facts, m)
      BY <1>1, <1>5, SeenMessage
    <3>2. Settled(db.facts \cup tx[r].facts, tx[r].facts, m)
      BY <1>3, IdleStands DEF Mails
    <3>3. Len(Participants[m]) >= 1
      BY PartNumbers
    <3>4. QED
      BY <3>1, <3>2, <3>3 DEF Settled, Complete, StoredUpTo
  <2>5. Progress(w) = 0
    BY <2>2 DEF Progress
  <2>6. Mails(db, tx[r], w)
    BY <1>3, <2>2, <2>4, <2>5, IdleStands DEF Mails
  <2>7. PICK k, u : k = mark' /\ u = run'
    OBVIOUS
  <2>8. /\ k[r] = tx[r] /\ u[r] = w
        /\ \A q \in Run \ {r} : tx[q] = tx[q] /\ k[q] = mark[q] /\ u[q] = run[q]
    BY <1>1, <2>3, <2>7 DEF IngestInvOf
  <2>9. MailsInvOf(db, tx, k, u)
    BY <1>1, <1>3, <2>2, <2>6, <2>8, MailsReplace
  <2>10. QED
    BY <2>3, <2>7, <2>9
<1>6. QED
  BY <1>4, <1>5

\* The person of the part that a session is about to store.
LEMMA PersonStored ==
    ASSUME IngestInv, NEW r \in Run, At(r, "store")
    PROVE  PersonFor(db.facts \cup tx[r].facts, run[r].mail, run[r].part, run[r].person)
<1>1. Standing(db.facts \cup tx[r].facts, run[r]) /\ run[r].at = "store"
  BY Here DEF At
<1>2. QED
  BY <1>1 DEF Standing, PersonSettled, PersonFor, PartOf

\* A session that stores the next row of its mail.
LEMMA StoreMails ==
    ASSUME MailsInv, NEW r \in Run, At(r, "store"), NEW f, f[1] \in MailKinds,
           f[2] = run[r].mail,
           run' = [run EXCEPT ![r] = NextPart(r)], tx' = [tx EXCEPT ![r] = With(r, {f})],
           UNCHANGED <<db, mark>>,
           InProgress(db.facts \cup With(r, {f}).facts, tx[r].facts \cup {f}, run[r].mail,
                      run[r].part)
    PROVE  MailsInvOf(db, tx, mark, run)'
<1>1. MailsInvOf(db, tx, mark, run) /\ IngestInv /\ IngestInvOf(db, tx, mark, run, cache)
  BY DEF MailsInv, IngestInv
<1>2. PICK w, M : w = NextPart(r) /\ M = With(r, {f})
  OBVIOUS
<1>3. /\ w.at \in {"finish", "company"} /\ w.mail = run[r].mail /\ run[r].part \in Nat
      /\ Progress(w) = run[r].part
      /\ w.at = "finish" => w.part = Len(Participants[w.mail])
  <2>1. IF run[r].part = Len(Participants[run[r].mail])
        THEN w.at = "finish"
        ELSE w.at = "company" /\ w.part = run[r].part + 1
    BY <1>1, <1>2, NextPartStands
  <2>2. w.at = "finish" => w.part = run[r].part
    <3>1. Go(r, "finish").part = run[r].part
      BY <1>1, GoTo
    <3>2. QED
      BY <1>2, <2>1, <3>1 DEF NextPart
  <2>3. w.at \in {"finish", "company"} /\ w.mail = run[r].mail /\ run[r].part \in Nat
    BY <1>1, <1>2, NextPartStands
  <2>4. Progress(w) = run[r].part
    BY <2>1, <2>2, <2>3 DEF Progress
  <2>5. QED
    BY <2>1, <2>2, <2>3, <2>4
<1>4. M.facts = tx[r].facts \cup {f}
  BY <1>2 DEF With
<1>5. Mails(db, tx[r], run[r]) /\ Mails(db, mark[r], Idle)
  BY <1>1 DEF MailsInvOf
<1>6. InProgress(db.facts \cup M.facts, M.facts, run[r].mail, Progress(w))
  BY <1>2, <1>3, <1>4
<1>7. Mails(db, M, w)
  <2>1. PICK L, u, m : L = tx[r] /\ u = run[r] /\ m = run[r].mail
    OBVIOUS
  <2>2. L.facts \subseteq M.facts
    BY <1>4, <2>1
  <2>3. \A g \in M.facts : g \in L.facts \/ g[1] \notin MailKinds \/ g[2] = m
    BY <1>4, <2>1
  <2>4. w.at # "idle" /\ w.mail = m /\ u.mail = m
    BY <1>3, <2>1
  <2>5. InProgress(db.facts \cup M.facts, M.facts, m, Progress(w))
    BY <1>6, <2>1
  <2>6. Mails(db, L, u)
    BY <1>5, <2>1
  <2>7. QED
    BY <2>2, <2>3, <2>4, <2>5, <2>6, MailsTouch
<1>8. PICK t, u : t = tx' /\ u = run'
  OBVIOUS
<1>9. /\ t[r] = M /\ u[r] = w
      /\ \A q \in Run \ {r} : t[q] = tx[q] /\ mark[q] = mark[q] /\ u[q] = run[q]
  BY <1>1, <1>2, <1>8 DEF IngestInvOf
<1>10. MailsInvOf(db, t, mark, u)
  BY <1>1, <1>3, <1>5, <1>7, <1>9, MailsReplace
<1>11. QED
  BY <1>8, <1>10

\* The mail's own row, or the end of a mail that another session has stored.
LEMMA InsertMessageMails ==
    ASSUME MailsInv, NEW r \in Run, InsertMessage(r)
    PROVE  MailsInvOf(db, tx, mark, run)'
<1> DEFINE m == run[r].mail
           x == run[r].person
           F == db.facts \cup tx[r].facts
<1>1. MailsInvOf(db, tx, mark, run) /\ IngestInv
  BY DEF MailsInv
<1>2. /\ m \in Mail /\ x \in Id \cup {None} /\ At(r, "store") /\ run[r].part = 1
      /\ run[r].at = "store"
  BY <1>1, Here, PartTypes DEF InsertMessage, At, Standing
<1>3. Settled(db.facts, db.facts, m) /\ Mails(db, tx[r], run[r])
  BY <1>1, <1>2 DEF MailsInvOf
<1>4. InProgress(F, tx[r].facts, m, 0)
  BY <1>2, <1>3 DEF Mails, Progress
<1>5. CASE Violates(r, EmailMessage(m, x))
  <2>1. MailDone(r, ReconcileGrants(r, m), cache[r])
    <3>1. MailDone(r, ReconcileGrants(r, m), AfterSavepoint(r, TRUE))
      BY <1>5 DEF InsertMessage
    <3>2. QED
      BY <1>1, <3>1, CacheAfterSavepoint
  <2>2. Settled(F, tx[r].facts, m)
    BY <1>4 DEF Settled
  <2>3. HasMessage(db.facts, m) \/ HasMessage(tx[r].facts, m)
    BY <1>1, <1>5, SeenMessage
  <2>4. ReconcileGrants(r, m) = With(r, {})
    BY <1>1, <1>2, <1>3, <2>2, <2>3, NothingToReconcile
  <2>5. Mails(db, tx[r], Idle)
    <3>1. tx[r].facts \subseteq tx[r].facts
      OBVIOUS
    <3>2. QED
      BY <1>2, <1>3, <2>2, IdleStands DEF Mails
  <2>6. Mails(db, With(r, {}), Idle)
    BY <2>5, WithNothing
  <2>7. QED
    BY <2>1, <2>4, <2>6, MailDoneMails
<1>6. CASE ~Violates(r, EmailMessage(m, x))
  <2>1. PICK f : f = EmailMessage(m, x)
    OBVIOUS
  <2>2. f[1] \in MailKinds /\ f[2] = m
    BY <2>1 DEF EmailMessage, MailKinds
  <2>3. /\ run' = [run EXCEPT ![r] = NextPart(r)] /\ tx' = [tx EXCEPT ![r] = With(r, {f})]
        /\ UNCHANGED <<db, mark>>
    BY <1>6, <2>1 DEF InsertMessage, Write, MoveTo
  <2>4. PersonFor(F, m, 1, x)
    BY <1>1, <1>2, PersonStored
  <2>5. PICK G : G = db.facts \cup With(r, {f}).facts
    OBVIOUS
  <2>6. F \subseteq G
    BY <2>5 DEF With
  <2>7. InProgress(G, tx[r].facts \cup {f}, m, 1)
    BY <1>2, <1>4, <2>1, <2>4, <2>6, StoreFirst
  <2>8. QED
    BY <1>2, <2>2, <2>3, <2>5, <2>7, StoreMails
<1>7. QED
  BY <1>5, <1>6

\* The row of a recipient.
LEMMA AddRecipientMails ==
    ASSUME MailsInv, NEW r \in Run, AddRecipient(r)
    PROVE  MailsInvOf(db, tx, mark, run)'
<1> DEFINE m == run[r].mail
           x == run[r].person
           n == run[r].part
           F == db.facts \cup tx[r].facts
<1>1. MailsInvOf(db, tx, mark, run) /\ IngestInv
  BY DEF MailsInv
<1>2. /\ m \in Mail /\ x \in Id \cup {None} /\ At(r, "store") /\ n > 1
      /\ run[r].at = "store" /\ n \in DOMAIN Participants[m]
  BY <1>1, Here, PartTypes DEF AddRecipient, At, Standing
<1>3. Mails(db, tx[r], run[r])
  BY <1>1 DEF MailsInvOf
<1>4. InProgress(F, tx[r].facts, m, n - 1)
  BY <1>2, <1>3 DEF Mails, Progress
<1>5. PICK f : f = EmailRecipient(m, n, x)
  OBVIOUS
<1>6. f[1] \in MailKinds /\ f[2] = m
  BY <1>5 DEF EmailRecipient, MailKinds
<1>7. /\ run' = [run EXCEPT ![r] = NextPart(r)] /\ tx' = [tx EXCEPT ![r] = With(r, {f})]
      /\ UNCHANGED <<db, mark>>
  BY <1>5 DEF AddRecipient, Write, MoveTo
<1>8. PersonFor(F, m, n, x)
  BY <1>1, <1>2, PersonStored
<1>9. PICK G : G = db.facts \cup With(r, {f}).facts
  OBVIOUS
<1>10. F \subseteq G
  BY <1>9 DEF With
<1>11. InProgress(G, tx[r].facts \cup {f}, m, n)
  BY <1>2, <1>4, <1>5, <1>8, <1>10, StoreNext
<1>12. QED
  BY <1>2, <1>6, <1>7, <1>9, <1>11, StoreMails

\* The last rows of the mail.
LEMMA FinishMails ==
    ASSUME MailsInv, NEW r \in Run, Finish(r)
    PROVE  MailsInvOf(db, tx, mark, run)'
<1> DEFINE m == run[r].mail
           F == db.facts \cup tx[r].facts
<1>1. MailsInvOf(db, tx, mark, run) /\ IngestInv
  BY DEF MailsInv
<1>2. /\ m \in Mail /\ run[r].at = "finish"
  BY <1>1, PartTypes DEF Finish, At
<1>3. Mails(db, tx[r], run[r]) /\ run[r].part = Len(Participants[m])
  BY <1>1, <1>2 DEF MailsInvOf
<1>4. InProgress(F, tx[r].facts, m, Len(Participants[m]))
  BY <1>2, <1>3 DEF Mails, Progress
<1>5. PICK E : E = {EmailAttachment(m, x) : x \in Attachments[m]} \cup EmailGrants(m)
  OBVIOUS
<1>6. MailDone(r, With(r, E), cache[r])
  BY <1>5 DEF Finish
<1>7. PICK M, L, u : M = With(r, E) /\ L = tx[r] /\ u = run[r]
  OBVIOUS
<1>8. M.facts = L.facts \cup E
  BY <1>7 DEF With
<1>9. Complete(db.facts \cup M.facts, M.facts, m)
  <2>1. PICK G : G = db.facts \cup M.facts
    OBVIOUS
  <2>2. F \subseteq G
    BY <1>7, <1>8, <2>1
  <2>3. Complete(G, tx[r].facts \cup ({EmailAttachment(m, x) : x \in Attachments[m]}
                                        \cup EmailGrants(m)), m)
    BY <1>2, <1>4, <2>2, StoreEnd
  <2>4. QED
    BY <1>5, <1>7, <1>8, <2>1, <2>3
<1>10. \A f \in E : f[2] = m
  BY <1>5, GrantFacts DEF EmailAttachment
<1>11. Mails(db, M, Idle)
  <2>1. Mails(db, L, u) /\ u.mail = m
    BY <1>3, <1>7
  <2>2. L.facts \subseteq M.facts
    BY <1>8
  <2>3. \A f \in M.facts : f \in L.facts \/ f[1] \notin MailKinds \/ f[2] = m
    BY <1>8, <1>10
  <2>4. Settled(db.facts \cup M.facts, M.facts, m)
    BY <1>9 DEF Settled
  <2>5. QED
    BY <2>1, <2>2, <2>3, <2>4, IdleStands, MailsTouch
<1>12. QED
  BY <1>6, <1>7, <1>11, MailDoneMails

\* A rollback leaves the settled mails of the savepoint, or none.
LEMMA RollbackMails ==
    ASSUME MailsInv, NEW r \in Run, NEW L \in {mark[r], NoRows},
           tx' = [tx EXCEPT ![r] = L], mark' = [mark EXCEPT ![r] = NoRows],
           run' = [run EXCEPT ![r] = Idle], UNCHANGED db
    PROVE  MailsInvOf(db, tx, mark, run)'
<1>1. MailsInvOf(db, tx, mark, run) /\ IngestInvOf(db, tx, mark, run, cache)
  BY DEF MailsInv, IngestInv
<1>2. Mails(db, L, Idle)
  BY <1>1, NoMails DEF MailsInvOf
<1>3. PICK t, k, u : t = tx' /\ k = mark' /\ u = run'
  OBVIOUS
<1>4. /\ t[r] = L /\ k[r] = NoRows /\ u[r] = Idle
      /\ \A q \in Run \ {r} : t[q] = tx[q] /\ k[q] = mark[q] /\ u[q] = run[q]
  BY <1>1, <1>3 DEF IngestInvOf
<1>5. MailsInvOf(db, t, k, u)
  BY <1>1, <1>2, <1>4, NoMails, IdleStands, MailsReplace
<1>6. QED
  BY <1>3, <1>5

\* The commit of a batch of settled mails.
LEMMA CommitBatchMails ==
    ASSUME MailsInv, NEW r \in Run, CommitBatch(r)
    PROVE  MailsInvOf(db, tx, mark, run)'
<1>1. MailsInvOf(db, tx, mark, run) /\ IngestInvOf(db, tx, mark, run, cache) /\ IngestInv
  BY DEF MailsInv, IngestInv
<1>2. run[r].at = "idle" /\ run[r] = Idle
  BY <1>1, Here DEF CommitBatch, At, Standing
<1>3. Mails(db, tx[r], Idle) /\ mark[r] = NoRows
  BY <1>1, <1>2 DEF MailsInvOf, IngestInvOf
<1>4. /\ db' = Merged(db, tx[r]) /\ tx' = [tx EXCEPT ![r] = NoRows] /\ UNCHANGED <<mark, run>>
  BY DEF CommitBatch, CommitRows, Write
<1>5. PICK t : t = tx'
  OBVIOUS
<1>6. t[r] = NoRows /\ \A q \in Run \ {r} : t[q] = tx[q]
  BY <1>1, <1>4, <1>5 DEF IngestInvOf
<1>7. Closes(tx, mark, r, t, mark)
  BY <1>3, <1>6 DEF Closes
<1>8. MailsInvOf(Merged(db, tx[r]), t, mark, run)
  BY <1>1, <1>2, <1>3, <1>7, MailsCommit
<1>9. QED
  BY <1>4, <1>5, <1>8

\* Nothing is stored to begin with.
LEMMA InitMails == Init => MailsInv
<1> SUFFICES ASSUME Init PROVE MailsInv
  OBVIOUS
<1>1. IngestInv
  BY InitIngest
<1>2. /\ db = NoRows
      /\ tx = [r \in Run |-> NoRows] /\ mark = [r \in Run |-> NoRows]
      /\ run = [r \in Run |-> Idle]
  BY DEF Init
<1>3. \A m \in Mail : Settled(db.facts, db.facts, m)
  <2>1. Mails(NoRows, NoRows, Idle)
    BY NoMails
  <2>2. NoRows.facts \cup NoRows.facts = NoRows.facts
    OBVIOUS
  <2>3. QED
    BY <1>2, <2>1, <2>2, IdleStands DEF Mails
<1>4. QED
  BY <1>1, <1>2, <1>3, NoMails, IdleStands DEF MailsInv, MailsInvOf

\* Every statement, failure and commit keeps each mail settled.
LEMMA NextMails == MailsInv /\ [Next]_vars => MailsInv'
<1> SUFFICES ASSUME MailsInv, [Next]_vars PROVE MailsInv'
  OBVIOUS
<1>1. IngestInv'
  BY NextIngest DEF MailsInv
<1>2. MailsInvOf(db, tx, mark, run)'
  <2>1. CASE UNCHANGED vars
    BY <2>1 DEF vars, MailsInv
  <2>2. CASE Next
    <3>1. PICK r \in Run :
            \/ \E m \in Mail : BeginMail(r, m)
            \/ ResolverStep(r)
            \/ InsertMessage(r) \/ AddRecipient(r) \/ Finish(r)
            \/ FailMail(r) \/ CommitBatch(r) \/ Abandon(r)
      BY <2>2 DEF Next, ResolverStep
    <3>2. CASE FailMail(r) \/ Abandon(r)
      <4>1. PICK L \in {mark[r], NoRows} : tx' = [tx EXCEPT ![r] = L]
        BY <3>2 DEF FailMail, Abandon, Write
      <4>2. /\ mark' = [mark EXCEPT ![r] = NoRows] /\ run' = [run EXCEPT ![r] = Idle]
            /\ UNCHANGED db
        BY <3>2 DEF FailMail, Abandon, MoveTo
      <4>3. QED
        BY <4>1, <4>2, RollbackMails
    <3>3. CASE \E m \in Mail : BeginMail(r, m)
      BY <3>3, BeginMailMails
    <3>4. CASE ResolverStep(r)
      BY <3>4, ResolverKeepsMails
    <3>5. CASE InsertMessage(r) \/ AddRecipient(r) \/ Finish(r) \/ CommitBatch(r)
      BY <3>5, InsertMessageMails, AddRecipientMails, FinishMails, CommitBatchMails
    <3>6. QED
      BY <3>1, <3>2, <3>3, <3>4, <3>5
  <2>3. QED
    BY <2>1, <2>2
<1>3. QED
  BY <1>1, <1>2 DEF MailsInv

\* The invariant about mails, of every reachable state.
THEOREM MailsInvariant == Spec => []MailsInv
BY InitMails, NextMails, PTL DEF Spec

\* The rows that hang on a mail have its columns.
LEMMA MailRowFacts ==
    ASSUME NEW f, IsFact(f)
    PROVE  /\ f[1] = "recipient" =>
                /\ f[2] \in Mail
                /\ \E i \in DOMAIN Participants[f[2]], x \in Id \cup {None} :
                        f = EmailRecipient(f[2], i, x)
           /\ f[1] = "attachment" =>
                f[2] \in Mail /\ \E x \in Attachments[f[2]] : f = EmailAttachment(f[2], x)
           /\ f[1] = "grant" => f[2] \in Mail /\ f \in EmailGrants(f[2])
<1>1. CASE \E m \in Mail : \E i \in DOMAIN Participants[m], x \in Id \cup {None} :
            f = EmailRecipient(m, i, x)
  BY <1>1 DEF EmailRecipient
<1>2. CASE \E m \in Mail : \E x \in Attachments[m] : f = EmailAttachment(m, x)
  BY <1>2 DEF EmailAttachment
<1>3. CASE \E m \in Mail : f \in EmailGrants(m)
  BY <1>3, GrantFacts
<1>4. CASE \/ \E a \in Address, p \in Id : f = PersonEmail(a, p)
           \/ \E h \in Host, c \in Id : f = CompanyDomain(h, c)
           \/ \E c \in Id : f = Company(c)
           \/ \E p \in Id, n \in Name : f = PersonAlias(p, n)
           \/ \E p \in Id, c \in Id : f = PersonCompany(p, c)
           \/ \E m \in Mail, x \in Id \cup {None} : f = EmailMessage(m, x)
  <2>1. f[1] \in {"email", "domain", "company", "alias", "link", "message"}
    BY <1>4 DEF PersonEmail, CompanyDomain, Company, PersonAlias, PersonCompany, EmailMessage
  <2>2. QED
    BY <2>1
<1>5. QED
  BY <1>1, <1>2, <1>3, <1>4 DEF IsFact

\* The person a row names is the one the lookup gives.
LEMMA NamedPerson ==
    ASSUME IngestInv, NEW m, NEW i, NEW x, PersonFor(db.facts, m, i, x)
    PROVE  x = ExpectedPerson(m, i)
<1>1. PICK a : a = Participants[m][i].address
  OBVIOUS
<1>2. CASE BecomesPerson(m, Participants[m][i])
  <2>1. PersonEmail(a, x) \in db.facts
    BY <1>1, <1>2 DEF PersonFor
  <2>2. /\ \A f \in db.facts : IsFact(f)
        /\ KeysUnique(db, tx)
    BY DEF IngestInv, IngestInvOf, RowsInv, IsRows
  <2>3. \A q : PersonEmail(a, q) \in db.facts => q = x
    BY <2>1, <2>2 DEF KeysUnique, Known
  <2>4. Find(db, "email", a) = x
    BY <2>1, <2>2, <2>3, FindEmail
  <2>5. QED
    BY <1>1, <1>2, <2>4 DEF ExpectedPerson
<1>3. CASE ~BecomesPerson(m, Participants[m][i])
  BY <1>3 DEF PersonFor, ExpectedPerson
<1>4. QED
  BY <1>2, <1>3

\* A mail is stored when the database has its row.
LEMMA StoredMails ==
    ASSUME IngestInv, NEW m
    PROVE  m \in Stored <=> HasMessage(db.facts, m)
<1>1. \A f \in db.facts : IsFact(f)
  BY DEF IngestInv, IngestInvOf, RowsInv, IsRows
<1>2. ASSUME NEW f \in db.facts, f[1] = "message", f[2] = m
      PROVE  HasMessage(db.facts, m)
  <2>1. f = EmailMessage(m, f[3])
    BY <1>1, <1>2, KeyedFacts
  <2>2. f[3] \in Id \cup {None}
    BY <1>1, <2>1, MessageFacts
  <2>3. QED
    BY <2>1, <2>2 DEF HasMessage
<1>3. ASSUME NEW x, EmailMessage(m, x) \in db.facts
      PROVE  m \in Stored
  <2>1. EmailMessage(m, x)[1] = "message" /\ EmailMessage(m, x)[2] = m
    BY DEF EmailMessage
  <2>2. QED
    BY <1>3, <2>1 DEF Stored
<1>4. QED
  BY <1>2, <1>3 DEF Stored, HasMessage

\* The rows of a mail that is complete are those the mail asks for.
LEMMA WholeRows ==
    ASSUME MailsInv, NEW m \in Mail, Complete(db.facts, db.facts, m)
    PROVE  /\ {f \in db.facts : f[1] = "message" /\ f[2] = m}
                    = {EmailMessage(m, ExpectedPerson(m, 1))}
           /\ {f \in db.facts : f[1] = "recipient" /\ f[2] = m}
                    = {EmailRecipient(m, i, ExpectedPerson(m, i)) : i \in 2..Len(Participants[m])}
           /\ {f \in db.facts : f[1] = "attachment" /\ f[2] = m}
                    = {EmailAttachment(m, x) : x \in Attachments[m]}
           /\ {f \in db.facts : f[1] = "grant" /\ f[2] = m} = EmailGrants(m)
<1>1. PICK n \in Nat \ {0} : n = Len(Participants[m]) /\ DOMAIN Participants[m] = 1..n
  BY PartNumbers
<1>2. IngestInv /\ \A f \in db.facts : IsFact(f)
  BY DEF MailsInv, IngestInv, IngestInvOf, RowsInv, IsRows
<1>3. StoredUpTo(db.facts, db.facts, m, n) /\ Ended(db.facts, m)
  BY <1>1 DEF Complete
<1>4. {f \in db.facts : f[1] = "message" /\ f[2] = m} = {EmailMessage(m, ExpectedPerson(m, 1))}
  <2>1. PICK x \in Id \cup {None} : EmailMessage(m, x) \in db.facts
    <3>1. n >= 1
      BY <1>1
    <3>2. QED
      BY <1>3, <3>1 DEF StoredUpTo, HasMessage
  <2>2. ASSUME NEW f \in db.facts, f[1] = "message", f[2] = m
        PROVE  f = EmailMessage(m, ExpectedPerson(m, 1))
    <3>1. f = EmailMessage(m, f[3]) /\ f[3] \in Id \cup {None}
      BY <1>2, <2>2, KeyedFacts, MessageFacts
    <3>2. PersonFor(db.facts, m, 1, f[3])
      BY <1>3, <3>1 DEF StoredUpTo
    <3>3. QED
      BY <1>2, <3>1, <3>2, NamedPerson
  <2>3. x = ExpectedPerson(m, 1)
    <3>1. PersonFor(db.facts, m, 1, x)
      BY <1>3, <2>1 DEF StoredUpTo
    <3>2. QED
      BY <1>2, <3>1, NamedPerson
  <2>4. EmailMessage(m, x)[1] = "message" /\ EmailMessage(m, x)[2] = m
    BY DEF EmailMessage
  <2>5. QED
    BY <2>1, <2>2, <2>3, <2>4
<1>5. {f \in db.facts : f[1] = "recipient" /\ f[2] = m}
            = {EmailRecipient(m, i, ExpectedPerson(m, i)) : i \in 2..n}
  <2>1. ASSUME NEW f \in db.facts, f[1] = "recipient", f[2] = m
        PROVE  \E i \in 2..n : f = EmailRecipient(m, i, ExpectedPerson(m, i))
    <3>1. PICK i \in 1..n, x \in Id \cup {None} : f = EmailRecipient(m, i, x)
      BY <1>1, <1>2, <2>1, MailRowFacts
    <3>2. 2 <= i /\ i <= n /\ PersonFor(db.facts, m, i, x)
      BY <1>1, <1>3, <3>1 DEF StoredUpTo
    <3>3. x = ExpectedPerson(m, i)
      BY <1>2, <3>2, NamedPerson
    <3>4. i \in 2..n
      BY <1>1, <3>1, <3>2
    <3>5. QED
      BY <3>1, <3>3, <3>4
  <2>2. ASSUME NEW i \in 2..n
        PROVE  /\ EmailRecipient(m, i, ExpectedPerson(m, i)) \in db.facts
               /\ EmailRecipient(m, i, ExpectedPerson(m, i))[1] = "recipient"
               /\ EmailRecipient(m, i, ExpectedPerson(m, i))[2] = m
    <3>1. PICK x \in Id \cup {None} : EmailRecipient(m, i, x) \in db.facts
      BY <1>3, <2>2 DEF StoredUpTo
    <3>2. i \in 1..n
      BY <1>1, <2>2
    <3>3. PersonFor(db.facts, m, i, x)
      BY <1>1, <1>3, <3>1, <3>2 DEF StoredUpTo
    <3>4. x = ExpectedPerson(m, i)
      BY <1>2, <3>3, NamedPerson
    <3>5. QED
      BY <3>1, <3>4 DEF EmailRecipient
  <2>3. QED
    BY <2>1, <2>2
<1>6. {f \in db.facts : f[1] = "attachment" /\ f[2] = m}
            = {EmailAttachment(m, x) : x \in Attachments[m]}
  <2>1. \A x : EmailAttachment(m, x)[1] = "attachment" /\ EmailAttachment(m, x)[2] = m
    BY DEF EmailAttachment
  <2>2. \A x \in Attachments[m] : EmailAttachment(m, x) \in db.facts
    BY <1>3 DEF Ended
  <2>3. \A f \in db.facts : f[1] = "attachment" /\ f[2] = m
            => \E x \in Attachments[m] : f = EmailAttachment(m, x)
    BY <1>2, MailRowFacts
  <2>4. QED
    BY <2>1, <2>2, <2>3
<1>7. {f \in db.facts : f[1] = "grant" /\ f[2] = m} = EmailGrants(m)
  BY <1>2, <1>3, MailRowFacts, GrantFacts DEF Ended
<1>8. QED
  BY <1>1, <1>4, <1>5, <1>6, <1>7

\* No row hangs on a mail that has none of its own.
LEMMA NoStrayRows ==
    ASSUME MailsInv, NEW m \in Mail, InProgress(db.facts, db.facts, m, 0),
           NEW kind \in {"recipient", "attachment", "grant"}
    PROVE  {f \in db.facts : f[1] = kind /\ f[2] = m} = {}
<1>1. PICK n \in Nat \ {0} : n = Len(Participants[m]) /\ DOMAIN Participants[m] = 1..n
  BY PartNumbers
<1>2. \A f \in db.facts : IsFact(f)
  BY DEF MailsInv, IngestInv, IngestInvOf, RowsInv, IsRows
<1>3. StoredUpTo(db.facts, db.facts, m, 0) /\ NotEnded(db.facts, m)
  BY DEF InProgress
<1>4. \A i \in 1..n : ~(2 <= i /\ i <= 0)
  BY <1>1
<1>5. ASSUME NEW f \in db.facts, f[1] = kind, f[2] = m
      PROVE  FALSE
  <2>1. CASE kind = "recipient"
    <3>1. PICK i \in 1..n, x \in Id \cup {None} : f = EmailRecipient(m, i, x)
      BY <1>1, <1>2, <1>5, <2>1, MailRowFacts
    <3>2. 2 <= i /\ i <= 0
      BY <1>1, <1>3, <3>1 DEF StoredUpTo
    <3>3. QED
      BY <1>4, <3>2
  <2>2. CASE kind = "attachment"
    BY <1>2, <1>3, <1>5, <2>2, MailRowFacts DEF NotEnded
  <2>3. CASE kind = "grant"
    BY <1>2, <1>3, <1>5, <2>3, MailRowFacts DEF NotEnded
  <2>4. QED
    BY <2>1, <2>2, <2>3
<1>6. QED
  BY <1>5

\* A stored mail is whole, and nothing is left of a mail that was not stored:
\* whatever fails between two of ingest_email's statements, whichever session
\* stores the mail first, its rows are committed together or not at all, each
\* with the person whose address it names (email_ingest_service.py).
THEOREM StoredMailsAreWhole == Spec => []MailIsWhole
<1>1. ASSUME MailsInv PROVE MailIsWhole
  <2> DEFINE of(m, kind) == {f \in db.facts : f[1] = kind /\ f[2] = m}
             Whole(m) ==
                /\ of(m, "message") = {EmailMessage(m, ExpectedPerson(m, 1))}
                /\ of(m, "recipient") = {EmailRecipient(m, i, ExpectedPerson(m, i))
                                            : i \in 2..Len(Participants[m])}
                /\ of(m, "attachment") = {EmailAttachment(m, x) : x \in Attachments[m]}
                /\ of(m, "grant") = EmailGrants(m)
             Absent(m) == \A kind \in {"recipient", "attachment", "grant"} : of(m, kind) = {}
  <2>1. ASSUME NEW m \in Mail
        PROVE  IF m \in Stored THEN Whole(m) ELSE Absent(m)
    <3>1. PICK n \in Nat \ {0} : n = Len(Participants[m])
      BY PartNumbers
    <3>2. IngestInv /\ Settled(db.facts, db.facts, m)
      BY <1>1 DEF MailsInv, MailsInvOf
    <3>3. CASE Complete(db.facts, db.facts, m)
      <4>1. n >= 1
        BY <3>1
      <4>2. m \in Stored
        BY <3>1, <3>2, <3>3, <4>1, StoredMails DEF Complete, StoredUpTo
      <4>3. Whole(m)
        BY <1>1, <3>3, WholeRows
      <4>4. QED
        BY <4>2, <4>3
    <3>4. CASE InProgress(db.facts, db.facts, m, 0)
      <4>1. ~(0 >= 1)
        OBVIOUS
      <4>2. m \notin Stored
        BY <3>2, <3>4, <4>1, StoredMails DEF InProgress, StoredUpTo
      <4>3. Absent(m)
        BY <1>1, <3>4, NoStrayRows
      <4>4. QED
        BY <4>2, <4>3
    <3>5. QED
      BY <3>2, <3>3, <3>4 DEF Settled
  <2>2. QED
    BY <2>1 DEF MailIsWhole
<1>2. QED
  BY <1>1, MailsInvariant, PTL

-----------------------------------------------------------------------------
(* The graph says what the mail says.                                       *)

\* The parts of the mails that become people: <<m, i>> is the i-th part of m.
Sighting == {s \in Mail \X Nat : /\ s[2] \in DOMAIN Participants[s[1]]
                                 /\ BecomesPerson(s[1], Participants[s[1]][s[2]])}
AddressAt(s) == Participants[s[1]][s[2]].address
NameAt(s) == Participants[s[1]][s[2]].name
CompanyAt(s) == ObservedCompany(AddressAt(s))

\* What the resolver owes the graph for a sighting, in the order of its steps.
Duty == {"person", "name", "alias", "seen", "link"}

\* Past the duty, a session that is at step at with its part.
Past(at, duty) ==
    \/ at \in {"store", "finish"}
    \/ duty = "person" /\ at \in {"name", "alias", "seen", "link"}
    \/ duty = "name" /\ at \in {"alias", "seen", "link"}
    \/ duty = "alias" /\ at \in {"seen", "link"}
    \/ duty = "seen" /\ at = "link"

\* The sightings whose duty is done, over the committed rows d and the rows L of
\* a session that stands at u: those of a stored mail, and those that the session
\* is past in its own.
Passes(d, L, u, duty, s) ==
    \/ HasMessage(d.facts, s[1])
    \/ HasMessage(L.facts, s[1]) /\ (u.at = "idle" \/ s[1] # u.mail)
    \/ /\ u.at # "idle" /\ s[1] = u.mail
       /\ s[2] < u.part \/ (s[2] = u.part /\ Past(u.at, duty))
Passed(d, L, u) == [duty \in Duty |-> {s \in Sighting : Passes(d, L, u, duty, s)}]

\* The rows hold what is owed for the sighting.
Kept(rows, s, duty, p) ==
    /\ duty = "name" /\ NameAt(s) # None => rows.people[p].name # None
    /\ duty = "alias" /\ NameAt(s) # None => PersonAlias(p, NameAt(s)) \in rows.facts
    /\ duty = "seen" /\ SeenAt[s[1]] # None
            => /\ rows.people[p].seen # None
               /\ rows.people[p].seen[1] <= SeenAt[s[1]]
               /\ SeenAt[s[1]] <= rows.people[p].seen[2]
    /\ duty = "link" /\ CompanyAt(s) # None
            => \E c \in Id : /\ CompanyDomain(CompanyAt(s), c) \in rows.facts
                             /\ PersonCompany(p, c) \in rows.facts
Covered(rows, s, duty) ==
    \E p \in DOMAIN rows.people :
        PersonEmail(AddressAt(s), p) \in rows.facts /\ Kept(rows, s, duty, p)

\* The sightings of a person.
Of(rows, A, p) == {s \in A : PersonEmail(AddressAt(s), p) \in rows.facts}

\* A row of a person, an alias and a link say only what a sighting said.
RowSound(rows, A, p, row) ==
    /\ Of(rows, A, p) # {}
    /\ row.name # None => \E s \in Of(rows, A, p) : NameAt(s) # None
    /\ row.seen # None => /\ \E s \in Of(rows, A, p) : SeenAt[s[1]] = row.seen[1]
                          /\ \E s \in Of(rows, A, p) : SeenAt[s[1]] = row.seen[2]
AliasSound(rows, A, p, n) == \E s \in Of(rows, A, p) : NameAt(s) = n
LinkSound(rows, A, p, c) ==
    \E s \in Of(rows, A, p) : /\ CompanyAt(s) # None
                              /\ CompanyDomain(CompanyAt(s), c) \in rows.facts
Sound(rows, A) ==
    /\ \A p \in DOMAIN rows.people : RowSound(rows, A, p, rows.people[p])
    /\ \A p \in Id, n \in Name : PersonAlias(p, n) \in rows.facts => AliasSound(rows, A, p, n)
    /\ \A p \in Id, c \in Id : PersonCompany(p, c) \in rows.facts => LinkSound(rows, A, p, c)

\* Nothing owed is missing, and nothing is there that no mail said: S[duty] is
\* the set of sightings whose duty is done.
Graph(rows, S) ==
    /\ \A duty \in Duty : \A s \in S[duty] : Covered(rows, s, duty)
    /\ Sound(rows, S["person"])

GraphInvOf(d, t, k, u) ==
    /\ Graph(d, Passed(d, NoRows, Idle))
    /\ \A r \in Run : /\ Graph(Merged(d, t[r]), Passed(d, t[r], u[r]))
                      /\ Graph(Merged(d, k[r]), Passed(d, k[r], Idle))

GraphInv == MailsInv /\ GraphInvOf(db, tx, mark, run)

\* What is owed stays paid in later versions of the rows.
LEMMA CoveredGrows ==
    ASSUME NEW a, NEW z, IsRows(a), IsRows(z), Extends(a, z), NEW s \in Sighting, NEW duty,
           Covered(a, s, duty)
    PROVE  Covered(z, s, duty)
<1>1. PICK p \in DOMAIN a.people :
            PersonEmail(AddressAt(s), p) \in a.facts /\ Kept(a, s, duty, p)
  BY DEF Covered
<1>2. a.facts \subseteq z.facts /\ p \in DOMAIN z.people /\ Widens(a.people[p], z.people[p])
  BY <1>1 DEF Extends
<1>3. a.people[p] \in PersonRow /\ z.people[p] \in PersonRow
  BY <1>1, <1>2, PeopleRows
<1>4. PICK x \in PersonRow, y \in PersonRow : x = a.people[p] /\ y = z.people[p]
  BY <1>3
<1>5. x.name # None => y.name # None
  BY <1>2, <1>4 DEF Widens
<1>6. ASSUME duty = "seen", SeenAt[s[1]] # None
      PROVE  y.seen # None /\ y.seen[1] <= SeenAt[s[1]] /\ SeenAt[s[1]] <= y.seen[2]
  <2>1. x.seen # None /\ x.seen[1] <= SeenAt[s[1]] /\ SeenAt[s[1]] <= x.seen[2]
    BY <1>1, <1>4, <1>6 DEF Kept
  <2>2. y.seen # None /\ y.seen[1] <= x.seen[1] /\ x.seen[2] <= y.seen[2]
    BY <1>2, <1>4, <2>1 DEF Widens
  <2>3. x.seen \in Nat \X Nat /\ y.seen \in Nat \X Nat
    BY <2>1, <2>2 DEF PersonRow
  <2>4. SeenAt[s[1]] \in Nat
    BY <1>6, IngestAssumption DEF Sighting
  <2>5. PICK e \in Nat, f \in Nat, g \in Nat, h \in Nat, t \in Nat :
            /\ e = x.seen[1] /\ f = x.seen[2] /\ g = y.seen[1] /\ h = y.seen[2]
            /\ t = SeenAt[s[1]]
    BY <2>3, <2>4
  <2>6. e <= t /\ t <= f /\ g <= e /\ f <= h
    BY <2>1, <2>2, <2>5
  <2>7. g <= t /\ t <= h
    BY <2>6
  <2>8. QED
    BY <2>2, <2>5, <2>7
<1>7. Kept(z, s, duty, p)
  BY <1>1, <1>2, <1>4, <1>5, <1>6 DEF Kept
<1>8. QED
  BY <1>1, <1>2, <1>7 DEF Covered

\* What a sighting said, it still said when more is known.
LEMMA SoundGrows ==
    ASSUME NEW a, NEW z, a.facts \subseteq z.facts, NEW A, NEW B, A \subseteq B, NEW p
    PROVE  /\ Of(a, A, p) \subseteq Of(z, B, p)
           /\ \A row : RowSound(a, A, p, row) => RowSound(z, B, p, row)
           /\ \A n : AliasSound(a, A, p, n) => AliasSound(z, B, p, n)
           /\ \A c : LinkSound(a, A, p, c) => LinkSound(z, B, p, c)
<1>1. Of(a, A, p) \subseteq Of(z, B, p)
  BY DEF Of
<1>2. ASSUME NEW row, RowSound(a, A, p, row) PROVE RowSound(z, B, p, row)
  BY <1>1, <1>2 DEF RowSound
<1>3. ASSUME NEW n, AliasSound(a, A, p, n) PROVE AliasSound(z, B, p, n)
  BY <1>1, <1>3 DEF AliasSound
<1>4. ASSUME NEW c, LinkSound(a, A, p, c) PROVE LinkSound(z, B, p, c)
  BY <1>1, <1>4 DEF LinkSound
<1>5. QED
  BY <1>1, <1>2, <1>3, <1>4

\* A person's row has what it had, or what the sightings A said.
RowWrites(a, z, A, p) ==
    /\ p \in DOMAIN a.people \/ Of(z, A, p) # {}
    /\ z.people[p].name # None => \/ p \in DOMAIN a.people /\ a.people[p].name # None
                                 \/ \E s \in Of(z, A, p) : NameAt(s) # None
    /\ z.people[p].seen # None =>
            \A e \in {1, 2} : \/ /\ p \in DOMAIN a.people /\ a.people[p].seen # None
                                /\ a.people[p].seen[e] = z.people[p].seen[e]
                             \/ \E s \in Of(z, A, p) : SeenAt[s[1]] = z.people[p].seen[e]

\* What is written says what the sightings A said.
SoundWrites(a, z, A) ==
    /\ \A p \in DOMAIN z.people : RowWrites(a, z, A, p)
    /\ \A p \in Id, n \in Name : PersonAlias(p, n) \in z.facts
            => PersonAlias(p, n) \in a.facts \/ AliasSound(z, A, p, n)
    /\ \A p \in Id, c \in Id : PersonCompany(p, c) \in z.facts
            => PersonCompany(p, c) \in a.facts \/ LinkSound(z, A, p, c)

\* One write, and the duties done by it.
LEMMA GraphTouch ==
    ASSUME NEW a, NEW z, IsRows(a), IsRows(z), Extends(a, z), NEW S, NEW T, Graph(a, S),
           \A duty \in Duty : T[duty] \subseteq Sighting /\ S[duty] \subseteq T[duty],
           \A duty \in Duty : \A s \in T[duty] \ S[duty] : Covered(z, s, duty),
           SoundWrites(a, z, T["person"])
    PROVE  Graph(z, T)
<1>1. "person" \in Duty
  BY DEF Duty
<1>2. a.facts \subseteq z.facts /\ S["person"] \subseteq T["person"]
  BY <1>1 DEF Extends
<1>3. Sound(a, S["person"])
  BY DEF Graph
<1>4. ASSUME NEW duty \in Duty, NEW s \in T[duty] PROVE Covered(z, s, duty)
  <2>1. s \in Sighting
    BY <1>4
  <2>2. CASE s \in S[duty]
    <3>1. Covered(a, s, duty)
      BY <2>2 DEF Graph
    <3>2. QED
      BY <2>1, <3>1, CoveredGrows
  <2>3. QED
    BY <2>2
<1>5. ASSUME NEW p \in DOMAIN z.people PROVE RowSound(z, T["person"], p, z.people[p])
  <2>1. PICK B : B = T["person"]
    OBVIOUS
  <2>2. p \in DOMAIN a.people => RowSound(z, B, p, a.people[p])
    <3>1. p \in DOMAIN a.people => RowSound(a, S["person"], p, a.people[p])
      BY <1>3 DEF Sound
    <3>2. QED
      BY <1>2, <2>1, <3>1, SoundGrows
  <2>3. RowWrites(a, z, B, p)
    BY <1>5, <2>1 DEF SoundWrites
  <2>4. Of(z, B, p) # {}
    BY <2>2, <2>3 DEF RowSound, RowWrites
  <2>5. z.people[p].name # None => \E s \in Of(z, B, p) : NameAt(s) # None
    BY <2>2, <2>3 DEF RowSound, RowWrites
  <2>6. z.people[p].seen # None
            => /\ \E s \in Of(z, B, p) : SeenAt[s[1]] = z.people[p].seen[1]
               /\ \E s \in Of(z, B, p) : SeenAt[s[1]] = z.people[p].seen[2]
    BY <2>2, <2>3 DEF RowSound, RowWrites
  <2>7. RowSound(z, B, p, z.people[p])
    BY <2>4, <2>5, <2>6 DEF RowSound
  <2>8. QED
    BY <2>1, <2>7
<1>6. ASSUME NEW p \in Id, NEW n \in Name, PersonAlias(p, n) \in z.facts
      PROVE  AliasSound(z, T["person"], p, n)
  <2>1. CASE PersonAlias(p, n) \in a.facts
    <3>1. AliasSound(a, S["person"], p, n)
      BY <1>3, <2>1 DEF Sound
    <3>2. QED
      BY <1>2, <3>1, SoundGrows
  <2>2. QED
    BY <1>6, <2>1 DEF SoundWrites
<1>7. ASSUME NEW p \in Id, NEW c \in Id, PersonCompany(p, c) \in z.facts
      PROVE  LinkSound(z, T["person"], p, c)
  <2>1. CASE PersonCompany(p, c) \in a.facts
    <3>1. LinkSound(a, S["person"], p, c)
      BY <1>3, <2>1 DEF Sound
    <3>2. QED
      BY <1>2, <3>1, SoundGrows
  <2>2. QED
    BY <1>7, <2>1 DEF SoundWrites
<1>8. QED
  BY <1>4, <1>5, <1>6, <1>7 DEF Graph, Sound

\* Two layers of rows, one over the other.
LEMMA GraphUnion ==
    ASSUME NEW a, NEW b, NEW z, IsRows(a), IsRows(b), IsRows(z), Extends(a, z), Extends(b, z),
           NEW S, NEW T, NEW U, Graph(a, S), Graph(b, T),
           \A duty \in Duty : U[duty] \subseteq Sighting /\ U[duty] = S[duty] \cup T[duty],
           z.facts = a.facts \cup b.facts,
           \A p \in DOMAIN z.people : \/ p \in DOMAIN a.people /\ z.people[p] = a.people[p]
                                      \/ p \in DOMAIN b.people /\ z.people[p] = b.people[p]
    PROVE  Graph(z, U)
<1>1. "person" \in Duty
  BY DEF Duty
<1>2. /\ a.facts \subseteq z.facts /\ S["person"] \subseteq U["person"]
      /\ b.facts \subseteq z.facts /\ T["person"] \subseteq U["person"]
  BY <1>1
<1>3. Sound(a, S["person"]) /\ Sound(b, T["person"])
  BY DEF Graph
<1>4. ASSUME NEW duty \in Duty, NEW s \in U[duty] PROVE Covered(z, s, duty)
  <2>1. s \in Sighting /\ (s \in S[duty] \/ s \in T[duty])
    BY <1>4
  <2>2. Covered(a, s, duty) \/ Covered(b, s, duty)
    BY <2>1 DEF Graph
  <2>3. QED
    BY <2>1, <2>2, CoveredGrows
<1>5. ASSUME NEW p \in DOMAIN z.people PROVE RowSound(z, U["person"], p, z.people[p])
  <2>1. RowSound(a, S["person"], p, z.people[p]) \/ RowSound(b, T["person"], p, z.people[p])
    BY <1>3 DEF Sound
  <2>2. QED
    BY <1>2, <2>1, SoundGrows
<1>6. ASSUME NEW p \in Id, NEW n \in Name, PersonAlias(p, n) \in z.facts
      PROVE  AliasSound(z, U["person"], p, n)
  <2>1. AliasSound(a, S["person"], p, n) \/ AliasSound(b, T["person"], p, n)
    BY <1>3, <1>6 DEF Sound
  <2>2. QED
    BY <1>2, <2>1, SoundGrows
<1>7. ASSUME NEW p \in Id, NEW c \in Id, PersonCompany(p, c) \in z.facts
      PROVE  LinkSound(z, U["person"], p, c)
  <2>1. LinkSound(a, S["person"], p, c) \/ LinkSound(b, T["person"], p, c)
    BY <1>3, <1>7 DEF Sound
  <2>2. QED
    BY <1>2, <2>1, SoundGrows
<1>8. QED
  BY <1>4, <1>5, <1>6, <1>7 DEF Graph, Sound

\* What is stored when two layers are: the mails of both.
LEMMA MergedMessages ==
    ASSUME NEW d, NEW L, NEW m
    PROVE  HasMessage(Merged(d, L).facts, m) <=> HasMessage(d.facts, m) \/ HasMessage(L.facts, m)
BY MergedParts DEF HasMessage

\* Nothing is stored in no rows.
LEMMA NoMessage == \A m : ~HasMessage(NoRows.facts, m)
BY EmptyRows DEF HasMessage

\* A duty done is done for a sighting.
LEMMA PassedSightings ==
    ASSUME NEW d, NEW L, NEW u, NEW duty \in Duty
    PROVE  /\ Passed(d, L, u)[duty] \subseteq Sighting
           /\ \A s \in Sighting : s \in Passed(d, L, u)[duty] <=> Passes(d, L, u, duty, s)
BY DEF Passed

\* A commit counts the mails of the transaction for everyone.
LEMMA PassedCommit ==
    ASSUME NEW d, NEW top, NEW L, NEW u, NEW duty \in Duty
    PROVE  /\ Passed(Merged(d, top), L, u)[duty]
                = Passed(d, L, u)[duty] \cup Passed(d, top, Idle)[duty]
           /\ Passed(Merged(d, top), NoRows, Idle)[duty] = Passed(d, top, Idle)[duty]
<1>1. Idle.at = "idle"
  BY IdleStands
<1>2. ASSUME NEW s \in Sighting
      PROVE  /\ Passes(Merged(d, top), L, u, duty, s)
                    <=> Passes(d, L, u, duty, s) \/ Passes(d, top, Idle, duty, s)
             /\ Passes(Merged(d, top), NoRows, Idle, duty, s) <=> Passes(d, top, Idle, duty, s)
  <2>1. HasMessage(Merged(d, top).facts, s[1])
            <=> HasMessage(d.facts, s[1]) \/ HasMessage(top.facts, s[1])
    BY MergedMessages
  <2>2. ~HasMessage(NoRows.facts, s[1])
    BY NoMessage
  <2>3. QED
    BY <1>1, <2>1, <2>2 DEF Passes
<1>3. PICK X, Y, Z, W : /\ X = Passed(Merged(d, top), L, u)[duty]
                        /\ Y = Passed(Merged(d, top), NoRows, Idle)[duty]
                        /\ Z = Passed(d, L, u)[duty] /\ W = Passed(d, top, Idle)[duty]
  OBVIOUS
<1>4. X \subseteq Sighting /\ Y \subseteq Sighting /\ Z \subseteq Sighting /\ W \subseteq Sighting
  BY <1>3, PassedSightings
<1>5. \A s \in Sighting : (s \in X <=> s \in Z \/ s \in W) /\ (s \in Y <=> s \in W)
  <2>1. ASSUME NEW s \in Sighting
        PROVE  /\ s \in X <=> Passes(Merged(d, top), L, u, duty, s)
               /\ s \in Y <=> Passes(Merged(d, top), NoRows, Idle, duty, s)
               /\ s \in Z <=> Passes(d, L, u, duty, s)
               /\ s \in W <=> Passes(d, top, Idle, duty, s)
    BY <1>3, PassedSightings
  <2>2. QED
    BY <1>2, <2>1
<1>6. X = Z \cup W /\ Y = W
  BY <1>4, <1>5
<1>7. QED
  BY <1>3, <1>6

\* What a session sees when another one's rows are committed under its own.
LEMMA GraphOver ==
    ASSUME NEW d, NEW top, NEW L, NEW u, IsRows(d), IsRows(top), IsRows(L),
           Layer(d, top), Layer(d, L), DOMAIN top.people \cap DOMAIN L.people = {},
           Graph(Merged(d, top), Passed(d, top, Idle)), Graph(Merged(d, L), Passed(d, L, u))
    PROVE  Graph(Merged(Merged(d, top), L), Passed(Merged(d, top), L, u))
<1>1. PICK e, a, z : e = Merged(d, top) /\ a = Merged(d, L) /\ z = Merged(e, L)
  OBVIOUS
<1>2. IsRows(e) /\ IsRows(a) /\ IsRows(z)
  BY <1>1, MergedRows
<1>3. Layer(e, L) /\ Extends(a, z)
  BY <1>1, LayerOverCommit
<1>4. Extends(e, z)
  BY <1>1, <1>2, <1>3, ViewExtends
<1>5. PICK S, T, U : /\ S = Passed(d, L, u) /\ T = Passed(d, top, Idle)
                     /\ U = Passed(Merged(d, top), L, u)
  OBVIOUS
<1>6. \A duty \in Duty : U[duty] \subseteq Sighting /\ U[duty] = S[duty] \cup T[duty]
  BY <1>5, PassedSightings, PassedCommit
<1>7. z.facts = a.facts \cup e.facts
  BY <1>1, MergedParts
<1>8. ASSUME NEW p \in DOMAIN z.people
      PROVE  \/ p \in DOMAIN a.people /\ z.people[p] = a.people[p]
             \/ p \in DOMAIN e.people /\ z.people[p] = e.people[p]
  <2>1. CASE p \in DOMAIN L.people
    BY <1>1, <2>1, MergedParts
  <2>2. CASE p \notin DOMAIN L.people
    <3>1. p \in DOMAIN e.people \ DOMAIN L.people
      BY <1>1, <1>8, <2>2, MergedParts
    <3>2. QED
      BY <1>1, <3>1, MergedParts
  <2>3. QED
    BY <2>1, <2>2
<1>9. Graph(a, S) /\ Graph(e, T)
  BY <1>1, <1>5
<1>10. Graph(z, U)
  BY <1>2, <1>3, <1>4, <1>6, <1>7, <1>8, <1>9, GraphUnion
<1>11. QED
  BY <1>1, <1>5, <1>10

\* The same sightings done, the same rows.
LEMMA GraphSame ==
    ASSUME NEW a, NEW S, NEW T, Graph(a, S), \A duty \in Duty : S[duty] = T[duty]
    PROVE  Graph(a, T)
BY DEF Graph, Duty

\* The commit of a transaction between two mails.
LEMMA GraphCommit ==
    ASSUME NEW d, NEW t, NEW k, NEW u, NEW r \in Run, RowsInv(d, t, k), GraphInvOf(d, t, k, u),
           Graph(Merged(d, t[r]), Passed(d, t[r], Idle)),
           NEW t1, NEW k1, NEW u1, Closes(t, k, r, t1, k1),
           u1[r] = Idle, \A q \in Run \ {r} : u1[q] = u[q]
    PROVE  GraphInvOf(Merged(d, t[r]), t1, k1, u1)
<1>1. PICK e, top : e = Merged(d, t[r]) /\ top = t[r]
  OBVIOUS
<1>2. IsRows(d) /\ IsRows(top) /\ Layer(d, top)
  BY <1>1 DEF RowsInv
<1>3. Graph(e, Passed(e, NoRows, Idle))
  <2>1. Graph(e, Passed(d, top, Idle))
    BY <1>1
  <2>2. \A duty \in Duty : Passed(d, top, Idle)[duty] = Passed(e, NoRows, Idle)[duty]
    BY <1>1, PassedCommit
  <2>3. QED
    BY <2>1, <2>2, GraphSame
<1>4. Merged(e, NoRows) = e
  BY <1>1, <1>2, MergedRows, MergedNothing
<1>5. ASSUME NEW q \in Run
      PROVE  /\ Graph(Merged(e, t1[q]), Passed(e, t1[q], u1[q]))
             /\ Graph(Merged(e, k1[q]), Passed(e, k1[q], Idle))
  <2>1. CASE q = r
    BY <1>3, <1>4, <2>1 DEF Closes
  <2>2. CASE q # r
    <3>1. t1[q] = t[q] /\ k1[q] = k[q] /\ u1[q] = u[q]
      BY <2>2 DEF Closes
    <3>2. PICK L, M, v : L = t[q] /\ M = k[q] /\ v = u[q]
      OBVIOUS
    <3>3. /\ IsRows(L) /\ IsRows(M) /\ Layer(d, L) /\ Layer(d, M)
          /\ DOMAIN M.people \subseteq DOMAIN L.people
      BY <3>2 DEF RowsInv
    <3>4. DOMAIN top.people \cap DOMAIN L.people = {}
      BY <1>1, <2>2, <3>2 DEF RowsInv
    <3>5. DOMAIN top.people \cap DOMAIN M.people = {}
      BY <3>3, <3>4
    <3>6. Graph(Merged(d, L), Passed(d, L, v)) /\ Graph(Merged(d, M), Passed(d, M, Idle))
      BY <3>2 DEF GraphInvOf
    <3>7. Graph(Merged(d, top), Passed(d, top, Idle))
      BY <1>1
    <3>8. Graph(Merged(Merged(d, top), L), Passed(Merged(d, top), L, v))
      BY <1>2, <3>3, <3>4, <3>6, <3>7, GraphOver
    <3>9. Graph(Merged(Merged(d, top), M), Passed(Merged(d, top), M, Idle))
      BY <1>2, <3>3, <3>5, <3>6, <3>7, GraphOver
    <3>10. QED
      BY <1>1, <3>1, <3>2, <3>8, <3>9
  <2>3. QED
    BY <2>1, <2>2
<1>6. GraphInvOf(e, t1, k1, u1)
  BY <1>3, <1>5 DEF GraphInvOf
<1>7. QED
  BY <1>1, <1>6

\* One session's rows and place replaced, the others as they were.
LEMMA GraphReplace ==
    ASSUME NEW d, NEW t, NEW k, NEW u, NEW r \in Run, GraphInvOf(d, t, k, u),
           NEW t1, NEW k1, NEW u1,
           \A q \in Run \ {r} : t1[q] = t[q] /\ k1[q] = k[q] /\ u1[q] = u[q],
           Graph(Merged(d, t1[r]), Passed(d, t1[r], u1[r])),
           Graph(Merged(d, k1[r]), Passed(d, k1[r], Idle))
    PROVE  GraphInvOf(d, t1, k1, u1)
<1>1. ASSUME NEW q \in Run
      PROVE  /\ Graph(Merged(d, t1[q]), Passed(d, t1[q], u1[q]))
             /\ Graph(Merged(d, k1[q]), Passed(d, k1[q], Idle))
  <2>1. CASE q = r
    BY <2>1
  <2>2. CASE q # r
    <3>1. t1[q] = t[q] /\ k1[q] = k[q] /\ u1[q] = u[q]
      BY <2>2
    <3>2. QED
      BY <3>1 DEF GraphInvOf
  <2>3. QED
    BY <2>1, <2>2
<1>2. QED
  BY <1>1 DEF GraphInvOf

\* A session without rows sees the database.
LEMMA GraphNothing ==
    ASSUME NEW d, IsRows(d), Graph(d, Passed(d, NoRows, Idle))
    PROVE  Graph(Merged(d, NoRows), Passed(d, NoRows, Idle))
BY MergedNothing

\* The session goes on with its part.
LEMMA GraphMoves ==
    ASSUME NEW d, NEW L, NEW M, NEW u, NEW w, IsRows(d), IsRows(L), IsRows(M),
           Extends(Merged(d, L), Merged(d, M)), Graph(Merged(d, L), Passed(d, L, u)),
           \A m : HasMessage(M.facts, m) <=> HasMessage(L.facts, m),
           u.at # "idle", w.at # "idle", w.mail = u.mail, w.part = u.part,
           \A duty \in Duty : Past(u.at, duty) => Past(w.at, duty),
           NEW s, s = <<u.mail, u.part>>,
           \A duty \in Duty : s \in Sighting /\ Past(w.at, duty) /\ ~Past(u.at, duty)
                                => Covered(Merged(d, M), s, duty),
           SoundWrites(Merged(d, L), Merged(d, M), Passed(d, M, w)["person"])
    PROVE  Graph(Merged(d, M), Passed(d, M, w))
<1>1. PICK a, z, S, T : /\ a = Merged(d, L) /\ z = Merged(d, M)
                        /\ S = Passed(d, L, u) /\ T = Passed(d, M, w)
  OBVIOUS
<1>2. IsRows(a) /\ IsRows(z) /\ Extends(a, z) /\ Graph(a, S) /\ SoundWrites(a, z, T["person"])
  BY <1>1, MergedRows
<1>3. ASSUME NEW duty \in Duty, NEW x \in Sighting
      PROVE  /\ Passes(d, L, u, duty, x) => Passes(d, M, w, duty, x)
             /\ Passes(d, M, w, duty, x) /\ ~Passes(d, L, u, duty, x)
                    => x = s /\ Past(w.at, duty) /\ ~Past(u.at, duty)
  <2>1. x = <<x[1], x[2]>>
    BY DEF Sighting
  <2>2. QED
    BY <2>1 DEF Passes
<1>4. ASSUME NEW duty \in Duty
      PROVE  /\ T[duty] \subseteq Sighting /\ S[duty] \subseteq T[duty]
             /\ \A x \in T[duty] \ S[duty] : Covered(z, x, duty)
  <2>1. /\ T[duty] \subseteq Sighting /\ S[duty] \subseteq Sighting
        /\ \A x \in Sighting : x \in S[duty] <=> Passes(d, L, u, duty, x)
        /\ \A x \in Sighting : x \in T[duty] <=> Passes(d, M, w, duty, x)
    BY <1>1, PassedSightings
  <2>2. S[duty] \subseteq T[duty]
    BY <1>3, <2>1
  <2>3. ASSUME NEW x \in T[duty] \ S[duty] PROVE Covered(z, x, duty)
    <3>1. x \in Sighting /\ x = s /\ Past(w.at, duty) /\ ~Past(u.at, duty)
      BY <1>3, <2>1, <2>3
    <3>2. QED
      BY <1>1, <3>1
  <2>4. QED
    BY <2>1, <2>2, <2>3
<1>5. Graph(z, T)
  BY <1>2, <1>4, GraphTouch
<1>6. QED
  BY <1>1, <1>5

\* No row of a mail is written, so the stored mails are the same.
LEMMA QuietMessages ==
    ASSUME NEW L, NEW M, L.facts \subseteq M.facts,
           \A f \in M.facts : f \in L.facts \/ f[1] \notin MailKinds
    PROVE  \A m : HasMessage(M.facts, m) <=> HasMessage(L.facts, m)
<1>1. \A m, x : EmailMessage(m, x)[1] \in MailKinds
  BY DEF EmailMessage, MailKinds
<1>2. QED
  BY <1>1 DEF HasMessage

\* A step of the resolver keeps the graph when it pays what it owes for its part
\* and writes only what the part says.
LEMMA ResolverGraph ==
    ASSUME GraphInv, IngestInv', NEW r \in Run, ResolverStep(r), NEW w,
           run' = [run EXCEPT ![r] = w],
           \A duty \in Duty : Past(run[r].at, duty) => Past(w.at, duty),
           NEW M, M = tx'[r], Extends(View(r), Merged(db, M)),
           NEW s, s = <<run[r].mail, run[r].part>>,
           \A duty \in Duty : s \in Sighting /\ Past(w.at, duty) /\ ~Past(run[r].at, duty)
                                => Covered(Merged(db, M), s, duty),
           \A A : (s \in Sighting /\ Past(w.at, "person") => s \in A)
                    => SoundWrites(View(r), Merged(db, M), A)
    PROVE  GraphInvOf(db, tx, mark, run)'
<1>1. MailsInv /\ IngestInv /\ GraphInvOf(db, tx, mark, run)
  BY DEF GraphInv, MailsInv
<1>2. UNCHANGED <<db, mark>> /\ run[r].at \notin {"idle", "finish"}
  BY <1>1, ResolverMoves
<1>3. w.at # "idle" /\ w.mail = run[r].mail /\ w.part = run[r].part
  <2>1. PICK step, c, p :
            /\ step \in ResolverGoes
            /\ run' = [run EXCEPT ![r] = [at |-> step, mail |-> run[r].mail,
                                          part |-> run[r].part, company |-> c, person |-> p]]
    BY <1>1, ResolverMoves
  <2>2. run = [q \in Run |-> run[q]]
    BY <1>1 DEF IngestInv, IngestInvOf
  <2>3. run'[r] = w
    BY <2>2
  <2>4. w = [at |-> step, mail |-> run[r].mail, part |-> run[r].part,
             company |-> c, person |-> p]
    BY <2>1, <2>2, <2>3
  <2>5. QED
    BY <2>1, <2>4 DEF ResolverGoes
<1>4. /\ tx = [q \in Run |-> tx[q]] /\ run = [q \in Run |-> run[q]]
      /\ IsRows(db) /\ IsRows(tx[r]) /\ View(r) = Merged(db, tx[r])
  BY <1>1, Here DEF IngestInv, IngestInvOf
<1>5. PICK N : /\ tx' = [tx EXCEPT ![r] = N] /\ tx[r].facts \subseteq N.facts
               /\ \A f \in N.facts : f \in tx[r].facts \/ f[1] \notin MailKinds
  BY <1>1, ResolverWrites
<1>6. N = M
  BY <1>4, <1>5
<1>7. \A m : HasMessage(M.facts, m) <=> HasMessage(tx[r].facts, m)
  BY <1>5, <1>6, QuietMessages
<1>8. IsRows(M)
  <2>1. \A q \in Run : IsRows(tx'[q])
    BY DEF IngestInv, IngestInvOf, RowsInv
  <2>2. QED
    BY <2>1
<1>9. PICK B : B = Passed(db, M, w)["person"]
  OBVIOUS
<1>10. s \in Sighting /\ Past(w.at, "person") => s \in B
  <2>1. s[1] = w.mail /\ s[2] = w.part
    BY <1>3
  <2>2. "person" \in Duty
    BY DEF Duty
  <2>3. Past(w.at, "person") => Passes(db, M, w, "person", s)
    BY <1>3, <2>1 DEF Passes
  <2>4. QED
    BY <1>9, <2>2, <2>3, PassedSightings
<1>11. SoundWrites(Merged(db, tx[r]), Merged(db, M), B)
  BY <1>4, <1>10
<1>12. PICK L, u : L = tx[r] /\ u = run[r]
  OBVIOUS
<1>13. Graph(Merged(db, L), Passed(db, L, u)) /\ Graph(Merged(db, mark[r]), Passed(db, mark[r], Idle))
  BY <1>1, <1>12 DEF GraphInvOf
<1>14. Graph(Merged(db, M), Passed(db, M, w))
  BY <1>2, <1>3, <1>4, <1>7, <1>8, <1>9, <1>11, <1>12, <1>13, GraphMoves
<1>15. PICK t, v : t = tx' /\ v = run'
  OBVIOUS
<1>16. t[r] = M /\ v[r] = w /\ \A q \in Run \ {r} : t[q] = tx[q] /\ v[q] = run[q]
  BY <1>4, <1>5, <1>6, <1>15
<1>17. GraphInvOf(db, t, mark, v)
  <2>1. \A q \in Run \ {r} : t[q] = tx[q] /\ mark[q] = mark[q] /\ v[q] = run[q]
    BY <1>16
  <2>2. Graph(Merged(db, t[r]), Passed(db, t[r], v[r]))
    BY <1>14, <1>16
  <2>3. QED
    BY <1>1, <1>13, <2>1, <2>2, GraphReplace
<1>18. QED
  BY <1>2, <1>15, <1>17

\* More facts, and the people as they were.
LEMMA MoreFacts ==
    ASSUME NEW d, NEW L, NEW M, IsRows(d), IsRows(L), M.people = L.people,
           L.facts \subseteq M.facts
    PROVE  /\ Extends(Merged(d, L), Merged(d, M))
           /\ Merged(d, M).people = Merged(d, L).people
           /\ Merged(d, M).facts = d.facts \cup M.facts
           /\ \A A : /\ \A p \in Id, n \in Name : PersonAlias(p, n) \in M.facts
                            => PersonAlias(p, n) \in L.facts \/ AliasSound(Merged(d, M), A, p, n)
                     /\ \A p \in Id, c \in Id : PersonCompany(p, c) \in M.facts
                            => PersonCompany(p, c) \in L.facts \/ LinkSound(Merged(d, M), A, p, c)
                     => SoundWrites(Merged(d, L), Merged(d, M), A)
<1>1. PICK a, z : a = Merged(d, L) /\ z = Merged(d, M)
  OBVIOUS
<1>2. /\ a.facts = d.facts \cup L.facts /\ z.facts = d.facts \cup M.facts
      /\ z.people = a.people
  BY <1>1 DEF Merged
<1>3. Extends(a, a)
  BY <1>1, MergedRows, ExtendsReflexive
<1>4. Extends(a, z)
  BY <1>2, <1>3 DEF Extends
<1>5. ASSUME NEW A,
             \A p \in Id, n \in Name : PersonAlias(p, n) \in M.facts
                => PersonAlias(p, n) \in L.facts \/ AliasSound(z, A, p, n),
             \A p \in Id, c \in Id : PersonCompany(p, c) \in M.facts
                => PersonCompany(p, c) \in L.facts \/ LinkSound(z, A, p, c)
      PROVE  SoundWrites(a, z, A)
  <2>1. \A p \in DOMAIN z.people : RowWrites(a, z, A, p)
    BY <1>2 DEF RowWrites
  <2>2. QED
    BY <1>2, <1>5, <2>1 DEF SoundWrites
<1>6. QED
  BY <1>1, <1>2, <1>4, <1>5

\* Facts of other tables.
LEMMA OtherFacts ==
    ASSUME NEW d, NEW L, NEW M, IsRows(d), IsRows(L), M.people = L.people,
           L.facts \subseteq M.facts,
           \A f \in M.facts : f \in L.facts \/ f[1] \notin {"alias", "link"}, NEW A
    PROVE  SoundWrites(Merged(d, L), Merged(d, M), A)
<1>1. /\ \A p, n : PersonAlias(p, n) \in M.facts => PersonAlias(p, n) \in L.facts
      /\ \A p, c : PersonCompany(p, c) \in M.facts => PersonCompany(p, c) \in L.facts
  BY DEF PersonAlias, PersonCompany
<1>2. QED
  BY <1>1, MoreFacts

\* The company of an address is settled: no person is touched.
LEMMA CompanyWrites ==
    ASSUME IngestInv, NEW r \in Run,
           LookupCompany(r) \/ InsertCompany(r) \/ RecordObservedHost(r)
    PROVE  /\ run[r].at \in {"company", "mint_company", "host"}
           /\ run'[r].at \in {"mint_company", "host", "person"}
           /\ \E M : /\ tx' = [tx EXCEPT ![r] = M] /\ M.people = tx[r].people
                     /\ tx[r].facts \subseteq M.facts
                     /\ \A f \in M.facts : f \in tx[r].facts \/ f[1] \notin {"alias", "link"}
<1> DEFINE Quiet(M) == /\ tx' = [tx EXCEPT ![r] = M] /\ M.people = tx[r].people
                       /\ tx[r].facts \subseteq M.facts
                       /\ \A f \in M.facts : f \in tx[r].facts \/ f[1] \notin {"alias", "link"}
           W(step, c, p) == [at |-> step, mail |-> run[r].mail, part |-> run[r].part,
                             company |-> c, person |-> p]
<1>1. tx = [tx EXCEPT ![r] = tx[r]] /\ run = [q \in Run |-> run[q]]
  BY DEF IngestInv, IngestInvOf
<1>2. UNCHANGED tx => \E M : Quiet(M)
  <2>1. UNCHANGED tx => Quiet(tx[r])
    BY <1>1
  <2>2. QED
    BY <2>1
<1>3. \A step, c, p : run' = [run EXCEPT ![r] = W(step, c, p)] => run'[r].at = step
  BY <1>1
<1>4. /\ Go(r, "person") = W("person", run[r].company, run[r].person)
      /\ Go(r, "mint_company") = W("mint_company", run[r].company, run[r].person)
      /\ \A c : /\ [Go(r, "host") EXCEPT !.company = c] = W("host", c, run[r].person)
                /\ [Go(r, "person") EXCEPT !.company = c] = W("person", c, run[r].person)
  BY GoTo
<1>5. /\ \A c, p : run' = [run EXCEPT ![r] = W("host", c, p)] => run'[r].at = "host"
      /\ \A c, p : run' = [run EXCEPT ![r] = W("person", c, p)] => run'[r].at = "person"
      /\ \A c, p : run' = [run EXCEPT ![r] = W("mint_company", c, p)]
                        => run'[r].at = "mint_company"
  BY <1>3
<1> HIDE DEF Quiet, W
<1> SUFFICES /\ run[r].at \in {"company", "mint_company", "host"}
             /\ run'[r].at \in {"mint_company", "host", "person"}
             /\ \E M : Quiet(M)
  BY DEF Quiet
<1>6. CASE LookupCompany(r)
  <2> DEFINE key == ObservedCompany(AddressOf(r))
             cached == Lookup(cache[r], CompanyKey(key))
             found == GetCompanyIdByDomain(r, key)
  <2>1. At(r, "company") /\ UNCHANGED tx
    BY <1>6 DEF LookupCompany
  <2>2. CASE key = None
    <3>1. run' = [run EXCEPT ![r] = [Go(r, "person") EXCEPT !.company = None]]
      BY <1>6, <2>2 DEF LookupCompany, MoveTo
    <3>2. run' = [run EXCEPT ![r] = W("person", None, run[r].person)]
      BY <1>4, <3>1
    <3>3. run'[r].at = "person"
      BY <1>5, <3>2
    <3>4. QED
      BY <1>2, <2>1, <3>3 DEF At
  <2>3. CASE key # None /\ cached # None
    <3>1. run' = [run EXCEPT ![r] = [Go(r, "host") EXCEPT !.company = cached]]
      BY <1>6, <2>3 DEF LookupCompany, MoveTo
    <3>2. run' = [run EXCEPT ![r] = W("host", cached, run[r].person)]
      BY <1>4, <3>1
    <3>3. run'[r].at = "host"
      BY <1>5, <3>2
    <3>4. QED
      BY <1>2, <2>1, <3>3 DEF At
  <2>4. CASE key # None /\ cached = None /\ found # None
    <3>1. run' = [run EXCEPT ![r] = [Go(r, "host") EXCEPT !.company = found]]
      BY <1>6, <2>4 DEF LookupCompany, MoveTo
    <3>2. run' = [run EXCEPT ![r] = W("host", found, run[r].person)]
      BY <1>4, <3>1
    <3>3. run'[r].at = "host"
      BY <1>5, <3>2
    <3>4. QED
      BY <1>2, <2>1, <3>3 DEF At
  <2>5. CASE key # None /\ cached = None /\ found = None
    <3>1. run' = [run EXCEPT ![r] = Go(r, "mint_company")]
      BY <1>6, <2>5 DEF LookupCompany, MoveTo
    <3>2. QED
      BY <1>2, <1>4, <1>5, <2>1, <3>1 DEF At
  <2>6. QED
    BY <2>2, <2>3, <2>4, <2>5
<1>7. CASE InsertCompany(r)
  <2>1. At(r, "mint_company")
    BY <1>7 DEF InsertCompany
  <2>2. PICK c, id : /\ LET key == ObservedCompany(AddressOf(r))
                        IN  Write(r, IF Violates(r, CompanyDomain(key, c)) THEN tx[r]
                                     ELSE With(r, {Company(c), CompanyDomain(key, c)}))
                     /\ run' = [run EXCEPT ![r] = [Go(r, "host") EXCEPT !.company = id]]
    BY <1>7 DEF InsertCompany, MoveTo
  <2>3. PICK key : key = ObservedCompany(AddressOf(r))
    OBVIOUS
  <2>4. \E M : Quiet(M)
    <3>1. CASE Violates(r, CompanyDomain(key, c))
      BY <1>1, <1>2, <2>2, <2>3, <3>1 DEF Write
    <3>2. CASE ~Violates(r, CompanyDomain(key, c))
      <4>1. PICK F : F = {Company(c), CompanyDomain(key, c)}
        OBVIOUS
      <4>2. PICK M : M = With(r, F)
        OBVIOUS
      <4>3. /\ tx' = [tx EXCEPT ![r] = M] /\ M.facts = tx[r].facts \cup F
            /\ M.people = tx[r].people
        BY <2>2, <2>3, <3>2, <4>1, <4>2 DEF Write, With
      <4>4. \A f \in F : f[1] \notin {"alias", "link"}
        BY <4>1 DEF Company, CompanyDomain
      <4>5. Quiet(M)
        BY <4>3, <4>4 DEF Quiet
      <4>6. QED
        BY <4>5
    <3>3. QED
      BY <3>1, <3>2
  <2>5. run' = [run EXCEPT ![r] = W("host", id, run[r].person)]
    BY <1>4, <2>2
  <2>6. run'[r].at = "host"
    BY <1>5, <2>5
  <2>7. QED
    BY <2>1, <2>4, <2>6 DEF At
<1>8. CASE RecordObservedHost(r)
  <2>1. At(r, "host")
    BY <1>8 DEF RecordObservedHost
  <2>2. CASE UNCHANGED tx /\ MoveTo(r, Go(r, "person"))
    BY <1>2, <1>4, <1>5, <2>1, <2>2 DEF MoveTo, At
  <2>3. CASE \E h, c, marker : Ensure(r, CompanyDomain(h, c), marker, Go(r, "person"))
    <3>1. PICK h, c, marker : Ensure(r, CompanyDomain(h, c), marker, Go(r, "person"))
      BY <2>3
    <3>2. PICK f : f = CompanyDomain(h, c)
      OBVIOUS
    <3>3. f[1] \notin {"alias", "link"}
      BY <3>2 DEF CompanyDomain
    <3>4. PICK w : w = Go(r, "person")
      OBVIOUS
    <3>5. Ensure(r, f, marker, w)
      BY <3>1, <3>2, <3>4
    <3>6. PICK M : /\ tx' = [tx EXCEPT ![r] = M] /\ M.people = tx[r].people
                   /\ M = tx[r] \/ M.facts = tx[r].facts \cup {f}
      BY <3>5, EnsureWrites
    <3>7. Quiet(M)
      BY <3>3, <3>6 DEF Quiet
    <3>8. run' = [run EXCEPT ![r] = w]
      BY <3>5, EnsureWrites
    <3>9. QED
      BY <1>4, <1>5, <2>1, <3>4, <3>7, <3>8 DEF At
  <2>4. QED
    BY <1>8, <2>2, <2>3 DEF RecordObservedHost
<1>9. QED
  BY <1>6, <1>7, <1>8

\* The company steps of a resolution keep the graph: they insert rows that no sighting
\* contradicts.
LEMMA CompanyGraph ==
    ASSUME GraphInv, IngestInv', NEW r \in Run,
           LookupCompany(r) \/ InsertCompany(r) \/ RecordObservedHost(r)
    PROVE  GraphInvOf(db, tx, mark, run)'
<1>1. IngestInv /\ ResolverStep(r)
  BY DEF GraphInv, MailsInv, ResolverStep
<1>2. /\ tx = [q \in Run |-> tx[q]] /\ run = [q \in Run |-> run[q]]
      /\ IsRows(db) /\ IsRows(tx[r]) /\ View(r) = Merged(db, tx[r])
  BY <1>1, Here DEF IngestInv, IngestInvOf
<1>3. PICK M : /\ tx' = [tx EXCEPT ![r] = M] /\ M.people = tx[r].people
               /\ tx[r].facts \subseteq M.facts
               /\ \A f \in M.facts : f \in tx[r].facts \/ f[1] \notin {"alias", "link"}
  BY <1>1, CompanyWrites
<1>4. M = tx'[r]
  BY <1>2, <1>3
<1>5. PICK w : run' = [run EXCEPT ![r] = w]
  BY <1>1, ResolverMoves
<1>6. w = run'[r]
  BY <1>2, <1>5
<1>7. \A duty \in Duty : ~Past(run[r].at, duty) /\ ~Past(w.at, duty)
  BY <1>1, <1>6, CompanyWrites DEF Past
<1>8. "person" \in Duty
  BY DEF Duty
<1>9. Extends(View(r), Merged(db, M))
  BY <1>2, <1>3, MoreFacts
<1>10. \A A : SoundWrites(View(r), Merged(db, M), A)
  BY <1>2, <1>3, OtherFacts
<1>11. PICK s : s = <<run[r].mail, run[r].part>>
  OBVIOUS
<1>12. QED
  BY <1>1, <1>4, <1>5, <1>7, <1>9, <1>10, <1>11, ResolverGraph

\* The part a session is at, as a sighting.
LEMMA PartSighting ==
    ASSUME IngestInv, NEW r \in Run, ~At(r, "idle"), NEW s, s = <<run[r].mail, run[r].part>>
    PROVE  /\ s[1] = run[r].mail /\ s[2] = run[r].part
           /\ AddressAt(s) = PartOf(run[r]).address /\ NameAt(s) = PartOf(run[r]).name
           /\ CompanyAt(s) = CompanyOf(run[r])
           /\ s \in Sighting <=> BecomesPerson(run[r].mail, PartOf(run[r]))
<1>1. run[r].mail \in Mail /\ run[r].part \in DOMAIN Participants[run[r].mail]
  BY PartTypes
<1>2. run[r].part \in Nat
  <2>1. PICK n \in Nat : DOMAIN Participants[run[r].mail] = 1..n
    BY <1>1, PartNumbers
  <2>2. QED
    BY <1>1, <2>1
<1>3. s[1] = run[r].mail /\ s[2] = run[r].part
  OBVIOUS
<1>4. QED
  BY <1>1, <1>2, <1>3 DEF AddressAt, NameAt, CompanyAt, CompanyOf, PartOf, Sighting

\* Where the session stands after a step.
LEMMA ResolverStands ==
    ASSUME IngestInv, IngestInv', NEW r \in Run, ResolverStep(r), NEW w,
           run' = [run EXCEPT ![r] = w], NEW M, M = tx'[r]
    PROVE  /\ IsRows(db) /\ IsRows(M) /\ Layer(db, M) /\ Standing(db.facts \cup M.facts, w)
           /\ w.mail = run[r].mail /\ w.part = run[r].part
<1>1. run = [q \in Run |-> run[q]]
  BY DEF IngestInv, IngestInvOf
<1>2. run'[r] = w
  BY <1>1
<1>3. w.mail = run[r].mail /\ w.part = run[r].part
  <2>1. PICK step, c, p :
            /\ step \in ResolverGoes
            /\ run' = [run EXCEPT ![r] = [at |-> step, mail |-> run[r].mail,
                                          part |-> run[r].part, company |-> c, person |-> p]]
    BY ResolverMoves
  <2>2. w = [at |-> step, mail |-> run[r].mail, part |-> run[r].part,
             company |-> c, person |-> p]
    BY <1>1, <1>2, <2>1
  <2>3. QED
    BY <2>2
<1>4. db' = db
  BY ResolverMoves
<1>5. PICK t, v : t = tx' /\ v = run'
  OBVIOUS
<1>6. RowsInv(db, t, mark') /\ StandingInv(db, t, v)
  BY <1>4, <1>5 DEF IngestInv, IngestInvOf
<1>7. IsRows(db) /\ IsRows(M) /\ Layer(db, M)
  BY <1>5, <1>6 DEF RowsInv
<1>8. Standing(db.facts \cup M.facts, w)
  BY <1>2, <1>5, <1>6 DEF StandingInv
<1>9. QED
  BY <1>3, <1>7, <1>8

\* A step at a part that becomes a person: the person's duties are paid, and
\* what is written is about the person.
LEMMA PersonGraph ==
    ASSUME GraphInv, IngestInv', NEW r \in Run, ResolverStep(r), NEW w,
           run' = [run EXCEPT ![r] = w], w.at \in PersonSettled,
           \A duty \in Duty : Past(run[r].at, duty) => Past(w.at, duty),
           NEW M, M = tx'[r], NEW z, z = Merged(db, M), Extends(View(r), z),
           NEW s \in Sighting, s = <<run[r].mail, run[r].part>>,
           NEW p, p = w.person,
           \A duty \in Duty \ {"person"} : Past(w.at, duty) /\ ~Past(run[r].at, duty)
                                => Kept(z, s, duty, p),
           \A A : s \in Of(z, A, p) => SoundWrites(View(r), z, A)
    PROVE  GraphInvOf(db, tx, mark, run)'
<1>1. IngestInv
  BY DEF GraphInv, MailsInv
<1>2. /\ IsRows(db) /\ IsRows(M) /\ Layer(db, M) /\ Standing(db.facts \cup M.facts, w)
      /\ w.mail = run[r].mail /\ w.part = run[r].part
  BY <1>1, ResolverStands
<1>3. ~At(r, "idle")
  BY <1>1, ResolverMoves DEF At
<1>4. BecomesPerson(w.mail, PartOf(w)) /\ AddressAt(s) = PartOf(w).address
  <2>1. PartOf(w) = PartOf(run[r])
    BY <1>2 DEF PartOf
  <2>2. QED
    BY <1>1, <1>2, <1>3, <2>1, PartSighting
<1>5. PersonEmail(AddressAt(s), p) \in z.facts
  <2>1. PersonEmail(PartOf(w).address, w.person) \in db.facts \cup M.facts
    BY <1>2, <1>4 DEF Standing
  <2>2. QED
    BY <1>4, <2>1, MergedParts
<1>6. p \in DOMAIN z.people
  <2>1. p \in DOMAIN db.people \cup DOMAIN M.people
    BY <1>2, <1>5, MergedParts DEF Layer
  <2>2. QED
    BY <2>1, MergedParts
<1>7. Kept(z, s, "person", p)
  BY DEF Kept
<1>8. \A duty \in Duty : s \in Sighting /\ Past(w.at, duty) /\ ~Past(run[r].at, duty)
                            => Covered(z, s, duty)
  BY <1>5, <1>6, <1>7 DEF Covered
<1>9. Past(w.at, "person")
  BY DEF Past, PersonSettled
<1>10. \A A : (s \in Sighting /\ Past(w.at, "person") => s \in A) => SoundWrites(View(r), z, A)
  BY <1>5, <1>9 DEF Of
<1>11. QED
  BY <1>8, <1>10, ResolverGraph

\* A session that finds the person of the address, or that the part has none.
LEMMA LookupPersonGraph ==
    ASSUME GraphInv, IngestInv', NEW r \in Run, LookupPerson(r)
    PROVE  GraphInvOf(db, tx, mark, run)'
<1> DEFINE W(step, p) == [at |-> step, mail |-> run[r].mail, part |-> run[r].part,
                          company |-> run[r].company, person |-> p]
<1>1. IngestInv /\ ResolverStep(r)
  BY DEF GraphInv, MailsInv, ResolverStep
<1>2. /\ tx = [q \in Run |-> tx[q]] /\ run = [q \in Run |-> run[q]]
      /\ IsRows(db) /\ IsRows(tx[r]) /\ View(r) = Merged(db, tx[r])
  BY <1>1, Here DEF IngestInv, IngestInvOf
<1>3. run[r].at = "person" /\ tx' = tx /\ ~At(r, "idle") /\ Part(r) = PartOf(run[r])
  BY <1>1, PartTypes DEF LookupPerson, At
<1>4. PICK M, z : M = tx'[r] /\ z = Merged(db, M)
  OBVIOUS
<1>5. Extends(View(r), z) /\ \A A : SoundWrites(View(r), z, A)
  BY <1>2, <1>3, <1>4, MoreFacts, OtherFacts
<1>6. PICK s : s = <<run[r].mail, run[r].part>>
  OBVIOUS
<1>7. s \in Sighting <=> BecomesPerson(run[r].mail, Part(r))
  BY <1>1, <1>3, <1>6, PartSighting
<1>8. \A duty \in Duty : ~Past(run[r].at, duty)
  BY <1>3 DEF Past
<1>9. CASE s \notin Sighting
  <2>1. run' = [run EXCEPT ![r] = W("store", None)]
    BY <1>1, <1>7, <1>9, GoTo DEF LookupPerson, MoveTo
  <2> HIDE DEF W
  <2>2. QED
    BY <1>1, <1>4, <1>5, <1>6, <1>8, <1>9, <2>1, ResolverGraph
<1>10. CASE s \in Sighting
  <2>1. \/ \E p : run' = [run EXCEPT ![r] = [Go(r, "name") EXCEPT !.person = p]]
        \/ run' = [run EXCEPT ![r] = Go(r, "mint_person")]
    BY <1>7, <1>10 DEF LookupPerson, MoveTo
  <2>2. CASE \E p : run' = [run EXCEPT ![r] = [Go(r, "name") EXCEPT !.person = p]]
    <3>1. PICK p : run' = [run EXCEPT ![r] = [Go(r, "name") EXCEPT !.person = p]]
      BY <2>2
    <3>2. PICK w : w = W("name", p)
      OBVIOUS
    <3>3. run' = [run EXCEPT ![r] = w]
      BY <1>1, <3>1, <3>2, GoTo
    <3>4. w.at = "name" /\ w.person = p /\ w.at \in PersonSettled
      BY <3>2 DEF PersonSettled
    <3>5. \A duty \in Duty \ {"person"} : ~Past(w.at, duty)
      BY <3>4 DEF Past, Duty
    <3>6. QED
      BY <1>1, <1>4, <1>5, <1>6, <1>8, <1>10, <3>3, <3>4, <3>5, PersonGraph
  <2>3. CASE run' = [run EXCEPT ![r] = Go(r, "mint_person")]
    <3>1. PICK w : w = W("mint_person", run[r].person)
      OBVIOUS
    <3>2. run' = [run EXCEPT ![r] = w]
      BY <1>1, <2>3, <3>1, GoTo
    <3>3. \A duty \in Duty : ~Past(w.at, duty)
      BY <3>1 DEF Past
    <3>4. QED
      BY <1>1, <1>4, <1>5, <1>6, <1>8, <3>2, <3>3, ResolverGraph
  <2>4. QED
    BY <2>1, <2>2, <2>3
<1>11. QED
  BY <1>9, <1>10

\* The rows M are the rows L with a row for person p, and with the facts F.
WritesRow(L, M, F, p, row) ==
    /\ M.facts = L.facts \cup F /\ M.people = Put(L.people, p, row)
    /\ \A f \in F : f[1] \notin {"alias", "link"}

\* One person's row is written.
LEMMA RowWrite ==
    ASSUME NEW d, NEW L, IsRows(d), IsRows(L), NEW F, NEW p, NEW row,
           NEW M, WritesRow(L, M, F, p, row),
           NEW a, a = Merged(d, L), NEW z, z = Merged(d, M)
    PROVE  /\ z.facts = a.facts \cup F
           /\ DOMAIN z.people = DOMAIN a.people \cup {p} /\ z.people[p] = row
           /\ p \notin DOMAIN a.people => Extends(a, z)
           /\ \A A : RowWrites(a, z, A, p) => SoundWrites(a, z, A)
<1>1. /\ M.facts = L.facts \cup F /\ DOMAIN M.people = DOMAIN L.people \cup {p}
      /\ M.people[p] = row /\ \A q \in DOMAIN L.people \ {p} : M.people[q] = L.people[q]
      /\ \A f \in F : f[1] \notin {"alias", "link"}
  BY DEF Put, WritesRow
<1>2. z.facts = a.facts \cup F /\ DOMAIN z.people = DOMAIN a.people \cup {p}
  BY <1>1, MergedParts
<1>3. z.people[p] = row
  BY <1>1, MergedParts
<1>4. ASSUME NEW q \in DOMAIN a.people \ {p} PROVE z.people[q] = a.people[q]
  <2>1. CASE q \in DOMAIN L.people
    BY <1>1, <1>4, <2>1, MergedParts
  <2>2. CASE q \notin DOMAIN L.people
    <3>1. q \in DOMAIN d.people \ DOMAIN L.people /\ q \in DOMAIN d.people \ DOMAIN M.people
      BY <1>1, <1>4, <2>2, MergedParts
    <3>2. QED
      BY <3>1, MergedParts
  <2>3. QED
    BY <2>1, <2>2
<1>5. p \notin DOMAIN a.people => Extends(a, z)
  <2>1. Extends(a, a)
    BY MergedRows, ExtendsReflexive
  <2>2. QED
    BY <1>2, <1>4, <2>1 DEF Extends
<1>6. ASSUME NEW A, RowWrites(a, z, A, p) PROVE SoundWrites(a, z, A)
  <2>1. \A q \in DOMAIN z.people : RowWrites(a, z, A, q)
    <3>1. ASSUME NEW q \in DOMAIN z.people, q # p PROVE RowWrites(a, z, A, q)
      BY <1>2, <1>4, <3>1 DEF RowWrites
    <3>2. QED
      BY <1>6, <3>1
  <2>2. /\ \A q, n : PersonAlias(q, n) \in z.facts => PersonAlias(q, n) \in a.facts
        /\ \A q, c : PersonCompany(q, c) \in z.facts => PersonCompany(q, c) \in a.facts
    BY <1>1, <1>2 DEF PersonAlias, PersonCompany
  <2>3. QED
    BY <2>1, <2>2 DEF SoundWrites
<1>7. QED
  BY <1>2, <1>3, <1>5, <1>6

\* A new person has the name of the part, or the address had an owner by then.
LEMMA InsertPersonGraph ==
    ASSUME GraphInv, IngestInv', NEW r \in Run, InsertPerson(r)
    PROVE  GraphInvOf(db, tx, mark, run)'
<1> DEFINE a == AddressOf(r)
           row == [name |-> Part(r).name, seen |-> None]
           W(x) == [at |-> "name", mail |-> run[r].mail, part |-> run[r].part,
                    company |-> run[r].company, person |-> x]
           lost(x) == Violates(r, PersonEmail(a, x))
           id(x) == IF lost(x) THEN GetPersonIdByEmail(r, a) ELSE x
<1>1. IngestInv /\ ResolverStep(r)
  BY DEF GraphInv, MailsInv, ResolverStep
<1>2. /\ tx = [q \in Run |-> tx[q]] /\ IsRows(db) /\ IsRows(tx[r]) /\ View(r) = Merged(db, tx[r])
      /\ Layer(db, tx[r]) /\ Standing(View(r).facts, run[r])
      /\ View(r).facts = db.facts \cup tx[r].facts
  BY <1>1, Here
<1>3. run[r].at = "mint_person" /\ ~At(r, "idle") /\ Part(r) = PartOf(run[r])
  BY <1>1, PartTypes DEF InsertPerson, At
<1>4. PICK x \in FreshId("email") :
        /\ Write(r, MintedPerson(r, x, lost(x)))
        /\ MoveTo(r, [Go(r, "name") EXCEPT !.person = id(x)])
  BY DEF InsertPerson
<1>5. PICK w : w = W(id(x))
  OBVIOUS
<1>6. run' = [run EXCEPT ![r] = w]
  BY <1>1, <1>4, <1>5, GoTo DEF MoveTo
<1>7. w.at = "name" /\ w.person = id(x) /\ w.at \in PersonSettled
  BY <1>5 DEF PersonSettled
<1>8. PICK s : s = <<run[r].mail, run[r].part>>
  OBVIOUS
<1>9. s \in Sighting /\ NameAt(s) = Part(r).name
  <2>1. BecomesPerson(run[r].mail, PartOf(run[r]))
    BY <1>2, <1>3 DEF Standing, PersonSteps
  <2>2. QED
    BY <1>1, <1>3, <1>8, <2>1, PartSighting
<1>10. \A duty \in Duty : ~Past(run[r].at, duty)
  BY <1>3 DEF Past
<1>11. \A duty \in Duty \ {"person"} : ~Past(w.at, duty)
  BY <1>7 DEF Past, Duty
<1>12. PICK M, z : M = tx'[r] /\ z = Merged(db, M)
  OBVIOUS
<1>13. Extends(View(r), z) /\ \A A : s \in Of(z, A, w.person) => SoundWrites(View(r), z, A)
  <2>1. CASE lost(x)
    <3>1. M = tx[r]
      BY <1>2, <1>4, <1>12, <2>1 DEF Write, MintedPerson
    <3>2. QED
      BY <1>2, <1>12, <3>1, MoreFacts, OtherFacts
  <2>2. CASE ~lost(x)
    <3>1. PICK F, L, v : F = {PersonEmail(a, x)} /\ L = tx[r] /\ v = row
      OBVIOUS
    <3>2. M = [facts |-> L.facts \cup F, people |-> Put(L.people, x, v)]
      BY <1>2, <1>4, <1>12, <2>2, <3>1 DEF Write, MintedPerson, NewPerson
    <3>3. \A f \in F : f[1] \notin {"alias", "link"}
      BY <3>1 DEF PersonEmail
    <3>4. x \notin DOMAIN View(r).people
      <4>1. \A b : PersonEmail(b, x) \notin db.facts \cup tx[r].facts
        BY <1>1, FreshEmailId DEF Known
      <4>2. x \notin DOMAIN db.people \cup DOMAIN tx[r].people
        BY <1>2, <4>1 DEF Layer
      <4>3. QED
        BY <1>2, <4>2, MergedParts
    <3>5. PICK y : y = View(r)
      OBVIOUS
    <3>6. /\ Extends(y, z) /\ z.people[x] = v
          /\ \A A : RowWrites(y, z, A, x) => SoundWrites(y, z, A)
      <4>1. IsRows(db) /\ IsRows(L) /\ y = Merged(db, L) /\ z = Merged(db, M)
            /\ x \notin DOMAIN y.people
        BY <1>2, <1>12, <3>1, <3>4, <3>5
      <4>2. QED
        <5>1. WritesRow(L, M, F, x, v)
          BY <3>2, <3>3 DEF WritesRow
        <5>2. QED
          BY <4>1, <5>1, RowWrite
    <3>7. ASSUME NEW A, s \in Of(z, A, x) PROVE RowWrites(y, z, A, x)
      <4>1. v.name = NameAt(s) /\ v.seen = None
        BY <1>9, <3>1
      <4>2. QED
        BY <3>6, <3>7, <4>1 DEF RowWrites
    <3>8. w.person = x
      BY <1>7, <2>2
    <3>9. QED
      BY <3>5, <3>6, <3>7, <3>8
  <2>3. QED
    BY <2>1, <2>2
<1> HIDE DEF W, lost, id, row, a
<1>14. QED
  BY <1>1, <1>6, <1>7, <1>8, <1>9, <1>10, <1>11, <1>12, <1>13, PersonGraph

\* A name is written when the person has none.
LEMMA BackfillGraph ==
    ASSUME GraphInv, IngestInv', NEW r \in Run, BackfillDisplayName(r)
    PROVE  GraphInvOf(db, tx, mark, run)'
<1> DEFINE name == Part(r).name
           W(step) == [at |-> step, mail |-> run[r].mail, part |-> run[r].part,
                       company |-> run[r].company, person |-> run[r].person]
<1>1. IngestInv /\ ResolverStep(r)
  BY DEF GraphInv, MailsInv, ResolverStep
<1>2. /\ tx = [q \in Run |-> tx[q]] /\ IsRows(db) /\ IsRows(tx[r]) /\ View(r) = Merged(db, tx[r])
      /\ IsRows(View(r)) /\ RowsInv(db, tx, mark) /\ CachesInv(db, tx, cache)
  BY <1>1, Here
<1>3. run[r].at = "name" /\ ~At(r, "idle") /\ Part(r) = PartOf(run[r])
  BY <1>1, PartTypes DEF BackfillDisplayName, At
<1>4. PICK p : p = run[r].person
  OBVIOUS
<1>5. p \in Id /\ p \in DOMAIN View(r).people /\ BecomesPerson(run[r].mail, PartOf(run[r]))
  BY <1>1, <1>3, <1>4, PersonStands
<1>6. PICK s : s = <<run[r].mail, run[r].part>>
  OBVIOUS
<1>7. s \in Sighting /\ NameAt(s) = name
  BY <1>1, <1>3, <1>5, <1>6, PartSighting
<1>8. PICK w : w = W(IF name = None THEN "seen" ELSE "alias")
  OBVIOUS
<1>9. run' = [run EXCEPT ![r] = w]
  <2>1. run' = [run EXCEPT ![r] = Go(r, IF name = None THEN "seen" ELSE "alias")]
    BY DEF BackfillDisplayName, MoveTo
  <2>2. QED
    BY <1>1, <1>8, <2>1, GoTo
<1>10. /\ w.at = (IF name = None THEN "seen" ELSE "alias") /\ w.person = p
       /\ w.at \in PersonSettled
  BY <1>4, <1>8 DEF PersonSettled
<1>11. /\ \A duty \in Duty : Past(run[r].at, duty) => Past(w.at, duty)
       /\ \A duty \in Duty \ {"person"} : Past(w.at, duty) /\ ~Past(run[r].at, duty)
                => duty = "name" \/ (duty = "alias" /\ name = None)
  BY <1>3, <1>10 DEF Past, Duty
<1>12. PICK M, z, y : M = tx'[r] /\ z = Merged(db, M) /\ y = View(r)
  OBVIOUS
<1>13. /\ Extends(y, z) /\ \A A : s \in Of(z, A, p) => SoundWrites(y, z, A)
       /\ name # None => z.people[p].name # None
  <2>1. CASE tx' = tx /\ (name # None => y.people[p].name # None)
    <3>1. M = tx[r] /\ z = y
      BY <1>2, <1>12, <2>1
    <3>2. QED
      BY <1>2, <1>12, <2>1, <3>1, MoreFacts, OtherFacts
  <2>2. CASE name # None /\ ~RowBusy(r, p) /\ UpdatePerson(r, p, [y.people[p] EXCEPT !.name = name])
    <3>1. y.people[p] \in PersonRow
      BY <1>2, <1>5, <1>12, PeopleRows
    <3>2. name \in Name
      BY <1>1, <1>3, <2>2, PartTypes
    <3>3. PICK v : v = [y.people[p] EXCEPT !.name = name]
      OBVIOUS
    <3>4. v \in PersonRow /\ v.name = name /\ v.seen = y.people[p].seen
      BY <3>1, <3>2, <3>3 DEF PersonRow
    <3>5. Widens(y.people[p], v)
      <4>1. Widens(y.people[p], y.people[p])
        BY <3>1, WidensReflexive
      <4>2. QED
        BY <2>2, <3>4, <4>1 DEF Widens
    <3>6. Advances(db, tx, mark, r, tx')
      BY <1>1, <1>5, <1>12, <2>2, <3>3, <3>4, <3>5, UpdateAdvances
    <3>7. Extends(y, z)
      BY <1>2, <1>12, <3>6 DEF Advances
    <3>8. PICK F, L : F = {} /\ L = tx[r]
      OBVIOUS
    <3>9. M = [facts |-> L.facts \cup F, people |-> Put(L.people, p, v)]
      BY <1>2, <1>12, <2>2, <3>3, <3>8 DEF UpdatePerson, Write
    <3>10. z.people[p] = v /\ \A A : RowWrites(y, z, A, p) => SoundWrites(y, z, A)
      <4>1. /\ IsRows(db) /\ IsRows(L) /\ y = Merged(db, L) /\ z = Merged(db, M)
            /\ \A f \in F : f[1] \notin {"alias", "link"}
        BY <1>2, <1>12, <3>8
      <4>2. QED
        <5>1. WritesRow(L, M, F, p, v)
          BY <3>9, <4>1 DEF WritesRow
        <5>2. QED
          BY <4>1, <5>1, RowWrite
    <3>11. ASSUME NEW A, s \in Of(z, A, p) PROVE RowWrites(y, z, A, p)
      BY <1>5, <1>7, <1>12, <3>4, <3>10, <3>11 DEF RowWrites
    <3>12. QED
      BY <2>2, <3>4, <3>7, <3>10, <3>11
  <2>3. \/ tx' = tx /\ (name # None => y.people[p].name # None)
        \/ name # None /\ ~RowBusy(r, p) /\ UpdatePerson(r, p, [y.people[p] EXCEPT !.name = name])
    <3>1. CASE name = None
      BY <3>1 DEF BackfillDisplayName
    <3>2. CASE name # None /\ Lookup(cache[r], NamedMarker(p)) # None
      <4>1. Claim(Merged(db, tx[r]), NamedMarker(p), Lookup(cache[r], NamedMarker(p)))
        BY <1>2, <3>2, CacheHit
      <4>2. y.people[p].name # None
        BY <1>2, <1>12, <4>1, ClaimOf
      <4>3. tx' = tx
        BY <1>4, <3>2 DEF BackfillDisplayName
      <4>4. QED
        BY <4>2, <4>3
    <3>3. CASE name # None /\ Lookup(cache[r], NamedMarker(p)) = None
      BY <1>4, <1>5, <1>12, <3>3 DEF BackfillDisplayName, BackfillMatches
    <3>4. QED
      BY <3>1, <3>2, <3>3
  <2>4. QED
    BY <2>1, <2>2, <2>3
<1>14. \A duty \in Duty \ {"person"} : Past(w.at, duty) /\ ~Past(run[r].at, duty)
            => Kept(z, s, duty, p)
  BY <1>7, <1>11, <1>13 DEF Kept
<1> HIDE DEF W, name
<1>15. QED
  BY <1>1, <1>6, <1>7, <1>9, <1>10, <1>11, <1>12, <1>13, <1>14, PersonGraph

\* An insert that is tolerated leaves the row there, on the word of the database
\* or of the cache.
LEMMA EnsureLeaves ==
    ASSUME IngestInv, NEW r \in Run, NEW f, NEW marker, NEW w, Ensure(r, f, marker, w),
           f[1] \in {"alias", "link"}, f = <<f[1], f[2], f[3]>>,
           \A rows, v : Claim(rows, marker, v) => f \in rows.facts
    PROVE  \E M : /\ tx' = [tx EXCEPT ![r] = M] /\ M.people = tx[r].people
                  /\ M = tx[r] \/ M.facts = tx[r].facts \cup {f}
                  /\ f \in db.facts \cup M.facts
<1>1. /\ tx = [q \in Run |-> tx[q]] /\ tx = [tx EXCEPT ![r] = tx[r]]
      /\ View(r) = Merged(db, tx[r]) /\ View(r).facts = db.facts \cup tx[r].facts
      /\ RowsInv(db, tx, mark) /\ CachesInv(db, tx, cache)
  BY Here DEF IngestInv, IngestInvOf
<1>2. CASE Lookup(cache[r], marker) # None
  <2>1. Claim(Merged(db, tx[r]), marker, Lookup(cache[r], marker))
    BY <1>1, <1>2, CacheHit
  <2>2. f \in View(r).facts
    BY <1>1, <2>1
  <2>3. tx' = tx
    BY <1>2 DEF Ensure
  <2>4. QED
    BY <1>1, <2>2, <2>3
<1>3. CASE Lookup(cache[r], marker) = None /\ Violates(r, f)
  <2>1. f \in View(r).facts
    BY <1>3, PlainConflict DEF Violates
  <2>2. tx' = [tx EXCEPT ![r] = tx[r]]
    BY <1>3 DEF Ensure, Write
  <2>3. QED
    BY <1>1, <2>1, <2>2
<1>4. CASE Lookup(cache[r], marker) = None /\ ~Violates(r, f)
  <2>1. PICK M : M = With(r, {f})
    OBVIOUS
  <2>2. tx' = [tx EXCEPT ![r] = M]
    BY <1>4, <2>1 DEF Ensure, Write
  <2>3. M.people = tx[r].people /\ M.facts = tx[r].facts \cup {f}
    BY <2>1 DEF With
  <2>4. QED
    BY <2>2, <2>3
<1>5. QED
  BY <1>2, <1>3, <1>4

\* The name the part shows is an alias of its person.
LEMMA AddAliasGraph ==
    ASSUME GraphInv, IngestInv', NEW r \in Run, AddAlias(r)
    PROVE  GraphInvOf(db, tx, mark, run)'
<1> DEFINE W(step) == [at |-> step, mail |-> run[r].mail, part |-> run[r].part,
                       company |-> run[r].company, person |-> run[r].person]
<1>1. IngestInv /\ ResolverStep(r)
  BY DEF GraphInv, MailsInv, ResolverStep
<1>2. /\ tx = [q \in Run |-> tx[q]] /\ IsRows(db) /\ IsRows(tx[r]) /\ View(r) = Merged(db, tx[r])
      /\ Standing(View(r).facts, run[r])
  BY <1>1, Here
<1>3. run[r].at = "alias" /\ ~At(r, "idle") /\ Part(r) = PartOf(run[r])
  BY <1>1, PartTypes DEF AddAlias, At
<1>4. PICK p, n : p = run[r].person /\ n = Part(r).name
  OBVIOUS
<1>5. p \in Id /\ BecomesPerson(run[r].mail, PartOf(run[r])) /\ n \in Name /\ n # None
  BY <1>1, <1>2, <1>3, <1>4, PersonStands, PartTypes DEF Standing
<1>6. PICK s : s = <<run[r].mail, run[r].part>>
  OBVIOUS
<1>7. s \in Sighting /\ NameAt(s) = n
  BY <1>1, <1>3, <1>4, <1>5, <1>6, PartSighting
<1>8. PICK w, f, marker : w = W("seen") /\ f = PersonAlias(p, n) /\ marker = AliasMarker(p, n)
  OBVIOUS
<1>9. Ensure(r, f, marker, w)
  <2>1. Go(r, "seen") = w
    BY <1>1, <1>8, GoTo
  <2>2. QED
    BY <1>4, <1>8, <2>1 DEF AddAlias
<1>10. run' = [run EXCEPT ![r] = w]
  BY <1>9 DEF Ensure, MoveTo
<1>11. w.at = "seen" /\ w.person = p /\ w.at \in PersonSettled
  BY <1>4, <1>8 DEF PersonSettled
<1>12. /\ \A duty \in Duty : Past(run[r].at, duty) => Past(w.at, duty)
       /\ \A duty \in Duty \ {"person"} : Past(w.at, duty) /\ ~Past(run[r].at, duty)
                => duty = "alias"
  BY <1>3, <1>11 DEF Past, Duty
<1>13. PICK M : /\ tx' = [tx EXCEPT ![r] = M] /\ M.people = tx[r].people
                /\ M = tx[r] \/ M.facts = tx[r].facts \cup {f}
                /\ f \in db.facts \cup M.facts
  <2>1. f[1] \in {"alias", "link"} /\ f = <<f[1], f[2], f[3]>>
    BY <1>8 DEF PersonAlias
  <2>2. \A rows, v : Claim(rows, marker, v) => f \in rows.facts
    BY <1>8, ClaimOf
  <2>3. QED
    BY <1>1, <1>9, <2>1, <2>2, EnsureLeaves
<1>14. PICK z, y : z = Merged(db, M) /\ y = View(r)
  OBVIOUS
<1>15. /\ M = tx'[r] /\ Extends(y, z) /\ f \in z.facts
  <2>1. z.facts = db.facts \cup M.facts
    BY <1>14, MergedParts
  <2>2. QED
    BY <1>2, <1>13, <1>14, <2>1, MoreFacts
<1>16. ASSUME NEW A, s \in Of(z, A, p) PROVE SoundWrites(y, z, A)
  <2>1. AliasSound(z, A, p, n)
    BY <1>7, <1>16 DEF AliasSound
  <2>2. ASSUME NEW q \in Id, NEW x \in Name, PersonAlias(q, x) \in M.facts,
               PersonAlias(q, x) \notin tx[r].facts
        PROVE  q = p /\ x = n
    <3>1. PersonAlias(q, x) = f
      BY <1>13, <2>2
    <3>2. QED
      BY <1>8, <3>1 DEF PersonAlias
  <2>3. \A q, c : PersonCompany(q, c) \in M.facts => PersonCompany(q, c) \in tx[r].facts
    BY <1>8, <1>13 DEF PersonAlias, PersonCompany
  <2>4. tx[r].facts \subseteq M.facts
    BY <1>13
  <2>5. QED
    BY <1>2, <1>13, <1>14, <2>1, <2>2, <2>3, <2>4, MoreFacts
<1>17. \A duty \in Duty \ {"person"} : Past(w.at, duty) /\ ~Past(run[r].at, duty)
            => Kept(z, s, duty, p)
  BY <1>7, <1>8, <1>12, <1>15 DEF Kept
<1> HIDE DEF W
<1>18. QED
  BY <1>1, <1>6, <1>7, <1>10, <1>11, <1>12, <1>14, <1>15, <1>16, <1>17, PersonGraph

\* The company of the part's address is linked with its person.
LEMMA LinkGraph ==
    ASSUME GraphInv, IngestInv', NEW r \in Run, LinkPersonCompany(r)
    PROVE  GraphInvOf(db, tx, mark, run)'
<1> DEFINE W(step) == [at |-> step, mail |-> run[r].mail, part |-> run[r].part,
                       company |-> run[r].company, person |-> run[r].person]
<1>1. IngestInv /\ ResolverStep(r)
  BY DEF GraphInv, MailsInv, ResolverStep
<1>2. /\ tx = [q \in Run |-> tx[q]] /\ IsRows(db) /\ IsRows(tx[r]) /\ View(r) = Merged(db, tx[r])
      /\ Standing(View(r).facts, run[r]) /\ View(r).facts = db.facts \cup tx[r].facts
      /\ \A g \in View(r).facts : IsFact(g)
  BY <1>1, Here
<1>3. run[r].at = "link" /\ ~At(r, "idle")
  BY DEF LinkPersonCompany, At
<1>4. PICK p, c : p = run[r].person /\ c = run[r].company
  OBVIOUS
<1>5. p \in Id /\ BecomesPerson(run[r].mail, PartOf(run[r]))
  BY <1>1, <1>3, <1>4, PersonStands
<1>6. PICK s : s = <<run[r].mail, run[r].part>>
  OBVIOUS
<1>7. s \in Sighting /\ CompanyAt(s) = CompanyOf(run[r])
  BY <1>1, <1>3, <1>5, <1>6, PartSighting
<1>8. /\ CompanyAt(s) = None => c = None
      /\ CompanyAt(s) # None => CompanyDomain(CompanyAt(s), c) \in View(r).facts
  BY <1>2, <1>3, <1>4, <1>7 DEF Standing, CompanySettled
<1>9. PICK w, f, marker : w = W("store") /\ f = PersonCompany(p, c) /\ marker = LinkMarker(p, c)
  OBVIOUS
<1>10. Go(r, "store") = w
  BY <1>1, <1>9, GoTo
<1>11. w.at = "store" /\ w.person = p /\ w.at \in PersonSettled
  BY <1>4, <1>9 DEF PersonSettled
<1>12. /\ \A duty \in Duty : Past(run[r].at, duty) => Past(w.at, duty)
       /\ \A duty \in Duty \ {"person"} : Past(w.at, duty) /\ ~Past(run[r].at, duty)
                => duty = "link"
  BY <1>3, <1>11 DEF Past, Duty
<1>13. run' = [run EXCEPT ![r] = w]
       /\ \E M : /\ tx' = [tx EXCEPT ![r] = M] /\ M.people = tx[r].people
                 /\ M = tx[r] \/ (c # None /\ M.facts = tx[r].facts \cup {f})
                 /\ c # None => f \in db.facts \cup M.facts
  <2>1. CASE c = None
    <3>1. run' = [run EXCEPT ![r] = w] /\ tx' = tx
      BY <1>4, <1>10, <2>1 DEF LinkPersonCompany, MoveTo
    <3>2. tx' = [tx EXCEPT ![r] = tx[r]]
      BY <1>2, <3>1
    <3>3. QED
      BY <2>1, <3>1, <3>2
  <2>2. CASE c # None
    <3>1. Ensure(r, f, marker, w)
      BY <1>4, <1>9, <1>10, <2>2 DEF LinkPersonCompany
    <3>2. f[1] \in {"alias", "link"} /\ f = <<f[1], f[2], f[3]>>
      BY <1>9 DEF PersonCompany
    <3>3. \A rows, v : Claim(rows, marker, v) => f \in rows.facts
      BY <1>9, ClaimOf
    <3>4. run' = [run EXCEPT ![r] = w]
      BY <3>1 DEF Ensure, MoveTo
    <3>5. QED
      BY <1>1, <2>2, <3>1, <3>2, <3>3, <3>4, EnsureLeaves
  <2>3. QED
    BY <2>1, <2>2
<1>14. PICK M : /\ tx' = [tx EXCEPT ![r] = M] /\ M.people = tx[r].people
                /\ M = tx[r] \/ (c # None /\ M.facts = tx[r].facts \cup {f})
                /\ c # None => f \in db.facts \cup M.facts
  BY <1>13
<1>15. PICK z, y : z = Merged(db, M) /\ y = View(r)
  OBVIOUS
<1>16. /\ M = tx'[r] /\ Extends(y, z)
       /\ c # None => f \in z.facts
  <2>1. z.facts = db.facts \cup M.facts
    BY <1>15, MergedParts
  <2>2. tx[r].facts \subseteq M.facts
    BY <1>14
  <2>3. Extends(y, z)
    BY <1>2, <1>14, <1>15, <2>2, MoreFacts
  <2>4. QED
    BY <1>2, <1>14, <2>1, <2>3
<1>17. y.facts \subseteq z.facts
  BY <1>16 DEF Extends
<1>18. CompanyAt(s) # None => c \in Id /\ CompanyDomain(CompanyAt(s), c) \in z.facts
  BY <1>2, <1>8, <1>15, <1>17, DomainFacts
<1>19. c # None => CompanyAt(s) # None
  BY <1>8
<1>20. ASSUME NEW A, s \in Of(z, A, p) PROVE SoundWrites(y, z, A)
  <2>1. c # None => LinkSound(z, A, p, c)
    BY <1>18, <1>19, <1>20 DEF LinkSound
  <2>2. ASSUME NEW q \in Id, NEW x \in Id, PersonCompany(q, x) \in M.facts,
               PersonCompany(q, x) \notin tx[r].facts
        PROVE  q = p /\ x = c /\ c # None
    <3>1. PersonCompany(q, x) = f /\ c # None
      BY <1>14, <2>2
    <3>2. QED
      BY <1>9, <3>1 DEF PersonCompany
  <2>3. \A q, n : PersonAlias(q, n) \in M.facts => PersonAlias(q, n) \in tx[r].facts
    BY <1>9, <1>14 DEF PersonAlias, PersonCompany
  <2>4. tx[r].facts \subseteq M.facts
    BY <1>14
  <2>5. QED
    BY <1>2, <1>14, <1>15, <2>1, <2>2, <2>3, <2>4, MoreFacts
<1>21. CompanyAt(s) # None => c # None
  BY <1>18, IngestAssumption DEF Id
<1>22. \A duty \in Duty \ {"person"} : Past(w.at, duty) /\ ~Past(run[r].at, duty)
            => Kept(z, s, duty, p)
  BY <1>9, <1>12, <1>16, <1>18, <1>21 DEF Kept
<1>23. run' = [run EXCEPT ![r] = w]
  BY <1>13
<1>24. M = tx'[r] /\ Extends(y, z)
  BY <1>16
<1> HIDE DEF W
<1>25. QED
  BY <1>1, <1>6, <1>7, <1>11, <1>12, <1>15, <1>20, <1>22, <1>23, <1>24, PersonGraph

\* The ends of a widened window are the old ones or the new time.
LEMMA WidenedEnds ==
    ASSUME NEW old \in PersonRow, NEW t \in Nat, NEW e \in {1, 2}
    PROVE  LET row == Widened(old, t)
           IN  (old.seen # None /\ old.seen[e] = row.seen[e]) \/ t = row.seen[e]
<1>1. CASE old.seen = None
  <2>1. Widened(old, t).seen = <<t, t>>
    BY <1>1 DEF Widened, PersonRow
  <2>2. QED
    BY <2>1
<1>2. CASE old.seen # None
  <2>1. PICK a \in Nat, b \in Nat : old.seen = <<a, b>>
    BY <1>2 DEF PersonRow
  <2>2. Widened(old, t).seen = <<Lesser(a, t), Greater(b, t)>>
    BY <1>2, <2>1 DEF Widened, PersonRow
  <2>3. Lesser(a, t) \in {a, t} /\ Greater(b, t) \in {b, t}
    BY DEF Lesser, Greater
  <2>4. PICK x : x = Widened(old, t).seen
    OBVIOUS
  <2>5. /\ x[1] = Lesser(a, t) /\ x[2] = Greater(b, t)
        /\ old.seen[1] = a /\ old.seen[2] = b
    BY <2>1, <2>2, <2>4
  <2>6. QED
    BY <1>2, <2>3, <2>4, <2>5
<1>3. QED
  BY <1>1, <1>2

\* The window of the person covers the mail, widened or on the word of the cache.
LEMMA ExtendSeenGraph ==
    ASSUME GraphInv, IngestInv', NEW r \in Run, ExtendSeenWindow(r)
    PROVE  GraphInvOf(db, tx, mark, run)'
<1> DEFINE W(step) == [at |-> step, mail |-> run[r].mail, part |-> run[r].part,
                       company |-> run[r].company, person |-> run[r].person]
<1>1. IngestInv /\ ResolverStep(r)
  BY DEF GraphInv, MailsInv, ResolverStep
<1>2. /\ tx = [q \in Run |-> tx[q]] /\ IsRows(db) /\ IsRows(tx[r]) /\ View(r) = Merged(db, tx[r])
      /\ IsRows(View(r)) /\ RowsInv(db, tx, mark) /\ CachesInv(db, tx, cache)
  BY <1>1, Here
<1>3. run[r].at = "seen" /\ ~At(r, "idle")
  BY DEF ExtendSeenWindow, At
<1>4. PICK p, t : p = run[r].person /\ t = SeenAt[run[r].mail]
  OBVIOUS
<1>5. p \in Id /\ p \in DOMAIN View(r).people /\ BecomesPerson(run[r].mail, PartOf(run[r]))
  BY <1>1, <1>3, <1>4, PersonStands
<1>6. PICK s : s = <<run[r].mail, run[r].part>>
  OBVIOUS
<1>7. s \in Sighting /\ SeenAt[s[1]] = t /\ (t # None => t \in Nat)
  <2>1. s \in Sighting /\ s[1] = run[r].mail
    BY <1>1, <1>3, <1>5, <1>6, PartSighting
  <2>2. s[1] \in Mail
    BY <2>1 DEF Sighting
  <2>3. QED
    BY <1>4, <2>1, <2>2, IngestAssumption
<1>8. PICK w : w = W("link")
  OBVIOUS
<1>9. run' = [run EXCEPT ![r] = w]
  BY <1>1, <1>8, GoTo DEF ExtendSeenWindow, MoveTo
<1>10. w.at = "link" /\ w.person = p /\ w.at \in PersonSettled
  BY <1>4, <1>8 DEF PersonSettled
<1>11. /\ \A duty \in Duty : Past(run[r].at, duty) => Past(w.at, duty)
       /\ \A duty \in Duty \ {"person"} : Past(w.at, duty) /\ ~Past(run[r].at, duty)
                => duty = "seen"
  BY <1>3, <1>10 DEF Past, Duty
<1>12. PICK M, z, y : M = tx'[r] /\ z = Merged(db, M) /\ y = View(r)
  OBVIOUS
<1>13. /\ Extends(y, z) /\ \A A : s \in Of(z, A, p) => SoundWrites(y, z, A)
       /\ t # None => /\ z.people[p].seen # None
                      /\ z.people[p].seen[1] <= t /\ t <= z.people[p].seen[2]
  <2>0. CASE t = None
    <3>1. M = tx[r] /\ z = y
      <4>1. tx' = tx
        BY <1>4, <2>0 DEF ExtendSeenWindow
      <4>2. QED
        BY <1>2, <1>12, <4>1
    <3>2. Extends(y, z) /\ \A A : SoundWrites(y, z, A)
      BY <1>2, <1>12, <3>1, MoreFacts, OtherFacts
    <3>3. QED
      BY <2>0, <3>2
  <2>1. CASE t # None /\ SeenWindowCovers(cache[r], p, t)
    <3>1. PICK window : window = Lookup(cache[r], SeenWindow(p))
      OBVIOUS
    <3>2. window # None /\ window[1] <= t /\ t <= window[2]
      BY <2>1, <3>1 DEF SeenWindowCovers
    <3>3. Claim(Merged(db, tx[r]), SeenWindow(p), window)
      BY <1>2, <3>1, <3>2, CacheHit
    <3>4. /\ window \in Nat \X Nat /\ y.people[p].seen # None
          /\ y.people[p].seen[1] <= window[1] /\ window[2] <= y.people[p].seen[2]
      BY <1>2, <1>12, <3>3, ClaimOf
    <3>5. y.people[p].seen \in Nat \X Nat
      <4>1. y.people[p] \in PersonRow
        BY <1>2, <1>5, <1>12, PeopleRows
      <4>2. QED
        BY <3>4, <4>1 DEF PersonRow
    <3>6. PICK e \in Nat, f \in Nat, g \in Nat, h \in Nat :
                /\ e = window[1] /\ f = window[2]
                /\ g = y.people[p].seen[1] /\ h = y.people[p].seen[2]
      BY <3>4, <3>5
    <3>7. g <= t /\ t <= h
      BY <1>7, <2>1, <3>2, <3>4, <3>6
    <3>8. M = tx[r] /\ z = y
      <4>1. tx' = tx
        BY <1>4, <2>1 DEF ExtendSeenWindow
      <4>2. QED
        BY <1>2, <1>12, <4>1
    <3>9. Extends(y, z) /\ \A A : SoundWrites(y, z, A)
      BY <1>2, <1>12, <3>8, MoreFacts, OtherFacts
    <3>10. QED
      BY <3>4, <3>6, <3>7, <3>8, <3>9
  <2>2. CASE t # None /\ ~SeenWindowCovers(cache[r], p, t)
    <3>1. PICK old, v : old = y.people[p] /\ v = Widened(old, t)
      OBVIOUS
    <3>2. old \in PersonRow
      BY <1>2, <1>5, <1>12, <3>1, PeopleRows
    <3>3. /\ v \in PersonRow /\ v.seen \in Nat \X Nat /\ v.name = old.name /\ Widens(old, v)
          /\ v.seen[1] <= t /\ t <= v.seen[2]
      BY <1>7, <2>2, <3>1, <3>2, WidenedWindow
    <3>4. ~RowBusy(r, p) /\ UpdatePerson(r, p, v)
      BY <1>4, <1>5, <1>12, <2>2, <3>1 DEF ExtendSeenWindow
    <3>5. Advances(db, tx, mark, r, tx')
      BY <1>1, <1>5, <1>12, <3>1, <3>3, <3>4, UpdateAdvances
    <3>6. Extends(y, z)
      BY <1>2, <1>12, <3>5 DEF Advances
    <3>7. PICK F, L : F = {} /\ L = tx[r]
      OBVIOUS
    <3>8. WritesRow(L, M, F, p, v)
      <4>1. M = [facts |-> L.facts \cup F, people |-> Put(L.people, p, v)]
        BY <1>2, <1>12, <3>4, <3>7 DEF UpdatePerson, Write
      <4>2. QED
        BY <3>7, <4>1 DEF WritesRow
    <3>9. z.people[p] = v /\ \A A : RowWrites(y, z, A, p) => SoundWrites(y, z, A)
      <4>1. IsRows(db) /\ IsRows(L) /\ y = Merged(db, L) /\ z = Merged(db, M)
        BY <1>2, <1>12, <3>7
      <4>2. QED
        BY <3>8, <4>1, RowWrite
    <3>10. ASSUME NEW A, s \in Of(z, A, p) PROVE RowWrites(y, z, A, p)
      <4>1. \A e \in {1, 2} : \/ old.seen # None /\ old.seen[e] = v.seen[e]
                              \/ SeenAt[s[1]] = v.seen[e]
        BY <1>7, <2>2, <3>1, <3>2, WidenedEnds
      <4>2. QED
        BY <1>5, <1>12, <3>1, <3>3, <3>9, <3>10, <4>1 DEF RowWrites
    <3>11. v.seen # None
      BY <3>3, IngestAssumption
    <3>12. QED
      BY <3>3, <3>6, <3>9, <3>10, <3>11
  <2>3. QED
    BY <2>0, <2>1, <2>2
<1>14. \A duty \in Duty \ {"person"} : Past(w.at, duty) /\ ~Past(run[r].at, duty)
            => Kept(z, s, duty, p)
  BY <1>7, <1>11, <1>13 DEF Kept
<1> HIDE DEF W
<1>15. Extends(View(r), z) /\ \A A : s \in Of(z, A, p) => SoundWrites(View(r), z, A)
  BY <1>12, <1>13
<1>16. M = tx'[r] /\ z = Merged(db, M) /\ p = w.person
  BY <1>10, <1>12
<1>17. QED
  BY <1>1, <1>6, <1>7, <1>9, <1>10, <1>11, <1>14, <1>15, <1>16, PersonGraph

\* Every step of the resolver keeps the graph.
LEMMA ResolverKeepsGraph ==
    ASSUME GraphInv, IngestInv', NEW r \in Run, ResolverStep(r)
    PROVE  GraphInvOf(db, tx, mark, run)'
BY CompanyGraph, LookupPersonGraph, InsertPersonGraph, BackfillGraph, AddAliasGraph,
   ExtendSeenGraph, LinkGraph DEF ResolverStep

\* Rows of a mail say nothing new about persons.
LEMMA MailGraph ==
    ASSUME NEW d, NEW L, NEW M, IsRows(d), IsRows(L), IsRows(M), M.people = L.people,
           L.facts \subseteq M.facts, \A f \in M.facts : f \in L.facts \/ f[1] \notin {"alias", "link"},
           NEW u, NEW w, Graph(Merged(d, L), Passed(d, L, u)),
           \A duty \in Duty, s \in Sighting : Passes(d, L, u, duty, s) <=> Passes(d, M, w, duty, s)
    PROVE  Graph(Merged(d, M), Passed(d, M, w))
<1>1. PICK a, z, S, T : /\ a = Merged(d, L) /\ z = Merged(d, M)
                        /\ S = Passed(d, L, u) /\ T = Passed(d, M, w)
  OBVIOUS
<1>2. IsRows(a) /\ IsRows(z) /\ Extends(a, z) /\ Graph(a, S)
  BY <1>1, MergedRows, MoreFacts
<1>3. SoundWrites(a, z, T["person"])
  BY <1>1, OtherFacts
<1>4. ASSUME NEW duty \in Duty
      PROVE  T[duty] \subseteq Sighting /\ S[duty] = T[duty]
  <2>1. PICK X, Y : X = S[duty] /\ Y = T[duty]
    OBVIOUS
  <2>2. /\ X \subseteq Sighting /\ Y \subseteq Sighting
        /\ \A s \in Sighting : s \in X <=> Passes(d, L, u, duty, s)
        /\ \A s \in Sighting : s \in Y <=> Passes(d, M, w, duty, s)
    BY <1>1, <2>1, PassedSightings
  <2>3. X = Y
    BY <2>2
  <2>4. QED
    BY <2>1, <2>2, <2>3
<1>5. Graph(z, T)
  BY <1>2, <1>3, <1>4, GraphTouch
<1>6. QED
  BY <1>1, <1>5

\* A part that is stored passes to the next.
LEMMA PassesStore ==
    ASSUME NEW d, NEW L, NEW M, NEW u, NEW w, u.at = "store", w.mail = u.mail, u.part \in Nat,
           (w.at = "finish" /\ w.part = u.part) \/ (w.at = "company" /\ w.part = u.part + 1),
           \A m : m # u.mail => (HasMessage(M.facts, m) <=> HasMessage(L.facts, m)),
           NEW duty \in Duty, NEW s \in Sighting
    PROVE  Passes(d, L, u, duty, s) <=> Passes(d, M, w, duty, s)
<1>1. s[2] \in Nat
  BY DEF Sighting
<1>2. u.at # "idle" /\ w.at # "idle"
  OBVIOUS
<1>3. Past(u.at, duty) /\ Past("finish", duty) /\ ~Past("company", duty)
  BY DEF Past
<1>4. PICK i \in Nat, n \in Nat : i = s[2] /\ n = u.part
  BY <1>1
<1>5. s[2] < w.part \/ (s[2] = w.part /\ Past(w.at, duty)) <=> i < n \/ i = n
  <2>1. CASE w.at = "finish" /\ w.part = n
    BY <1>3, <1>4, <2>1
  <2>2. CASE w.at = "company" /\ w.part = n + 1
    <3>1. ~Past(w.at, duty)
      BY <1>3, <2>2
    <3>2. i < n + 1 <=> i < n \/ i = n
      BY <1>4
    <3>3. QED
      BY <1>4, <2>2, <3>1, <3>2
  <2>3. QED
    BY <1>4, <2>1, <2>2
<1>6. s[2] < u.part \/ (s[2] = u.part /\ Past(u.at, duty)) <=> i < n \/ i = n
  BY <1>3, <1>4
<1>7. QED
  BY <1>2, <1>5, <1>6 DEF Passes

\* A mail whose last part is stored passes to the stored ones.
LEMMA PassesEnd ==
    ASSUME NEW d, NEW L, NEW M, NEW u, u.at = "finish", u.part = Len(Participants[u.mail]),
           HasMessage(L.facts, u.mail), \A m : HasMessage(M.facts, m) <=> HasMessage(L.facts, m),
           NEW duty \in Duty, NEW s \in Sighting
    PROVE  Passes(d, L, u, duty, s) <=> Passes(d, M, Idle, duty, s)
<1>1. Idle.at = "idle"
  BY IdleStands
<1>2. s[1] = u.mail => s[2] < u.part \/ s[2] = u.part
  <2>1. s[1] \in Mail /\ s[2] \in DOMAIN Participants[s[1]]
    BY DEF Sighting
  <2>2. PICK n \in Nat : Len(Participants[s[1]]) = n /\ s[2] \in 1..n
    BY <2>1, PartNumbers
  <2>3. s[2] < n \/ s[2] = n
    BY <2>2
  <2>4. QED
    BY <2>2, <2>3
<1>3. Past(u.at, duty)
  BY DEF Past
<1>4. QED
  BY <1>1, <1>2, <1>3 DEF Passes

\* Nothing is owed yet for a mail that begins.
LEMMA PassesBegin ==
    ASSUME NEW d, NEW L, NEW w, w.at = "company", w.part = 1, ~HasMessage(L.facts, w.mail),
           NEW duty \in Duty, NEW s \in Sighting
    PROVE  Passes(d, L, Idle, duty, s) <=> Passes(d, L, w, duty, s)
<1>1. Idle.at = "idle"
  BY IdleStands
<1>2. ~(s[2] < w.part)
  <2>1. s[1] \in Mail /\ s[2] \in DOMAIN Participants[s[1]]
    BY DEF Sighting
  <2>2. PICK n \in Nat : s[2] \in 1..n
    BY <2>1, PartNumbers
  <2>3. QED
    BY <2>2
<1>3. ~Past(w.at, duty)
  BY DEF Past
<1>4. QED
  BY <1>1, <1>2, <1>3 DEF Passes

\* What a session has done for a mail that is committed was done already.
LEMMA PassesKnown ==
    ASSUME NEW d, NEW L, NEW M, NEW u, u.at # "idle", HasMessage(d.facts, u.mail),
           \A m : HasMessage(M.facts, m) <=> HasMessage(L.facts, m),
           NEW duty \in Duty, NEW s \in Sighting
    PROVE  Passes(d, L, u, duty, s) <=> Passes(d, M, Idle, duty, s)
BY IdleStands DEF Passes

\* No row of the message table is among the facts added.
LEMMA SameMessages ==
    ASSUME NEW L, NEW M, L.facts \subseteq M.facts,
           \A f \in M.facts : f \in L.facts \/ f[1] # "message"
    PROVE  \A m : HasMessage(M.facts, m) <=> HasMessage(L.facts, m)
BY DEF HasMessage, EmailMessage

\* The end of a mail, released or committed.
LEMMA MailDoneGraph ==
    ASSUME GraphInv, NEW r \in Run, NEW F, PlainFacts(F), MailDone(r, With(r, F), cache[r]),
           Graph(Merged(db, With(r, F)), Passed(db, With(r, F), Idle))
    PROVE  GraphInvOf(db, tx, mark, run)'
<1>1. /\ GraphInvOf(db, tx, mark, run) /\ IngestInv /\ RowsInv(db, tx, mark)
      /\ tx = [q \in Run |-> tx[q]] /\ mark = [q \in Run |-> mark[q]]
      /\ run = [q \in Run |-> run[q]] /\ IsRows(db)
  BY Here DEF GraphInv, MailsInv, IngestInv, IngestInvOf
<1>2. PICK M : M = With(r, F)
  OBVIOUS
<1>3. PICK t, k, u : /\ t = [tx EXCEPT ![r] = M] /\ k = [mark EXCEPT ![r] = NoRows]
                     /\ u = [run EXCEPT ![r] = Idle]
  OBVIOUS
<1>4. /\ t[r] = M /\ k[r] = NoRows /\ u[r] = Idle
      /\ \A q \in Run \ {r} : t[q] = tx[q] /\ k[q] = mark[q] /\ u[q] = run[q]
  BY <1>1, <1>3
<1>5. mark' = k /\ run' = u
  BY <1>3 DEF MailDone, MoveTo
<1>6. Graph(Merged(db, M), Passed(db, M, Idle))
  BY <1>2
<1>7. Graph(Merged(db, NoRows), Passed(db, NoRows, Idle))
  BY <1>1, GraphNothing DEF GraphInvOf
<1>8. CASE r \in SyncRun
  <2>1. tx' = t /\ db' = db
    BY <1>2, <1>3, <1>8 DEF MailDone
  <2>2. GraphInvOf(db, t, k, u)
    <3>1. /\ Graph(Merged(db, t[r]), Passed(db, t[r], u[r]))
          /\ Graph(Merged(db, k[r]), Passed(db, k[r], Idle))
      BY <1>4, <1>6, <1>7
    <3>2. QED
      BY <1>1, <1>4, <3>1, GraphReplace
  <2>3. QED
    BY <1>5, <2>1, <2>2
<1>9. CASE r \notin SyncRun
  <2>1. PICK e, t1 : e = Merged(db, M) /\ t1 = [tx EXCEPT ![r] = NoRows]
    OBVIOUS
  <2>2. db' = e /\ tx' = t1
    BY <1>2, <1>9, <2>1 DEF MailDone, CommitRows
  <2>3. GraphInvOf(db, t, mark, u)
    <3>1. /\ Graph(Merged(db, t[r]), Passed(db, t[r], u[r]))
          /\ Graph(Merged(db, mark[r]), Passed(db, mark[r], Idle))
      BY <1>1, <1>4, <1>6 DEF GraphInvOf
    <3>2. \A q \in Run \ {r} : t[q] = tx[q] /\ mark[q] = mark[q] /\ u[q] = run[q]
      BY <1>4
    <3>3. QED
      BY <1>1, <3>1, <3>2, GraphReplace
  <2>4. RowsInv(db, t, mark)
    <3>1. t = [tx EXCEPT ![r] = [facts |-> tx[r].facts \cup F, people |-> tx[r].people]]
      BY <1>2, <1>3 DEF With
    <3>2. QED
      BY <1>1, <3>1, PlainInsert
  <2>5. Closes(t, mark, r, t1, k)
    <3>1. t1[r] = NoRows /\ \A q \in Run \ {r} : t1[q] = tx[q]
      BY <1>1, <2>1
    <3>2. QED
      BY <1>4, <3>1 DEF Closes
  <2>6. Graph(Merged(db, t[r]), Passed(db, t[r], Idle))
    BY <1>4, <1>6
  <2>7. GraphInvOf(Merged(db, t[r]), t1, k, u)
    <3>1. \A q \in Run \ {r} : u[q] = u[q]
      OBVIOUS
    <3>2. QED
      BY <1>4, <2>3, <2>4, <2>5, <2>6, GraphCommit
  <2>8. QED
    BY <1>4, <1>5, <2>1, <2>2, <2>7
<1>10. QED
  BY <1>8, <1>9

\* The graph of a session, whose rows are about to be added to.
LEMMA GraphHere ==
    ASSUME GraphInv, NEW r \in Run
    PROVE  /\ MailsInvOf(db, tx, mark, run) /\ IngestInv /\ GraphInvOf(db, tx, mark, run)
           /\ IsRows(db) /\ IsRows(tx[r])
           /\ Graph(Merged(db, tx[r]), Passed(db, tx[r], run[r]))
           /\ \A F : /\ With(r, F).facts = tx[r].facts \cup F
                     /\ With(r, F).people = tx[r].people
                     /\ (\A f \in F : IsFact(f)) => IsRows(With(r, F))
<1>1. MailsInvOf(db, tx, mark, run) /\ IngestInv /\ GraphInvOf(db, tx, mark, run)
  BY DEF GraphInv, MailsInv
<1>2. IsRows(db) /\ IsRows(tx[r])
  BY <1>1, Here
<1>3. \A F : /\ With(r, F).facts = tx[r].facts \cup F /\ With(r, F).people = tx[r].people
             /\ With(r, F) = [facts |-> With(r, F).facts, people |-> With(r, F).people]
  BY DEF With
<1>4. \A F : (\A f \in F : IsFact(f)) => IsRows(With(r, F))
  BY <1>2, <1>3 DEF IsRows
<1>5. QED
  BY <1>1, <1>2, <1>3, <1>4 DEF GraphInvOf

\* A mail found stored has nothing to add.
LEMMA SeenGraph ==
    ASSUME GraphInv, NEW r \in Run, MailDone(r, With(r, {}), cache[r]),
           \A duty \in Duty, s \in Sighting :
                Passes(db, tx[r], run[r], duty, s) <=> Passes(db, With(r, {}), Idle, duty, s)
    PROVE  GraphInvOf(db, tx, mark, run)'
<1>1. PICK L, M, u : L = tx[r] /\ M = With(r, {}) /\ u = run[r]
  OBVIOUS
<1>2. /\ IsRows(db) /\ IsRows(L) /\ IsRows(M) /\ M.people = L.people /\ M.facts = L.facts
      /\ Graph(Merged(db, L), Passed(db, L, u))
  <2>1. /\ IsRows(db) /\ IsRows(tx[r]) /\ Graph(Merged(db, tx[r]), Passed(db, tx[r], run[r]))
        /\ With(r, {}).facts = tx[r].facts \cup {} /\ With(r, {}).people = tx[r].people
        /\ IsRows(With(r, {}))
    BY GraphHere
  <2>2. QED
    BY <1>1, <2>1
<1>3. Graph(Merged(db, M), Passed(db, M, Idle))
  <2>1. \A duty \in Duty, s \in Sighting :
            Passes(db, L, u, duty, s) <=> Passes(db, M, Idle, duty, s)
    BY <1>1
  <2>2. \A f \in M.facts : f \in L.facts \/ f[1] \notin {"alias", "link"}
    BY <1>2
  <2>3. QED
    BY <1>2, <2>1, <2>2, MailGraph
<1>4. PlainFacts({})
  BY DEF PlainFacts
<1>5. QED
  BY <1>1, <1>3, <1>4, MailDoneGraph

\* A mail found stored, or one that begins.
LEMMA BeginMailGraph ==
    ASSUME GraphInv, NEW r \in Run, NEW m \in Mail, BeginMail(r, m)
    PROVE  GraphInvOf(db, tx, mark, run)'
<1>1. /\ MailsInvOf(db, tx, mark, run) /\ IngestInv /\ GraphInvOf(db, tx, mark, run)
      /\ IngestInvOf(db, tx, mark, run, cache)
  BY GraphHere DEF IngestInv
<1>2. run[r] = Idle
  BY <1>1, Here DEF BeginMail, At, Standing
<1>3. CASE GetMessageIdByDedup(r, m)
  <2>1. MailDone(r, ReconcileGrants(r, m), cache[r])
    BY <1>3 DEF BeginMail
  <2>2. HasMessage(db.facts, m) \/ HasMessage(tx[r].facts, m)
    BY <1>1, <1>3, SeenMessage
  <2>3. Settled(db.facts, db.facts, m) /\ Settled(db.facts \cup tx[r].facts, tx[r].facts, m)
    BY <1>1, <1>2, IdleStands DEF MailsInvOf, Mails
  <2>4. ReconcileGrants(r, m) = With(r, {})
    BY <1>1, <2>2, <2>3, NothingToReconcile
  <2>5. \A duty \in Duty, s \in Sighting :
            Passes(db, tx[r], run[r], duty, s) <=> Passes(db, With(r, {}), Idle, duty, s)
    <3>1. PICK M : M = With(r, {})
      OBVIOUS
    <3>2. M.facts = tx[r].facts
      BY <3>1, GraphHere
    <3>3. \A duty \in Duty, s \in Sighting :
            Passes(db, tx[r], Idle, duty, s) <=> Passes(db, M, Idle, duty, s)
      BY <3>2 DEF Passes
    <3>4. QED
      BY <1>2, <3>1, <3>3
  <2>6. QED
    BY <2>1, <2>4, <2>5, SeenGraph
<1>4. CASE ~GetMessageIdByDedup(r, m)
  <2>1. PICK w : w = [Idle EXCEPT !.at = "company", !.mail = m]
    OBVIOUS
  <2>2. w.at = "company" /\ w.mail = m /\ w.part = 1
    BY <2>1 DEF Idle
  <2>3. /\ run' = [run EXCEPT ![r] = w] /\ mark' = [mark EXCEPT ![r] = tx[r]]
        /\ UNCHANGED <<db, tx>>
    BY <1>4, <2>1 DEF BeginMail, MoveTo
  <2>4. PICK L : L = tx[r]
    OBVIOUS
  <2>5. ~HasMessage(L.facts, m)
    BY <1>1, <1>4, <2>4, SeenMessage
  <2>6. IsRows(db) /\ IsRows(L) /\ Graph(Merged(db, L), Passed(db, L, Idle))
    BY <1>2, <2>4, GraphHere
  <2>7. Graph(Merged(db, L), Passed(db, L, w))
    <3>1. \A duty \in Duty, s \in Sighting :
            Passes(db, L, Idle, duty, s) <=> Passes(db, L, w, duty, s)
      BY <2>2, <2>5, PassesBegin
    <3>2. L.facts \subseteq L.facts /\ \A f \in L.facts : f \in L.facts \/ f[1] \notin {"alias", "link"}
      OBVIOUS
    <3>3. QED
      BY <2>6, <3>1, <3>2, MailGraph
  <2>8. PICK k, u : k = mark' /\ u = run'
    OBVIOUS
  <2>9. /\ k[r] = L /\ u[r] = w
        /\ \A q \in Run \ {r} : tx[q] = tx[q] /\ k[q] = mark[q] /\ u[q] = run[q]
    BY <1>1, <2>3, <2>4, <2>8 DEF IngestInvOf
  <2>10. GraphInvOf(db, tx, k, u)
    BY <1>1, <2>4, <2>6, <2>7, <2>9, GraphReplace
  <2>11. QED
    BY <2>3, <2>8, <2>10
<1>5. QED
  BY <1>3, <1>4

\* The session stores the row f of its part.
Stores(r, f) ==
    /\ At(r, "store") /\ f[1] \in {"message", "recipient"} /\ f[2] = run[r].mail
    /\ run' = [run EXCEPT ![r] = NextPart(r)] /\ tx' = [tx EXCEPT ![r] = With(r, {f})]
    /\ UNCHANGED <<db, mark>>

\* The row of a part is stored.
LEMMA StoreGraph ==
    ASSUME GraphInv, IngestInv', NEW r \in Run, NEW f, Stores(r, f)
    PROVE  GraphInvOf(db, tx, mark, run)'
<1>0. /\ At(r, "store") /\ f[1] \in {"message", "recipient"} /\ f[2] = run[r].mail
      /\ run' = [run EXCEPT ![r] = NextPart(r)] /\ tx' = [tx EXCEPT ![r] = With(r, {f})]
      /\ UNCHANGED <<db, mark>>
  BY DEF Stores
<1>1. /\ GraphInvOf(db, tx, mark, run) /\ IngestInv
      /\ tx = [q \in Run |-> tx[q]] /\ run = [q \in Run |-> run[q]]
  BY GraphHere DEF IngestInv, IngestInvOf
<1>2. PICK L, M, u, w : L = tx[r] /\ M = With(r, {f}) /\ u = run[r] /\ w = NextPart(r)
  OBVIOUS
<1>3. /\ IsRows(db) /\ IsRows(L) /\ Graph(Merged(db, L), Passed(db, L, u))
      /\ M.facts = L.facts \cup {f} /\ M.people = L.people
  BY <1>2, GraphHere
<1>4. PICK t, v : t = tx' /\ v = run'
  OBVIOUS
<1>5. t[r] = M /\ v[r] = w /\ \A q \in Run \ {r} : t[q] = tx[q] /\ v[q] = run[q]
  BY <1>0, <1>1, <1>2, <1>4
<1>6. IsRows(M)
  <2>1. RowsInv(db', t, mark')
    BY <1>4 DEF IngestInv, IngestInvOf
  <2>2. QED
    BY <1>5, <2>1 DEF RowsInv
<1>7. /\ u.at = "store" /\ w.mail = u.mail /\ u.part \in Nat
      /\ (w.at = "finish" /\ w.part = u.part) \/ (w.at = "company" /\ w.part = u.part + 1)
  <2>1. /\ w.mail = u.mail /\ u.part \in Nat
        /\ IF u.part = Len(Participants[u.mail])
           THEN w.at = "finish"
           ELSE w.at = "company" /\ w.part = u.part + 1
    BY <1>0, <1>1, <1>2, NextPartStands
  <2>2. w.at = "finish" => w.part = u.part
    <3>1. Go(r, "finish").part = run[r].part
      BY <1>1, GoTo
    <3>2. QED
      BY <1>2, <2>1, <3>1 DEF NextPart
  <2>3. QED
    BY <1>0, <1>2, <2>1, <2>2 DEF At
<1>8. \A m : m # u.mail => (HasMessage(M.facts, m) <=> HasMessage(L.facts, m))
  <2>1. \A m, x : m # u.mail => EmailMessage(m, x) # f
    BY <1>0, <1>2 DEF EmailMessage
  <2>2. QED
    BY <1>3, <2>1 DEF HasMessage
<1>9. \A duty \in Duty, s \in Sighting :
        Passes(db, L, u, duty, s) <=> Passes(db, M, w, duty, s)
  BY <1>7, <1>8, PassesStore
<1>10. Graph(Merged(db, M), Passed(db, M, w))
  <2>1. L.facts \subseteq M.facts /\ \A g \in M.facts : g \in L.facts \/ g[1] \notin {"alias", "link"}
    BY <1>0, <1>3
  <2>2. QED
    BY <1>3, <1>6, <1>9, <2>1, MailGraph
<1>11. GraphInvOf(db, t, mark, v)
  <2>1. /\ Graph(Merged(db, t[r]), Passed(db, t[r], v[r]))
        /\ Graph(Merged(db, mark[r]), Passed(db, mark[r], Idle))
    BY <1>1, <1>5, <1>10 DEF GraphInvOf
  <2>2. \A q \in Run \ {r} : t[q] = tx[q] /\ mark[q] = mark[q] /\ v[q] = run[q]
    BY <1>5
  <2>3. QED
    BY <1>1, <2>1, <2>2, GraphReplace
<1>12. QED
  BY <1>0, <1>4, <1>11

\* The mail's own row, or the end of a mail that another session has stored.
LEMMA InsertMessageGraph ==
    ASSUME GraphInv, IngestInv', NEW r \in Run, InsertMessage(r)
    PROVE  GraphInvOf(db, tx, mark, run)'
<1> DEFINE m == run[r].mail
           x == run[r].person
<1>1. MailsInvOf(db, tx, mark, run) /\ IngestInv
  BY GraphHere
<1>2. m \in Mail /\ At(r, "store") /\ run[r].part = 1 /\ run[r].at = "store"
  BY <1>1, Here, PartTypes DEF InsertMessage, At
<1>3. CASE Violates(r, EmailMessage(m, x))
  <2>1. MailDone(r, ReconcileGrants(r, m), cache[r])
    <3>1. MailDone(r, ReconcileGrants(r, m), AfterSavepoint(r, TRUE))
      BY <1>3 DEF InsertMessage
    <3>2. QED
      BY <1>1, <3>1, CacheAfterSavepoint
  <2>2. HasMessage(db.facts, m) \/ HasMessage(tx[r].facts, m)
    BY <1>1, <1>3, SeenMessage
  <2>3. /\ Settled(db.facts, db.facts, m)
        /\ InProgress(db.facts \cup tx[r].facts, tx[r].facts, m, 0)
    <3>1. Settled(db.facts, db.facts, m) /\ Mails(db, tx[r], run[r])
      BY <1>1, <1>2 DEF MailsInvOf
    <3>2. Progress(run[r]) = 0
      BY <1>2 DEF Progress
    <3>3. InProgress(db.facts \cup tx[r].facts, tx[r].facts, m, Progress(run[r]))
      BY <1>2, <3>1 DEF Mails
    <3>4. QED
      BY <3>1, <3>2, <3>3
  <2>4. ~HasMessage(tx[r].facts, m)
    BY <2>3 DEF InProgress, StoredUpTo
  <2>5. Settled(db.facts \cup tx[r].facts, tx[r].facts, m)
    BY <2>3 DEF Settled
  <2>6. ReconcileGrants(r, m) = With(r, {})
    BY <1>1, <1>2, <2>2, <2>3, <2>5, NothingToReconcile
  <2>7. \A duty \in Duty, s \in Sighting :
            Passes(db, tx[r], run[r], duty, s) <=> Passes(db, With(r, {}), Idle, duty, s)
    <3>1. PICK L, M, u : L = tx[r] /\ M = With(r, {}) /\ u = run[r]
      OBVIOUS
    <3>2. M.facts = L.facts
      BY <3>1, GraphHere
    <3>3. u.at # "idle" /\ HasMessage(db.facts, u.mail)
          /\ \A n : HasMessage(M.facts, n) <=> HasMessage(L.facts, n)
      BY <1>2, <2>2, <2>4, <3>1, <3>2
    <3>4. \A duty \in Duty, s \in Sighting :
            Passes(db, L, u, duty, s) <=> Passes(db, M, Idle, duty, s)
      BY <3>3, PassesKnown
    <3>5. QED
      BY <3>1, <3>4
  <2>8. QED
    BY <2>1, <2>6, <2>7, SeenGraph
<1>4. CASE ~Violates(r, EmailMessage(m, x))
  <2>1. PICK f : f = EmailMessage(m, x)
    OBVIOUS
  <2>2. f[1] \in {"message", "recipient"} /\ f[2] = m
    BY <2>1 DEF EmailMessage
  <2>3. /\ run' = [run EXCEPT ![r] = NextPart(r)] /\ tx' = [tx EXCEPT ![r] = With(r, {f})]
        /\ UNCHANGED <<db, mark>>
    BY <1>4, <2>1 DEF InsertMessage, Write, MoveTo
  <2>4. Stores(r, f)
    BY <1>2, <2>2, <2>3 DEF Stores
  <2>5. QED
    BY <2>4, StoreGraph
<1>5. QED
  BY <1>3, <1>4

\* The row of a recipient.
LEMMA AddRecipientGraph ==
    ASSUME GraphInv, IngestInv', NEW r \in Run, AddRecipient(r)
    PROVE  GraphInvOf(db, tx, mark, run)'
<1>1. PICK f : f = EmailRecipient(run[r].mail, run[r].part, run[r].person)
  OBVIOUS
<1>2. f[1] \in {"message", "recipient"} /\ f[2] = run[r].mail
  BY <1>1 DEF EmailRecipient
<1>3. /\ run' = [run EXCEPT ![r] = NextPart(r)] /\ tx' = [tx EXCEPT ![r] = With(r, {f})]
      /\ UNCHANGED <<db, mark>> /\ At(r, "store")
  BY <1>1 DEF AddRecipient, Write, MoveTo
<1>4. Stores(r, f)
  BY <1>2, <1>3 DEF Stores
<1>5. QED
  BY <1>4, StoreGraph

\* The last rows of the mail.
LEMMA FinishGraph ==
    ASSUME GraphInv, NEW r \in Run, Finish(r)
    PROVE  GraphInvOf(db, tx, mark, run)'
<1> DEFINE m == run[r].mail
<1>1. MailsInvOf(db, tx, mark, run) /\ IngestInv
  BY GraphHere
<1>2. m \in Mail /\ run[r].at = "finish"
  BY <1>1, PartTypes DEF Finish, At
<1>3. PICK E : E = {EmailAttachment(m, x) : x \in Attachments[m]} \cup EmailGrants(m)
  OBVIOUS
<1>4. MailDone(r, With(r, E), cache[r])
  BY <1>3 DEF Finish
<1>5. PlainFacts(E)
  BY <1>2, <1>3, PlainMailFacts
<1>6. \A f \in E : f[1] \in {"attachment", "grant"} /\ IsFact(f)
  <2>1. \A f \in E : f[1] \in {"attachment", "grant"}
    BY <1>3, GrantFacts DEF EmailAttachment
  <2>2. QED
    BY <1>5, <2>1 DEF PlainFacts
<1>7. PICK L, M, u : L = tx[r] /\ M = With(r, E) /\ u = run[r]
  OBVIOUS
<1>8. /\ IsRows(db) /\ IsRows(L) /\ IsRows(M) /\ M.people = L.people
      /\ M.facts = L.facts \cup E /\ Graph(Merged(db, L), Passed(db, L, u))
  BY <1>6, <1>7, GraphHere
<1>9. u.part = Len(Participants[u.mail]) /\ HasMessage(L.facts, u.mail)
  <2>1. /\ run[r].part = Len(Participants[m])
        /\ InProgress(db.facts \cup tx[r].facts, tx[r].facts, m, Len(Participants[m]))
    BY <1>1, <1>2 DEF MailsInvOf, Mails, Progress
  <2>2. PICK n \in Nat : Len(Participants[m]) = n /\ n >= 1
    BY <1>2, PartNumbers
  <2>3. QED
    BY <1>7, <2>1, <2>2 DEF InProgress, StoredUpTo
<1>10. \A n : HasMessage(M.facts, n) <=> HasMessage(L.facts, n)
  <2>1. \A f \in M.facts : f \in L.facts \/ f[1] # "message"
    BY <1>6, <1>8
  <2>2. L.facts \subseteq M.facts
    BY <1>8
  <2>3. QED
    BY <2>1, <2>2, SameMessages
<1>11. \A duty \in Duty, s \in Sighting :
        Passes(db, L, u, duty, s) <=> Passes(db, M, Idle, duty, s)
  <2>1. u.at = "finish"
    BY <1>2, <1>7
  <2>2. QED
    BY <1>9, <1>10, <2>1, PassesEnd
<1>12. Graph(Merged(db, M), Passed(db, M, Idle))
  <2>1. L.facts \subseteq M.facts
    BY <1>8
  <2>2. \A f \in M.facts : f \in L.facts \/ f[1] \notin {"alias", "link"}
    BY <1>6, <1>8
  <2>3. QED
    BY <1>8, <1>11, <2>1, <2>2, MailGraph
<1>13. QED
  BY <1>4, <1>5, <1>7, <1>12, MailDoneGraph

\* A rollback leaves what the savepoint saw, or the database.
LEMMA RollbackGraph ==
    ASSUME GraphInv, NEW r \in Run, NEW L \in {mark[r], NoRows},
           tx' = [tx EXCEPT ![r] = L], mark' = [mark EXCEPT ![r] = NoRows],
           run' = [run EXCEPT ![r] = Idle], UNCHANGED db
    PROVE  GraphInvOf(db, tx, mark, run)'
<1>1. /\ GraphInvOf(db, tx, mark, run) /\ IngestInvOf(db, tx, mark, run, cache) /\ IsRows(db)
  BY GraphHere DEF IngestInv
<1>2. Graph(Merged(db, NoRows), Passed(db, NoRows, Idle))
  BY <1>1, GraphNothing DEF GraphInvOf
<1>3. Graph(Merged(db, L), Passed(db, L, Idle))
  <2>1. CASE L = NoRows
    BY <1>2, <2>1
  <2>2. CASE L = mark[r]
    BY <1>1, <2>2 DEF GraphInvOf
  <2>3. QED
    BY <2>1, <2>2
<1>4. PICK t, k, u : t = tx' /\ k = mark' /\ u = run'
  OBVIOUS
<1>5. /\ t[r] = L /\ k[r] = NoRows /\ u[r] = Idle
      /\ \A q \in Run \ {r} : t[q] = tx[q] /\ k[q] = mark[q] /\ u[q] = run[q]
  BY <1>1, <1>4 DEF IngestInvOf
<1>6. GraphInvOf(db, t, k, u)
  <2>1. /\ Graph(Merged(db, t[r]), Passed(db, t[r], u[r]))
        /\ Graph(Merged(db, k[r]), Passed(db, k[r], Idle))
    BY <1>2, <1>3, <1>5
  <2>2. QED
    BY <1>1, <1>5, <2>1, GraphReplace
<1>7. QED
  BY <1>4, <1>6

\* The commit of a batch.
LEMMA CommitBatchGraph ==
    ASSUME GraphInv, NEW r \in Run, CommitBatch(r)
    PROVE  GraphInvOf(db, tx, mark, run)'
<1>1. /\ GraphInvOf(db, tx, mark, run) /\ IngestInvOf(db, tx, mark, run, cache) /\ IngestInv
      /\ RowsInv(db, tx, mark)
  BY GraphHere DEF IngestInv, IngestInvOf
<1>2. run[r].at = "idle" /\ run[r] = Idle
  BY <1>1, Here DEF CommitBatch, At, Standing
<1>3. mark[r] = NoRows
  BY <1>1, <1>2 DEF IngestInvOf
<1>4. /\ db' = Merged(db, tx[r]) /\ tx' = [tx EXCEPT ![r] = NoRows] /\ UNCHANGED <<mark, run>>
  BY DEF CommitBatch, CommitRows, Write
<1>5. PICK t : t = tx'
  OBVIOUS
<1>6. t[r] = NoRows /\ \A q \in Run \ {r} : t[q] = tx[q]
  BY <1>1, <1>4, <1>5 DEF IngestInvOf
<1>7. Closes(tx, mark, r, t, mark)
  BY <1>3, <1>6 DEF Closes
<1>8. Graph(Merged(db, tx[r]), Passed(db, tx[r], Idle))
  <2>1. Graph(Merged(db, tx[r]), Passed(db, tx[r], run[r]))
    BY <1>1 DEF GraphInvOf
  <2>2. QED
    BY <1>2, <2>1
<1>9. GraphInvOf(Merged(db, tx[r]), t, mark, run)
  BY <1>1, <1>2, <1>7, <1>8, GraphCommit
<1>10. QED
  BY <1>4, <1>5, <1>9

\* The empty graph of no mail.
LEMMA InitGraph == Init => GraphInv
<1> SUFFICES ASSUME Init PROVE GraphInv
  OBVIOUS
<1>1. MailsInv
  BY InitMails
<1>2. /\ db = NoRows
      /\ tx = [r \in Run |-> NoRows] /\ mark = [r \in Run |-> NoRows]
      /\ run = [r \in Run |-> Idle]
  BY DEF Init
<1>3. Graph(NoRows, Passed(NoRows, NoRows, Idle))
  <2>1. PICK S : S = Passed(NoRows, NoRows, Idle)
    OBVIOUS
  <2>2. \A duty \in Duty : S[duty] = {}
    <3>1. \A duty, s : ~Passes(NoRows, NoRows, Idle, duty, s)
      BY NoMessage, IdleStands DEF Passes
    <3>2. QED
      BY <2>1, <3>1 DEF Passed
  <2>3. Sound(NoRows, S["person"])
    BY EmptyRows DEF Sound
  <2>4. QED
    BY <2>1, <2>2, <2>3 DEF Graph
<1>4. Merged(NoRows, NoRows) = NoRows
  BY EmptyRows, MergedNothing
<1>5. GraphInvOf(NoRows, tx, mark, run)
  BY <1>2, <1>3, <1>4 DEF GraphInvOf
<1>6. QED
  BY <1>1, <1>2, <1>5 DEF GraphInv

\* Every statement, failure and commit keeps the graph.
LEMMA NextGraph == GraphInv /\ [Next]_vars => GraphInv'
<1> SUFFICES ASSUME GraphInv, [Next]_vars PROVE GraphInv'
  OBVIOUS
<1>1. MailsInv' /\ IngestInv'
  BY NextMails, NextIngest DEF GraphInv, MailsInv
<1>2. GraphInvOf(db, tx, mark, run)'
  <2>1. CASE UNCHANGED vars
    BY <2>1 DEF vars, GraphInv
  <2>2. CASE Next
    <3>1. PICK r \in Run :
            \/ \E m \in Mail : BeginMail(r, m)
            \/ ResolverStep(r)
            \/ InsertMessage(r) \/ AddRecipient(r) \/ Finish(r)
            \/ FailMail(r) \/ CommitBatch(r) \/ Abandon(r)
      BY <2>2 DEF Next, ResolverStep
    <3>2. CASE FailMail(r) \/ Abandon(r)
      <4>1. PICK L \in {mark[r], NoRows} : tx' = [tx EXCEPT ![r] = L]
        BY <3>2 DEF FailMail, Abandon, Write
      <4>2. /\ mark' = [mark EXCEPT ![r] = NoRows] /\ run' = [run EXCEPT ![r] = Idle]
            /\ UNCHANGED db
        BY <3>2 DEF FailMail, Abandon, MoveTo
      <4>3. QED
        BY <4>1, <4>2, RollbackGraph
    <3>3. CASE \E m \in Mail : BeginMail(r, m)
      BY <3>3, BeginMailGraph
    <3>4. CASE ResolverStep(r)
      BY <1>1, <3>4, ResolverKeepsGraph
    <3>5. CASE InsertMessage(r) \/ AddRecipient(r) \/ Finish(r) \/ CommitBatch(r)
      BY <1>1, <3>5, InsertMessageGraph, AddRecipientGraph, FinishGraph, CommitBatchGraph
    <3>6. QED
      BY <3>1, <3>2, <3>3, <3>4, <3>5
  <2>3. QED
    BY <2>1, <2>2
<1>3. QED
  BY <1>1, <1>2 DEF GraphInv

\* The invariant about the graph, of every reachable state.
THEOREM GraphInvariant == Spec => []GraphInv
BY InitGraph, NextGraph, PTL DEF Spec

\* Aliases and links are given by their columns.
LEMMA GraphFacts ==
    ASSUME NEW f, IsFact(f)
    PROVE  /\ f[1] = "alias" => f[2] \in Id /\ f[3] \in Name /\ f = PersonAlias(f[2], f[3])
           /\ f[1] = "link" => f[2] \in Id /\ f[3] \in Id /\ f = PersonCompany(f[2], f[3])
BY GrantFacts DEF IsFact, PersonEmail, CompanyDomain, Company, PersonAlias, PersonCompany,
                  EmailMessage, EmailRecipient, EmailAttachment

\* The committed rows by themselves.
LEMMA Committed ==
    ASSUME IngestInv
    PROVE  /\ IsRows(db) /\ \A f \in db.facts : IsFact(f)
           /\ \A p \in DOMAIN db.people : p \in Id /\ db.people[p] \in PersonRow
           /\ \A p \in DOMAIN db.people : \E a \in Address : PersonEmail(a, p) \in db.facts
           /\ \A a, p : PersonEmail(a, p) \in db.facts => p \in DOMAIN db.people
           /\ \A h, c : CompanyDomain(h, c) \in db.facts => Company(c) \in db.facts
           /\ \A c : Company(c) \in db.facts
                => \E h \in Host : Registrable[h] = h /\ CompanyDomain(h, c) \in db.facts
           /\ \A a, b, p, q : PersonEmail(a, p) \in db.facts /\ PersonEmail(b, q) \in db.facts
                => ((a = b) <=> (p = q))
           /\ \A g, h, b, c : CompanyDomain(g, b) \in db.facts /\ CompanyDomain(h, c) \in db.facts
                => /\ g = h => b = c
                   /\ b = c /\ Registrable[g] = g /\ Registrable[h] = h => g = h
<1>1. RowsInv(db, tx, mark)
  BY DEF IngestInv, IngestInvOf
<1>2. IsRows(db) /\ Layer(db, NoRows) /\ KeysUnique(db, tx)
  BY <1>1 DEF RowsInv
<1>3. db.facts \cup NoRows.facts = db.facts /\ DOMAIN db.people \cup DOMAIN NoRows.people = DOMAIN db.people
  BY EmptyRows
<1>4. \A p \in DOMAIN db.people : p \in Id /\ db.people[p] \in PersonRow
  BY <1>2, PeopleRows
<1>5. \A f \in db.facts : IsFact(f) /\ Known(db, tx, f)
  BY <1>2 DEF IsRows, Known
<1>6. /\ \A p \in DOMAIN db.people : \E a \in Address : PersonEmail(a, p) \in db.facts
      /\ \A a, p : PersonEmail(a, p) \in db.facts => p \in DOMAIN db.people
      /\ \A h, c : CompanyDomain(h, c) \in db.facts => Company(c) \in db.facts
      /\ \A c : Company(c) \in db.facts
            => \E h \in Host : Registrable[h] = h /\ CompanyDomain(h, c) \in db.facts
  BY <1>2, <1>3 DEF Layer
<1>7. /\ \A a, b, p, q : PersonEmail(a, p) \in db.facts /\ PersonEmail(b, q) \in db.facts
            => ((a = b) <=> (p = q))
      /\ \A g, h, b, c : CompanyDomain(g, b) \in db.facts /\ CompanyDomain(h, c) \in db.facts
            => /\ g = h => b = c
               /\ b = c /\ Registrable[g] = g /\ Registrable[h] = h => g = h
  BY <1>2, <1>5 DEF KeysUnique
<1>8. QED
  BY <1>2, <1>4, <1>5, <1>6, <1>7

\* Match keys and entities are one to one.
LEMMA KeysMatch ==
    ASSUME IngestInv
    PROVE  KeysMatchEntities
<1>1. \A f \in db.facts : IsFact(f)
  BY Committed
<1>2. ASSUME NEW p \in DOMAIN db.people
      PROVE  Cardinality({f \in db.facts : f[1] = "email" /\ f[3] = p}) = 1
  <2>1. PICK a \in Address : PersonEmail(a, p) \in db.facts
    BY Committed
  <2>2. PersonEmail(a, p)[1] = "email" /\ PersonEmail(a, p)[3] = p
    BY DEF PersonEmail
  <2>3. ASSUME NEW f \in db.facts, f[1] = "email", f[3] = p PROVE f = PersonEmail(a, p)
    <3>1. f = PersonEmail(f[2], p)
      BY <1>1, <2>3, KeyedFacts
    <3>2. f[2] = a
      BY <2>1, <3>1, Committed
    <3>3. QED
      BY <3>1, <3>2
  <2>4. {f \in db.facts : f[1] = "email" /\ f[3] = p} = {PersonEmail(a, p)}
    BY <2>1, <2>2, <2>3
  <2>5. QED
    BY <2>4, FS_Singleton
<1>3. ASSUME NEW f \in db.facts, f[1] = "email" PROVE f[3] \in DOMAIN db.people
  <2>1. f = PersonEmail(f[2], f[3])
    BY <1>1, <1>3, KeyedFacts
  <2>2. QED
    BY <1>3, <2>1, Committed
<1>4. ASSUME NEW f \in db.facts, f[1] = "domain" PROVE Company(f[3]) \in db.facts
  <2>1. f = CompanyDomain(f[2], f[3])
    BY <1>1, <1>4, KeyedFacts
  <2>2. QED
    BY <1>4, <2>1, Committed
<1>5. ASSUME NEW f \in db.facts, f[1] = "company"
      PROVE  Cardinality({g \in db.facts : /\ g[1] = "domain" /\ g[3] = f[2]
                                           /\ Registrable[g[2]] = g[2]}) = 1
  <2>1. PICK c : c = f[2]
    OBVIOUS
  <2>2. Company(c) \in db.facts
    BY <1>1, <1>5, <2>1, KeyedFacts
  <2>3. PICK h \in Host : Registrable[h] = h /\ CompanyDomain(h, c) \in db.facts
    BY <2>2, Committed
  <2>4. PICK e : e = CompanyDomain(h, c)
    OBVIOUS
  <2>5. e \in db.facts /\ e[1] = "domain" /\ e[3] = c /\ Registrable[e[2]] = e[2]
    BY <2>3, <2>4 DEF CompanyDomain
  <2>6. ASSUME NEW g \in db.facts, g[1] = "domain", g[3] = c, Registrable[g[2]] = g[2]
        PROVE  g = e
    <3>1. g = CompanyDomain(g[2], c)
      BY <1>1, <2>6, KeyedFacts
    <3>2. g[2] = h
      BY <2>3, <2>6, <3>1, Committed
    <3>3. QED
      BY <2>4, <3>1, <3>2
  <2>7. {g \in db.facts : /\ g[1] = "domain" /\ g[3] = f[2] /\ Registrable[g[2]] = g[2]} = {e}
    BY <2>1, <2>5, <2>6
  <2>8. QED
    BY <2>7, FS_Singleton
<1>6. QED
  BY <1>2, <1>3, <1>4, <1>5 DEF KeysMatchEntities

\* The sightings of the stored mails.
StoredSighting == {s \in Sighting : HasMessage(db.facts, s[1])}

\* The parts of the stored mails whose person is p.
SightingsOf(p) ==
    UNION {{<<m, i>> : i \in {j \in DOMAIN Participants[m] : ExpectedPerson(m, j) = p}}
              : m \in Stored}

\* They are the sightings of p.
LEMMA SightingsFound ==
    ASSUME IngestInv, NEW p \in DOMAIN db.people
    PROVE  SightingsOf(p) = Of(db, StoredSighting, p)
<1>1. p \in Id /\ p # None
  BY Committed, IngestAssumption DEF Id
<1>2. ASSUME NEW m \in Mail, NEW i \in DOMAIN Participants[m]
      PROVE  ExpectedPerson(m, i) = p
                <=> /\ BecomesPerson(m, Participants[m][i])
                    /\ PersonEmail(Participants[m][i].address, p) \in db.facts
  <2>1. CASE ~BecomesPerson(m, Participants[m][i])
    BY <1>1, <2>1 DEF ExpectedPerson
  <2>2. CASE BecomesPerson(m, Participants[m][i])
    <3>1. PICK a : a = Participants[m][i].address
      OBVIOUS
    <3>2. ExpectedPerson(m, i) = Find(db, "email", a)
      BY <2>2, <3>1 DEF ExpectedPerson
    <3>3. Find(db, "email", a) = p <=> PersonEmail(a, p) \in db.facts
      BY <1>1, Committed, FindEmail
    <3>4. QED
      BY <2>2, <3>1, <3>2, <3>3
  <2>3. QED
    BY <2>1, <2>2
<1>3. \A m : m \in Stored <=> HasMessage(db.facts, m)
  BY StoredMails
<1>4. Stored \subseteq Mail
  <2>1. ASSUME NEW m, NEW x, EmailMessage(m, x) \in db.facts PROVE m \in Mail
    BY <2>1, Committed, MessageFacts
  <2>2. QED
    BY <1>3, <2>1 DEF HasMessage
<1>5. ASSUME NEW s \in SightingsOf(p) PROVE s \in Of(db, StoredSighting, p)
  <2>1. PICK m \in Stored :
            s \in {<<m, i>> : i \in {j \in DOMAIN Participants[m] : ExpectedPerson(m, j) = p}}
    BY <1>5 DEF SightingsOf
  <2>2. PICK i \in DOMAIN Participants[m] : s = <<m, i>> /\ ExpectedPerson(m, i) = p
    BY <2>1
  <2>3. m \in Mail /\ HasMessage(db.facts, m) /\ s[1] = m /\ s[2] = i
    BY <1>3, <1>4, <2>2
  <2>4. i \in Nat
    BY <2>2, <2>3, PartNumbers
  <2>5. s \in Sighting /\ PersonEmail(AddressAt(s), p) \in db.facts
    BY <1>2, <2>2, <2>3, <2>4 DEF Sighting, AddressAt
  <2>6. QED
    BY <2>3, <2>5 DEF Of, StoredSighting
<1>6. ASSUME NEW s \in Of(db, StoredSighting, p) PROVE s \in SightingsOf(p)
  <2>1. s \in Sighting /\ HasMessage(db.facts, s[1]) /\ PersonEmail(AddressAt(s), p) \in db.facts
    BY <1>6 DEF Of, StoredSighting
  <2>2. PICK m \in Mail, i \in Nat : s = <<m, i>>
    BY <2>1 DEF Sighting
  <2>3. i \in DOMAIN Participants[m] /\ BecomesPerson(m, Participants[m][i])
    BY <2>1, <2>2 DEF Sighting
  <2>4. ExpectedPerson(m, i) = p
    BY <1>2, <2>1, <2>2, <2>3 DEF AddressAt
  <2>5. m \in Stored
    BY <1>3, <2>1, <2>2
  <2>6. QED
    BY <2>2, <2>3, <2>4, <2>5 DEF SightingsOf
<1>7. QED
  BY <1>5, <1>6

\* What the graph says of person p is what the sightings Q say.
PersonMatches(p, Q) ==
    LET times == {SeenAt[s[1]] : s \in Q} \ {None}
        names == {Participants[s[1]][s[2]].name : s \in Q} \ {None}
        keys == {ObservedCompany(Participants[s[1]][s[2]].address) : s \in Q} \ {None}
    IN  /\ Q # {}
        /\ IF times = {} THEN db.people[p].seen = None
           ELSE /\ {db.people[p].seen[1], db.people[p].seen[2]} \subseteq times
                /\ \A t \in times : /\ db.people[p].seen[1] <= t
                                   /\ t <= db.people[p].seen[2]
        /\ {f[3] : f \in {g \in db.facts : g[1] = "alias" /\ g[2] = p}} = names
        /\ {f[3] : f \in {g \in db.facts : g[1] = "link" /\ g[2] = p}}
                = {Find(db, "domain", k) : k \in keys}
        /\ (db.people[p].name = None) = (names = {})

\* The sightings that are done for the database are those of the stored mails.
LEMMA StoredDuties ==
    ASSUME GraphInv
    PROVE  /\ IngestInv
           /\ \A duty \in Duty : \A s \in StoredSighting : Covered(db, s, duty)
           /\ Sound(db, StoredSighting)
<1>1. IngestInv /\ Graph(db, Passed(db, NoRows, Idle))
  BY DEF GraphInv, MailsInv, GraphInvOf
<1>2. ASSUME NEW duty \in Duty PROVE Passed(db, NoRows, Idle)[duty] = StoredSighting
  <2>1. \A s \in Sighting : Passes(db, NoRows, Idle, duty, s) <=> HasMessage(db.facts, s[1])
    BY NoMessage, IdleStands DEF Passes
  <2>2. QED
    BY <2>1 DEF Passed, StoredSighting
<1>3. "person" \in Duty
  BY DEF Duty
<1>4. PICK S : S = Passed(db, NoRows, Idle)
  OBVIOUS
<1>5. Graph(db, S) /\ \A duty \in Duty : S[duty] = StoredSighting
  BY <1>1, <1>2, <1>4
<1>6. QED
  BY <1>1, <1>3, <1>5 DEF Graph

\* A person's sightings are paid for with that person.
LEMMA KeptByPerson ==
    ASSUME GraphInv, NEW p \in DOMAIN db.people, NEW s \in Of(db, StoredSighting, p)
    PROVE  \A duty \in Duty : Kept(db, s, duty, p)
<1>1. s \in StoredSighting /\ PersonEmail(AddressAt(s), p) \in db.facts
  BY DEF Of
<1>2. ASSUME NEW duty \in Duty PROVE Kept(db, s, duty, p)
  <2>1. Covered(db, s, duty)
    BY <1>1, StoredDuties
  <2>2. PICK q : PersonEmail(AddressAt(s), q) \in db.facts /\ Kept(db, s, duty, q)
    BY <2>1 DEF Covered
  <2>3. q = p
    BY <1>1, <2>2, StoredDuties, Committed
  <2>4. QED
    BY <2>2, <2>3
<1>3. QED
  BY <1>2

\* A company key of the database is found as its one company.
LEMMA CompanyFound ==
    ASSUME IngestInv, NEW k, NEW c, CompanyDomain(k, c) \in db.facts
    PROVE  Find(db, "domain", k) = c
<1>1. \A b : CompanyDomain(k, b) \in db.facts => b = c
  BY Committed
<1>2. \A f \in db.facts : IsFact(f)
  BY Committed
<1>3. QED
  BY <1>1, <1>2, FindDomain

\* Person by person, the graph is what the sightings say.
LEMMA PersonSaid ==
    ASSUME GraphInv, NEW p \in DOMAIN db.people
    PROVE  PersonMatches(p, Of(db, StoredSighting, p))
<1> DEFINE Q == Of(db, StoredSighting, p)
           row == db.people[p]
           times == {SeenAt[s[1]] : s \in Q} \ {None}
           names == {Participants[s[1]][s[2]].name : s \in Q} \ {None}
           keys == {ObservedCompany(Participants[s[1]][s[2]].address) : s \in Q} \ {None}
           aliases == {f[3] : f \in {g \in db.facts : g[1] = "alias" /\ g[2] = p}}
           links == {f[3] : f \in {g \in db.facts : g[1] = "link" /\ g[2] = p}}
<1>1. IngestInv /\ Sound(db, StoredSighting) /\ p \in Id /\ \A f \in db.facts : IsFact(f)
  BY StoredDuties, Committed
<1>2. RowSound(db, StoredSighting, p, row)
  BY <1>1 DEF Sound
<1>3. \A s \in Q : \A duty \in Duty : Kept(db, s, duty, p)
  BY KeptByPerson
<1>4. /\ \A s \in Q : NameAt(s) = Participants[s[1]][s[2]].name
      /\ \A s \in Q : CompanyAt(s) = ObservedCompany(Participants[s[1]][s[2]].address)
  BY DEF NameAt, CompanyAt, AddressAt
<1>5. \A n : n \in names <=> n # None /\ \E s \in Q : NameAt(s) = n
  BY <1>4
<1>6. \A k : k \in keys <=> k # None /\ \E s \in Q : CompanyAt(s) = k
  BY <1>4
<1>7. PICK x \in Q : TRUE
  BY <1>2 DEF RowSound
<1>8. \A s \in Q : SeenAt[s[1]] # None
            => row.seen # None /\ row.seen[1] <= SeenAt[s[1]] /\ SeenAt[s[1]] <= row.seen[2]
  <2>1. "seen" \in Duty
    BY DEF Duty
  <2>2. \A s \in Q : Kept(db, s, "seen", p)
    BY <1>3, <2>1
  <2>3. QED
    BY <2>2 DEF Kept
<1>9. row.seen # None
            => /\ row.seen[1] # None /\ \E s \in Q : SeenAt[s[1]] = row.seen[1]
               /\ row.seen[2] # None /\ \E s \in Q : SeenAt[s[1]] = row.seen[2]
  <2>1. row \in PersonRow
    BY <1>1, Committed, PeopleRows
  <2>2. row.seen # None => row.seen[1] \in Nat /\ row.seen[2] \in Nat
    BY <2>1 DEF PersonRow
  <2>3. QED
    BY <1>2, <2>2, IngestAssumption DEF RowSound
<1>10. /\ Q # {}
       /\ IF times = {} THEN row.seen = None
          ELSE /\ {row.seen[1], row.seen[2]} \subseteq times
               /\ \A t \in times : row.seen[1] <= t /\ t <= row.seen[2]
  <2> HIDE DEF Q, row
  <2>1. \A t : t \in times <=> t # None /\ \E s \in Q : SeenAt[s[1]] = t
    OBVIOUS
  <2> HIDE DEF times
  <2>2. CASE times = {}
    BY <1>7, <1>9, <2>1, <2>2
  <2>3. CASE times # {}
    <3>1. row.seen # None
      BY <1>8, <2>1, <2>3
    <3>2. row.seen[1] \in times /\ row.seen[2] \in times
      BY <1>9, <2>1, <3>1
    <3>3. \A t \in times : row.seen[1] <= t /\ t <= row.seen[2]
      BY <1>8, <2>1
    <3>4. QED
      BY <1>7, <2>3, <3>2, <3>3
  <2>4. QED
    BY <2>2, <2>3
<1>11. ASSUME NEW s \in Q, NameAt(s) # None
       PROVE  row.name # None /\ PersonAlias(p, NameAt(s)) \in db.facts
  <2>1. "name" \in Duty /\ "alias" \in Duty
    BY DEF Duty
  <2>2. Kept(db, s, "name", p) /\ Kept(db, s, "alias", p)
    BY <1>3, <2>1
  <2>3. QED
    BY <1>11, <2>2 DEF Kept
<1>12. aliases = names
  <2>1. ASSUME NEW g \in db.facts, g[1] = "alias", g[2] = p PROVE g[3] \in names
    <3>1. g[3] \in Name /\ g = PersonAlias(p, g[3])
      BY <1>1, <2>1, GraphFacts
    <3>2. AliasSound(db, StoredSighting, p, g[3])
      BY <1>1, <3>1 DEF Sound
    <3>3. g[3] # None
      BY <3>1, IngestAssumption
    <3>4. QED
      BY <1>5, <3>2, <3>3 DEF AliasSound
  <2>2. ASSUME NEW n \in names PROVE n \in aliases
    <3>1. PICK s \in Q : NameAt(s) = n /\ n # None
      BY <1>5
    <3>2. PersonAlias(p, n) \in db.facts
      BY <1>11, <3>1
    <3>3. PersonAlias(p, n)[1] = "alias" /\ PersonAlias(p, n)[2] = p /\ PersonAlias(p, n)[3] = n
      BY DEF PersonAlias
    <3>4. QED
      BY <3>2, <3>3
  <2> HIDE DEF names
  <2>3. QED
    BY <2>1, <2>2
<1>13. links = {Find(db, "domain", k) : k \in keys}
  <2>1. ASSUME NEW g \in db.facts, g[1] = "link", g[2] = p
        PROVE  \E k \in keys : Find(db, "domain", k) = g[3]
    <3>1. g[3] \in Id /\ g = PersonCompany(p, g[3])
      BY <1>1, <2>1, GraphFacts
    <3>2. LinkSound(db, StoredSighting, p, g[3])
      BY <1>1, <3>1 DEF Sound
    <3>3. PICK s \in Q : CompanyAt(s) # None /\ CompanyDomain(CompanyAt(s), g[3]) \in db.facts
      BY <3>2 DEF LinkSound
    <3>4. CompanyAt(s) \in keys
      BY <1>6, <3>3
    <3>5. Find(db, "domain", CompanyAt(s)) = g[3]
      BY <1>1, <3>3, CompanyFound
    <3>6. QED
      BY <3>4, <3>5
  <2>2. ASSUME NEW k \in keys PROVE Find(db, "domain", k) \in links
    <3>1. PICK s \in Q : CompanyAt(s) = k /\ k # None
      BY <1>6
    <3>2. "link" \in Duty
      BY DEF Duty
    <3>3. Kept(db, s, "link", p)
      BY <1>3, <3>2
    <3>4. PICK c \in Id : CompanyDomain(k, c) \in db.facts /\ PersonCompany(p, c) \in db.facts
      BY <3>1, <3>3 DEF Kept
    <3>5. Find(db, "domain", k) = c
      BY <1>1, <3>4, CompanyFound
    <3>6. /\ PersonCompany(p, c)[1] = "link" /\ PersonCompany(p, c)[2] = p
          /\ PersonCompany(p, c)[3] = c
      BY DEF PersonCompany
    <3>7. QED
      BY <3>4, <3>5, <3>6
  <2> HIDE DEF keys
  <2>3. QED
    BY <2>1, <2>2
<1>14. row.name = None <=> names = {}
  <2>1. row.name # None => names # {}
    BY <1>2, <1>5 DEF RowSound
  <2>2. names # {} => row.name # None
    BY <1>5, <1>11
  <2>3. QED
    BY <2>1, <2>2
<1> HIDE DEF Q, row, times, names, keys, aliases, links
<1>15. QED
  BY <1>10, <1>12, <1>13, <1>14 DEF PersonMatches, Q, row, times, names, keys, aliases, links

\* The graph of the committed rows says what the stored mails say: keys and
\* entities are one to one, a person's name, aliases and links are exactly those
\* of the mails that name them, and their window is that of the dated ones (none
\* if no mail has a date), whatever the caches let the resolver skip and
\* whatever was rolled back.
THEOREM GraphTellsWhatMailSays == Spec => []GraphMatchesMail
<1>1. ASSUME GraphInv PROVE GraphMatchesMail
  <2>1. KeysMatchEntities
    BY <1>1, StoredDuties, KeysMatch
  <2>2. ASSUME NEW p \in DOMAIN db.people PROVE PersonMatches(p, SightingsOf(p))
    <3>1. SightingsOf(p) = Of(db, StoredSighting, p)
      BY <1>1, StoredDuties, SightingsFound
    <3>2. QED
      BY <1>1, <3>1, PersonSaid
  <2>3. QED
    BY <2>1, <2>2 DEF GraphMatchesMail, PersonMatches, SightingsOf
<1>2. QED
  BY <1>1, GraphInvariant, PTL

=============================================================================
