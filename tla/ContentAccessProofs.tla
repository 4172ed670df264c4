------------------------- MODULE ContentAccessProofs -------------------------
(***************************************************************************)
(* Proofs about ContentAccess, for any organizations, people, messages,    *)
(* bindings, requests and pooled connections.                              *)
(***************************************************************************)
EXTENDS ContentAccess, TLAPS

Parts    == {"message", "children"}
Deriving == [at : {"derived"}, message : Message, alone : BOOLEAN,
             principals : SUBSET AclGrant]
Granting == [at : {"granted"}, message : Message, alone : BOOLEAN,
             principals : SUBSET AclGrant, new : SUBSET AclGrant]
Locating == [at : {"located"}, message : Message, user : User, scope : Scope]
Session  == [at : {"resolved", "reading"}, user : User,
             served : SUBSET (Message \X Parts), persons : SUBSET Person]
Pooled   == [role : {ReaderRole, GlobalRole}, by : Reader \cup {None},
             scope : [org : Org \cup {None}, person : Person \cup {None}]]

WriterStates == {Idle} \cup Deriving \cup Granting \cup Locating
ReaderStates == {Idle} \cup Session

\* The types the proofs need.
Shapes == /\ verified \subseteq everVerified /\ everVerified \subseteq Binding
          /\ grants \subseteq AclGrant
          /\ content \in [Message -> ContentRow]
          /\ promotions \in [Message -> VisibilityPromotion]
          /\ pool \in [Connection -> Pooled]
          /\ req \in [Writer \cup Reader -> WriterStates \cup ReaderStates]
          /\ \A r \in Writer : req[r] \in WriterStates
          /\ \A r \in Reader : req[r] \in ReaderStates

\* Whoever an identity verified at some time makes a principal of the message.
RightHolders(m) == Persons(DerivePrincipalRoles(everVerified, m))

\* A live grant is a right holder's, and so is one a request is about to insert.
GrantsAreRightful == \A g \in grants : g.person \in RightHolders(g.message)
DerivationsAreRightful == \A r \in Writer : Reconciling(r) =>
    \A g \in req[r].principals : /\ g.message = req[r].message
                                 /\ g.person \in RightHolders(g.message)
InsertsAreDerived == \A r \in Writer : req[r].at = "granted" =>
    req[r].new \subseteq req[r].principals

\* Nothing moved under a reconciliation that is alone.
AloneIsCurrent == \A r \in Writer : Reconciling(r) /\ req[r].alone =>
    LET m == req[r].message IN
    /\ req[r].principals = DerivePrincipalRoles(verified, m)
    /\ req[r].at = "granted" =>
          req[r].new = {g \in req[r].principals : g.person \notin Persons(LiveGrants(m))}

\* A message and its children have one scope.
ScopesAgree == \A m \in Message : content[m].children = content[m].message

\* A pooled connection in a transaction is the reader role's and carries the
\* scope of its one session; outside it carries none.
PoolIsBound ==
    /\ \A k \in Connection : pool[k].by = None => pool[k].scope = Unbound
    /\ \A k \in Connection : pool[k].by # None =>
          /\ pool[k].role = ReaderRole /\ req[pool[k].by].at = "reading"
          /\ pool[k].scope = [org |-> OrgOf[req[pool[k].by].user],
                              person |-> BoundPerson(pool[k].by)]
    /\ \A k, j \in Connection : pool[k].by = pool[j].by /\ pool[k].by # None => k = j

\* A session acts for a person its user's login was verified to be.
PersonsAreVerified == \A r \in Reader : req[r].at # "idle" =>
    \A p \in req[r].persons : \E b \in everVerified :
        b.source = "auth" /\ b.external = req[r].user /\ b.person = p

AccessInv == /\ Shapes /\ GrantsAreRightful /\ DerivationsAreRightful /\ InsertsAreDerived
             /\ AloneIsCurrent /\ ScopesAgree /\ PoolIsBound /\ PersonsAreVerified
             /\ PromotionIsOnRecord /\ NothingLeaks

----------------------------------------------------------------------------
\* The persons the derivation finds, and the person of each grant it makes.
LEMMA DerivedPersons ==
    ASSUME NEW B, NEW m
    PROVE  Persons(DerivePrincipalRoles(B, m)) =
              VerifiedPersons(B, m, "auth", {OwnerOf[m]} \ {None})
              \cup VerifiedPersons(B, m, "email", {SenderOf[m]})
              \cup VerifiedPersons(B, m, "email", RecipientsOf[m] \ {SenderOf[m]})
<1> DEFINE O == VerifiedPersons(B, m, "auth", {OwnerOf[m]} \ {None})
           S == VerifiedPersons(B, m, "email", {SenderOf[m]})
           R == VerifiedPersons(B, m, "email", RecipientsOf[m] \ {SenderOf[m]})
           role(p) == IF p \in O THEN "owner" ELSE IF p \in S THEN "sender" ELSE "recipient"
<1>1. DerivePrincipalRoles(B, m) =
         {[message |-> m, person |-> p, provenance |-> role(p)] : p \in O \cup S \cup R}
  BY DEF DerivePrincipalRoles
<1> HIDE DEF O, S, R, role
<1>2. Persons(DerivePrincipalRoles(B, m)) = O \cup S \cup R
  <2>1. \A g \in DerivePrincipalRoles(B, m) : g.person \in O \cup S \cup R
    BY <1>1
  <2>2. ASSUME NEW p \in O \cup S \cup R
        PROVE  \E g \in DerivePrincipalRoles(B, m) : g.person = p
    <3>1. [message |-> m, person |-> p, provenance |-> role(p)] \in DerivePrincipalRoles(B, m)
      BY <1>1
    <3>2. QED
      BY <3>1
  <2>3. QED
    BY <2>1, <2>2 DEF Persons
<1>3. QED
  BY <1>2 DEF O, S, R

\* Grants are made for the message, to persons with verified bindings.
LEMMA DerivedGrants ==
    ASSUME NEW B \in SUBSET Binding, NEW m \in Message
    PROVE  /\ DerivePrincipalRoles(B, m) \subseteq AclGrant
           /\ \A g \in DerivePrincipalRoles(B, m) :
                 /\ g.message = m
                 /\ g.person \in Persons(DerivePrincipalRoles(B, m))
<1> DEFINE O == VerifiedPersons(B, m, "auth", {OwnerOf[m]} \ {None})
           S == VerifiedPersons(B, m, "email", {SenderOf[m]})
           R == VerifiedPersons(B, m, "email", RecipientsOf[m] \ {SenderOf[m]})
           role(p) == IF p \in O THEN "owner" ELSE IF p \in S THEN "sender" ELSE "recipient"
<1>1. \A b \in B : b.person \in Person
  BY AccessAssumption DEF SourceIdentity
<1>2. O \subseteq Person /\ S \subseteq Person /\ R \subseteq Person
  BY <1>1 DEF VerifiedPersons
<1>3. \A p : role(p) \in Provenance
  BY DEF Provenance
<1>4. DerivePrincipalRoles(B, m) =
         {[message |-> m, person |-> p, provenance |-> role(p)] : p \in O \cup S \cup R}
  BY DEF DerivePrincipalRoles
<1> HIDE DEF O, S, R, role
<1>5. DerivePrincipalRoles(B, m) \subseteq AclGrant
  BY <1>2, <1>3, <1>4 DEF AclGrant
<1>6. QED
  BY <1>4, <1>5 DEF Persons

\* More bindings make more right holders.
LEMMA RightsGrow ==
    ASSUME NEW B, NEW C, B \subseteq C, NEW m
    PROVE  Persons(DerivePrincipalRoles(B, m)) \subseteq Persons(DerivePrincipalRoles(C, m))
<1>1. \A source, externals :
         VerifiedPersons(B, m, source, externals) \subseteq VerifiedPersons(C, m, source, externals)
  BY DEF VerifiedPersons
<1>2. QED
  BY <1>1, DerivedPersons

----------------------------------------------------------------------------
\* A step that only takes a reconciliation's solitude away, or ends one.
LEMMA DisturbedShape ==
    ASSUME Shapes
    PROVE  /\ Disturbed \in [Writer \cup Reader -> WriterStates \cup ReaderStates]
           /\ \A r \in Writer : Disturbed[r] \in WriterStates
           /\ \A r \in Reader : Disturbed[r] = req[r]
           /\ \A r \in Writer : \/ Disturbed[r] = req[r] /\ ~Reconciling(r)
                                \/ /\ Reconciling(r)
                                   /\ Disturbed[r] = [req[r] EXCEPT !.alone = FALSE]
                                   /\ Disturbed[r].at = req[r].at
                                   /\ Disturbed[r].message = req[r].message
                                   /\ Disturbed[r].principals = req[r].principals
                                   /\ Disturbed[r].at = "granted" => Disturbed[r].new = req[r].new
                                   /\ Disturbed[r].alone = FALSE
<1>1. /\ DOMAIN req = Writer \cup Reader
      /\ \A r \in Writer : req[r] \in WriterStates
      /\ \A r \in Reader : req[r] \in ReaderStates
  BY DEF Shapes
<1>2. \A r \in Reader : ~Reconciling(r)
  BY <1>1 DEF Reconciling, ReaderStates, Session, Idle
<1>3. ASSUME NEW r \in Writer, Reconciling(r)
      PROVE  req[r] \in Deriving \cup Granting
  BY <1>1, <1>3 DEF Reconciling, WriterStates, Idle, Locating
<1>4. ASSUME NEW r \in Writer, Reconciling(r)
      PROVE  /\ [req[r] EXCEPT !.alone = FALSE] \in Deriving \cup Granting
             /\ [req[r] EXCEPT !.alone = FALSE].at = req[r].at
             /\ [req[r] EXCEPT !.alone = FALSE].message = req[r].message
             /\ [req[r] EXCEPT !.alone = FALSE].principals = req[r].principals
             /\ req[r].at = "granted" => [req[r] EXCEPT !.alone = FALSE].new = req[r].new
             /\ [req[r] EXCEPT !.alone = FALSE].alone = FALSE
  <2>1. CASE req[r] \in Deriving
    BY <2>1 DEF Deriving
  <2>2. CASE req[r] \in Granting
    BY <2>2 DEF Granting
  <2>3. QED
    BY <1>3, <1>4, <2>1, <2>2
<1>5. \A r \in Writer \cup Reader :
         Disturbed[r] = IF Reconciling(r) THEN [req[r] EXCEPT !.alone = FALSE] ELSE req[r]
  BY <1>1 DEF Disturbed
<1>6. Disturbed = [r \in Writer \cup Reader |-> Disturbed[r]]
  BY <1>1 DEF Disturbed
<1>7. \A r \in Writer : Disturbed[r] \in WriterStates
  BY <1>1, <1>4, <1>5 DEF WriterStates
<1>8. \A r \in Reader : Disturbed[r] = req[r]
  BY <1>2, <1>5
<1>9. Disturbed \in [Writer \cup Reader -> WriterStates \cup ReaderStates]
  BY <1>1, <1>6, <1>7, <1>8
<1>10. \A r \in Writer :
         \/ Disturbed[r] = req[r] /\ ~Reconciling(r)
         \/ Reconciling(r) /\ Disturbed[r] = [req[r] EXCEPT !.alone = FALSE]
  BY <1>5
<1>11. ASSUME NEW r \in Writer, Reconciling(r)
       PROVE  /\ Disturbed[r].at = req[r].at /\ Disturbed[r].message = req[r].message
              /\ Disturbed[r].principals = req[r].principals
              /\ Disturbed[r].at = "granted" => Disturbed[r].new = req[r].new
              /\ Disturbed[r].alone = FALSE
  <2>1. PICK x : x = [req[r] EXCEPT !.alone = FALSE]
    OBVIOUS
  <2>2. /\ x.at = req[r].at /\ x.message = req[r].message
        /\ x.principals = req[r].principals
        /\ req[r].at = "granted" => x.new = req[r].new
        /\ x.alone = FALSE
    BY <1>4, <1>11, <2>1
  <2>3. Disturbed[r] = x
    BY <1>10, <1>11, <2>1
  <2>4. QED
    BY <2>2, <2>3
<1>12. ASSUME NEW r \in Writer
       PROVE  \/ Disturbed[r] = req[r] /\ ~Reconciling(r)
              \/ /\ Reconciling(r)
                 /\ Disturbed[r] = [req[r] EXCEPT !.alone = FALSE]
                 /\ Disturbed[r].at = req[r].at
                 /\ Disturbed[r].message = req[r].message
                 /\ Disturbed[r].principals = req[r].principals
                 /\ Disturbed[r].at = "granted" => Disturbed[r].new = req[r].new
                 /\ Disturbed[r].alone = FALSE
  <2>1. CASE Reconciling(r)
    BY <1>10, <1>11, <2>1
  <2>2. CASE ~Reconciling(r)
    BY <1>10, <2>2
  <2>3. QED
    BY <2>1, <2>2
<1>13. QED
  BY <1>7, <1>8, <1>9, <1>12

\* What a caller is entitled to, it stays entitled to.
LEMMA EntitlementGrows ==
    ASSUME everVerified \subseteq everVerified',
           \A m \in Message : promotions'[m] = promotions[m] \/ promotions[m] = <<>>
    PROVE  \A u \in User, m \in Message : Entitled(u, m) => Entitled(u, m)'
<1>1. ASSUME NEW u \in User, NEW m \in Message, Entitled(u, m)
      PROVE  Entitled(u, m)'
  <2>2. Persons(DerivePrincipalRoles(everVerified, m))
           \subseteq Persons(DerivePrincipalRoles(everVerified', m))
    <3>1. PICK B, C : B = everVerified /\ C = everVerified'
      OBVIOUS
    <3>2. QED
      BY <3>1, RightsGrow
  <2>3. CASE \E i \in DOMAIN promotions[m] : promotions[m][i] = OwnerOf[m]
    BY <1>1, <2>3 DEF Entitled
  <2>4. CASE \E b \in everVerified :
               /\ b.source = "auth" /\ b.external = u
               /\ b.person \in Persons(DerivePrincipalRoles(everVerified, m))
    BY <1>1, <2>2, <2>4 DEF Entitled
  <2>5. QED
    BY <1>1, <2>3, <2>4 DEF Entitled
<1>2. QED
  BY <1>1

----------------------------------------------------------------------------
\* What the sessions rely on: their own states, the pool, and rights that only grow.
LEMMA WritersQuiet ==
    ASSUME AccessInv, \A r \in Reader : req'[r] = req[r], UNCHANGED pool,
           everVerified \subseteq everVerified',
           \A m \in Message : promotions'[m] = promotions[m] \/ promotions[m] = <<>>
    PROVE  PoolIsBound' /\ PersonsAreVerified' /\ NothingLeaks'
<1>1. PoolIsBound'
  <2>1. \A k \in Connection : pool[k].by # None => pool[k].by \in Reader
    BY DEF AccessInv, Shapes, Pooled
  <2>2. \A r \in Reader : BoundPerson(r)' = BoundPerson(r)
    <3>1. ASSUME NEW r \in Reader
          PROVE  BoundPerson(r)' = BoundPerson(r)
      <4>1. PICK P : P = req[r].persons /\ P = req'[r].persons
        OBVIOUS
      <4>2. QED
        BY <4>1 DEF BoundPerson
    <3>2. QED
      BY <3>1
  <2>3. QED
    BY <2>1, <2>2 DEF AccessInv, PoolIsBound
<1>2. PersonsAreVerified'
  BY DEF AccessInv, PersonsAreVerified
<1>3. NothingLeaks'
  <2>1. \A u \in User, m \in Message : Entitled(u, m) => Entitled(u, m)'
    BY EntitlementGrows
  <2>2. ASSUME NEW r \in Reader, NEW row, req'[r].at # "idle", row \in req'[r].served,
               NEW u, u = req'[r].user
        PROVE  Entitled(u, row[1])'
    <3>1. req[r].user \in User /\ row[1] \in Message
      <4>1. req[r] \in Session
        BY <2>2 DEF AccessInv, Shapes, ReaderStates, Idle
      <4>2. QED
        BY <2>2, <4>1 DEF Session
    <3>2. Entitled(req[r].user, row[1])
      BY <2>2 DEF AccessInv, NothingLeaks
    <3>3. u \in User /\ Entitled(u, row[1])
      BY <2>2, <3>1, <3>2
    <3>4. QED
      BY <2>1, <3>1, <3>3
  <2>3. QED
    BY <2>2 DEF NothingLeaks, Entitled
<1>4. QED
  BY <1>1, <1>2, <1>3

\* What the writers rely on, kept by every step of a session.
LEMMA ReadersQuiet ==
    ASSUME AccessInv, \A r \in Writer : req'[r] = req[r],
           UNCHANGED <<verified, everVerified, grants, content, promotions>>
    PROVE  /\ GrantsAreRightful' /\ DerivationsAreRightful' /\ InsertsAreDerived'
           /\ AloneIsCurrent' /\ ScopesAgree' /\ PromotionIsOnRecord'
<1>1. GrantsAreRightful' /\ ScopesAgree' /\ PromotionIsOnRecord'
  BY DEF AccessInv, GrantsAreRightful, RightHolders, ScopesAgree, PromotionIsOnRecord
<1>2. DerivationsAreRightful'
  BY DEF AccessInv, DerivationsAreRightful, RightHolders, Reconciling
<1>3. InsertsAreDerived'
  BY DEF AccessInv, InsertsAreDerived
<1>4. AloneIsCurrent'
  <2>1. ASSUME NEW r \in Writer, NEW q, q = req[r], q = req'[r],
               q.at \in {"derived", "granted"}, q.alone
        PROVE  /\ q.principals = DerivePrincipalRoles(verified', q.message)
               /\ q.at = "granted" => q.new =
                     {g \in q.principals : g.person \notin Persons(LiveGrants(q.message))}
    BY <2>1 DEF AccessInv, AloneIsCurrent, Reconciling
  <2>2. \A m : LiveGrants(m)' = LiveGrants(m)
    BY DEF LiveGrants
  <2>3. ASSUME NEW r \in Writer, Reconciling(r)', req'[r].alone
        PROVE  /\ req'[r].principals = DerivePrincipalRoles(verified', req'[r].message)
               /\ req'[r].at = "granted" => req'[r].new =
                     {g \in req'[r].principals :
                        g.person \notin Persons({x \in grants' : x.message = req'[r].message})}
    <3>1. PICK q : q = req'[r]
      OBVIOUS
    <3>2. q.at \in {"derived", "granted"} /\ q.alone
      BY <2>3, <3>1 DEF Reconciling
    <3>3. q = req[r]
      BY <3>1
    <3>4. /\ q.principals = DerivePrincipalRoles(verified', q.message)
          /\ q.at = "granted" => q.new =
                {g \in q.principals : g.person \notin Persons(LiveGrants(q.message))}
      BY <2>1, <3>1, <3>2, <3>3
    <3>5. LiveGrants(q.message) = {x \in grants' : x.message = q.message}
      BY DEF LiveGrants
    <3>6. QED
      BY <3>1, <3>4, <3>5
  <2>4. QED
    BY <2>3 DEF AloneIsCurrent, LiveGrants
<1>5. QED
  BY <1>1, <1>2, <1>3, <1>4

\* A step of one writer that leaves what the others derived from alone.
LEMMA OthersKeep ==
    ASSUME AccessInv, NEW r \in Writer, NEW q \in WriterStates,
           req' = [req EXCEPT ![r] = q],
           UNCHANGED <<verified, everVerified, grants, pool>>,
           content' \in [Message -> ContentRow],
           promotions' \in [Message -> VisibilityPromotion],
           \A m \in Message : promotions'[m] = promotions[m] \/ promotions[m] = <<>>,
           ScopesAgree', PromotionIsOnRecord',
           q.at \in {"derived", "granted"} =>
              /\ \A g \in q.principals : g.message = q.message /\ g.person \in RightHolders(g.message)
              /\ q.at = "granted" => q.new \subseteq q.principals
              /\ q.alone =>
                    /\ q.principals = DerivePrincipalRoles(verified, q.message)
                    /\ q.at = "granted" => q.new =
                          {g \in q.principals : g.person \notin Persons(LiveGrants(q.message))}
    PROVE  AccessInv'
<1>1. /\ req' \in [Writer \cup Reader -> WriterStates \cup ReaderStates]
      /\ \A s \in Writer \cup Reader : req'[s] = IF s = r THEN q ELSE req[s]
  BY DEF AccessInv, Shapes
<1>2. \A s \in Reader : req'[s] = req[s]
  BY <1>1, AccessAssumption
<1>3. Shapes'
  BY <1>1, <1>2 DEF AccessInv, Shapes
<1>4. GrantsAreRightful'
  BY DEF AccessInv, GrantsAreRightful, RightHolders
<1>5. DerivationsAreRightful'
  BY <1>1 DEF AccessInv, DerivationsAreRightful, RightHolders, Reconciling
<1>6. InsertsAreDerived'
  BY <1>1 DEF AccessInv, InsertsAreDerived
<1>7. AloneIsCurrent'
  BY <1>1 DEF AccessInv, AloneIsCurrent, LiveGrants, Reconciling
<1>8. QED
  BY <1>2, <1>3, <1>4, <1>5, <1>6, <1>7, WritersQuiet DEF AccessInv

\* A step after which no reconciliation is alone with what it derived from.
LEMMA DisturbKeeps ==
    ASSUME AccessInv, \A s \in Reader : req'[s] = req[s],
           req' \in [Writer \cup Reader -> WriterStates \cup ReaderStates],
           \A s \in Writer : req'[s] \in {Idle, Disturbed[s]},
           verified' \subseteq everVerified', everVerified' \subseteq Binding,
           everVerified \subseteq everVerified',
           grants' \subseteq AclGrant,
           \A g \in grants' : g.person \in RightHolders(g.message),
           UNCHANGED <<content, promotions, pool>>
    PROVE  AccessInv'
<1>1. /\ Idle \in WriterStates /\ Idle.at = "idle"
      /\ \A s \in Writer : Disturbed[s] \in WriterStates
  BY DisturbedShape DEF AccessInv, WriterStates, Idle
<1>2. \A s \in Reader : req'[s] \in ReaderStates
  BY DEF AccessInv, Shapes
<1>3. Shapes'
  BY <1>1, <1>2 DEF AccessInv, Shapes
<1>4. \A m : RightHolders(m) \subseteq RightHolders(m)'
  <2>1. PICK B, C : B = everVerified /\ C = everVerified'
    OBVIOUS
  <2>2. QED
    BY <2>1, RightsGrow DEF RightHolders
<1>5. GrantsAreRightful'
  BY <1>4 DEF GrantsAreRightful
<1>6. \A s \in Writer : req'[s].at \in {"derived", "granted"} =>
         /\ Reconciling(s) /\ req'[s].at = req[s].at
         /\ req'[s].message = req[s].message /\ req'[s].principals = req[s].principals
         /\ req'[s].at = "granted" => req'[s].new = req[s].new
         /\ req'[s].alone = FALSE
  <2>1. ASSUME NEW s \in Writer, req'[s].at \in {"derived", "granted"}
        PROVE  /\ Reconciling(s) /\ req'[s].at = req[s].at
               /\ req'[s].message = req[s].message /\ req'[s].principals = req[s].principals
               /\ req'[s].at = "granted" => req'[s].new = req[s].new
               /\ req'[s].alone = FALSE
    <3>1. req'[s] = Disturbed[s]
      BY <1>1, <2>1
    <3>2. Shapes
      BY DEF AccessInv
    <3>3. CASE ~Reconciling(s)
      <4>1. Disturbed[s] = req[s]
        BY <3>2, <3>3, DisturbedShape
      <4>2. QED
        BY <2>1, <3>1, <3>3, <4>1 DEF Reconciling
    <3>4. CASE Reconciling(s)
      BY <3>1, <3>2, <3>4, DisturbedShape
    <3>5. QED
      BY <3>3, <3>4
  <2>2. QED
    BY <2>1
<1>7. DerivationsAreRightful'
  BY <1>4, <1>6 DEF AccessInv, DerivationsAreRightful, Reconciling
<1>8. InsertsAreDerived'
  BY <1>6 DEF AccessInv, InsertsAreDerived
<1>9. AloneIsCurrent'
  BY <1>6 DEF AloneIsCurrent, Reconciling
<1>10. ScopesAgree' /\ PromotionIsOnRecord'
  BY DEF AccessInv, ScopesAgree, PromotionIsOnRecord
<1>11. QED
  BY <1>3, <1>5, <1>7, <1>8, <1>9, <1>10, WritersQuiet DEF AccessInv

----------------------------------------------------------------------------
\* Identities come and go, and a withdrawn person's grants are tombstoned.
LEMMA IdentityKeeps ==
    ASSUME AccessInv,
           \/ \E b \in Binding : Verify(b) \/ Withdraw(b)
           \/ \E p \in Person : TombstoneForPerson(p)
    PROVE  AccessInv'
<1>1. /\ req' = Disturbed /\ grants' \subseteq grants
      /\ verified' \subseteq everVerified' /\ everVerified' \subseteq Binding
      /\ everVerified \subseteq everVerified'
      /\ UNCHANGED <<content, promotions, pool>>
  BY DEF Verify, Withdraw, TombstoneForPerson, AccessInv, Shapes
<1>2. /\ \A s \in Reader : req'[s] = req[s]
      /\ req' \in [Writer \cup Reader -> WriterStates \cup ReaderStates]
  BY <1>1, DisturbedShape DEF AccessInv
<1>3. grants' \subseteq AclGrant /\ \A g \in grants' : g.person \in RightHolders(g.message)
  BY <1>1 DEF AccessInv, Shapes, GrantsAreRightful
<1>4. QED
  BY <1>1, <1>2, <1>3, DisturbKeeps

\* What a writer's slot holds in a reconciliation.
LEMMA ReconcilingShape ==
    ASSUME Shapes, NEW r \in Writer
    PROVE  /\ req[r].at = "derived" => req[r] \in Deriving
           /\ req[r].at = "granted" => req[r] \in Granting
           /\ req[r].at = "located" => req[r] \in Locating
  BY DEF Shapes, WriterStates, Idle, Deriving, Granting, Locating

\* A writer's slot is freed without a write.
LEMMA GiveUpKeeps ==
    ASSUME AccessInv, NEW r \in Writer, ReconcileFails(r) \/ RefusePromotion(r)
    PROVE  AccessInv'
<1>1. /\ req' = [req EXCEPT ![r] = Idle]
      /\ UNCHANGED <<verified, everVerified, grants, content, promotions, pool>>
  BY DEF ReconcileFails, RefusePromotion
<1>2. Idle \in WriterStates /\ Idle.at = "idle"
  BY DEF WriterStates, Idle
<1>3. ScopesAgree' /\ PromotionIsOnRecord'
  BY <1>1 DEF AccessInv, ScopesAgree, PromotionIsOnRecord
<1>4. PICK q \in WriterStates : q = Idle
  BY <1>2
<1>5. QED
  BY <1>1, <1>2, <1>3, <1>4, OthersKeep DEF AccessInv, Shapes

\* GrantWriter derives the principals and inserts those without a live grant.
LEMMA DeriveKeeps ==
    ASSUME AccessInv, NEW r \in Writer,
           InsertLiveGrants(r) \/ \E m \in Message : Derive(r, m)
    PROVE  AccessInv'
<1>1. ScopesAgree' /\ PromotionIsOnRecord'
  BY DEF Derive, InsertLiveGrants, AccessInv, ScopesAgree, PromotionIsOnRecord
<1>2. verified \subseteq Binding /\ verified \subseteq everVerified
  BY DEF AccessInv, Shapes
<1>3. ASSUME NEW m \in Message, Derive(r, m)
      PROVE  AccessInv'
  <2>1. PICK q : q = [at |-> "derived", message |-> m, alone |-> TRUE,
                      principals |-> DerivePrincipalRoles(verified, m)]
    OBVIOUS
  <2>2. /\ req' = [req EXCEPT ![r] = q]
        /\ UNCHANGED <<verified, everVerified, grants, content, promotions, pool>>
    BY <1>3, <2>1 DEF Derive
  <2>3. PICK B, C : B = verified /\ C = everVerified
    OBVIOUS
  <2>4. /\ DerivePrincipalRoles(B, m) \subseteq AclGrant
        /\ \A g \in DerivePrincipalRoles(B, m) :
              g.message = m /\ g.person \in Persons(DerivePrincipalRoles(B, m))
    BY <1>2, <2>3, DerivedGrants
  <2>5. Persons(DerivePrincipalRoles(B, m)) \subseteq RightHolders(m)
    BY <1>2, <2>3, RightsGrow DEF RightHolders
  <2>6. \A g \in q.principals : g.message = q.message /\ g.person \in RightHolders(g.message)
    BY <2>1, <2>3, <2>4, <2>5
  <2>7. q \in WriterStates /\ q.at = "derived" /\ q.principals = DerivePrincipalRoles(verified, q.message)
    BY <2>1, <2>3, <2>4 DEF WriterStates, Deriving
  <2>8. QED
    BY <1>1, <2>2, <2>6, <2>7, OthersKeep DEF AccessInv, Shapes
<1>4. CASE InsertLiveGrants(r)
  <2>1. req[r] \in Deriving /\ req[r].at = "derived" /\ Reconciling(r)
    BY <1>4, ReconcilingShape DEF InsertLiveGrants, AccessInv, Reconciling
  <2>2. PICK q : q = [at |-> "granted", message |-> req[r].message, alone |-> req[r].alone,
                      principals |-> req[r].principals,
                      new |-> {g \in req[r].principals :
                                  g.person \notin Persons(LiveGrants(req[r].message))}]
    OBVIOUS
  <2>3. /\ req' = [req EXCEPT ![r] = q]
        /\ UNCHANGED <<verified, everVerified, grants, content, promotions, pool>>
    BY <1>4, <2>2 DEF InsertLiveGrants
  <2>4. /\ q.at = "granted" /\ q.new \subseteq q.principals
        /\ q.new = {g \in q.principals : g.person \notin Persons(LiveGrants(q.message))}
    BY <2>2
  <2>5. q \in WriterStates
    BY <2>1, <2>2 DEF WriterStates, Deriving, Granting
  <2>6. \A g \in q.principals : g.message = q.message /\ g.person \in RightHolders(g.message)
    BY <2>1, <2>2 DEF AccessInv, DerivationsAreRightful
  <2>7. q.alone => q.principals = DerivePrincipalRoles(verified, q.message)
    BY <2>1, <2>2 DEF AccessInv, AloneIsCurrent
  <2>8. QED
    BY <1>1, <2>3, <2>4, <2>5, <2>6, <2>7, OthersKeep DEF AccessInv, Shapes
<1>5. QED
  BY <1>3, <1>4

\* The commit of a reconciliation leaves grants of right holders only.
LEMMA ReconcileKeeps ==
    ASSUME AccessInv, NEW r \in Writer, ReconcileCommits(r)
    PROVE  AccessInv'
<1>1. /\ req[r].at = "granted"
      /\ grants' \subseteq grants \cup req[r].new
      /\ req' = [Disturbed EXCEPT ![r] = Idle]
      /\ UNCHANGED <<verified, everVerified, content, promotions, pool>>
  BY DEF ReconcileCommits
<1>2. req[r] \in Granting /\ Reconciling(r)
  BY <1>1, ReconcilingShape DEF AccessInv, Reconciling
<1>3. /\ req' \in [Writer \cup Reader -> WriterStates \cup ReaderStates]
      /\ \A s \in Reader : req'[s] = req[s]
      /\ \A s \in Writer : req'[s] \in {Idle, Disturbed[s]}
  <2>1. /\ Disturbed \in [Writer \cup Reader -> WriterStates \cup ReaderStates]
        /\ \A s \in Reader : Disturbed[s] = req[s]
    BY DisturbedShape DEF AccessInv
  <2>2. Idle \in WriterStates \cup ReaderStates
    BY DEF WriterStates
  <2>3. QED
    BY <1>1, <2>1, <2>2, AccessAssumption
<1>4. \A g \in req[r].new : g \in AclGrant /\ g.person \in RightHolders(g.message)
  BY <1>1, <1>2 DEF AccessInv, InsertsAreDerived, DerivationsAreRightful, Granting
<1>5. grants' \subseteq AclGrant /\ \A g \in grants' : g.person \in RightHolders(g.message)
  BY <1>1, <1>4 DEF AccessInv, Shapes, GrantsAreRightful
<1>6. verified' \subseteq everVerified' /\ everVerified' \subseteq Binding
  BY <1>1 DEF AccessInv, Shapes
<1>7. QED
  BY <1>1, <1>3, <1>5, <1>6, DisturbKeeps

\* PromotionService locates the message, then flips it with its record.
LEMMA LocateKeeps ==
    ASSUME AccessInv, NEW r \in Writer, NEW u \in User, NEW m \in Message, Locate(r, u, m)
    PROVE  AccessInv'
<1>1. PICK q : q = [at |-> "located", message |-> m, user |-> u, scope |-> content[m].message]
  OBVIOUS
<1>2. /\ req' = [req EXCEPT ![r] = q]
      /\ UNCHANGED <<verified, everVerified, grants, content, promotions, pool>>
  BY <1>1 DEF Locate
<1>3. q \in WriterStates /\ q.at = "located"
  BY <1>1 DEF AccessInv, Shapes, ContentRow, WriterStates, Locating
<1>4. ScopesAgree' /\ PromotionIsOnRecord'
  BY <1>2 DEF AccessInv, ScopesAgree, PromotionIsOnRecord
<1>5. QED
  BY <1>2, <1>3, <1>4, OthersKeep DEF AccessInv, Shapes

\* The UPDATE's own predicate: the flip finds the message restricted, so it has no
\* promotion row yet.
LEMMA PromoteFlips ==
    ASSUME AccessInv, NEW r \in Writer, Promote(r)
    PROVE  \E m \in Message :
              /\ OwnerOf[m] # None /\ promotions[m] = <<>>
              /\ promotions' = [promotions EXCEPT ![m] = <<OwnerOf[m]>>]
              /\ content' = [content EXCEPT ![m] = [message |-> "org", children |-> "org"]]
              /\ OwnerOf[m] \in User
<1>1. PICK m : m = req[r].message
  OBVIOUS
<1>2. PICK u : u = req[r].user
  OBVIOUS
<1>3. m \in Message /\ u \in User
  BY <1>1, <1>2, ReconcilingShape DEF Promote, AccessInv, Locating
<1>4. OwnerOf[m] # None /\ OwnerOf[m] = u /\ content[m].message # "org"
  BY <1>1, <1>2 DEF Promote, Refused, MayPromote
<1>5. promotions[m] = <<>>
  BY <1>3, <1>4 DEF AccessInv, PromotionIsOnRecord
<1>6. Len(promotions[m]) < MaxPromotion /\ Append(promotions[m], u) = <<u>>
  BY <1>3, <1>5, AccessAssumption
<1>7. /\ promotions' = [promotions EXCEPT ![m] = <<u>>]
      /\ content' = [content EXCEPT ![m] = [message |-> "org", children |-> "org"]]
  BY <1>1, <1>2, <1>6 DEF Promote, Flipped
<1>8. QED
  BY <1>3, <1>4, <1>5, <1>7

\* A promotion keeps the invariant.
LEMMA PromoteKeeps ==
    ASSUME AccessInv, NEW r \in Writer, Promote(r)
    PROVE  AccessInv'
<1>1. PICK m \in Message :
         /\ OwnerOf[m] # None /\ promotions[m] = <<>>
         /\ promotions' = [promotions EXCEPT ![m] = <<OwnerOf[m]>>]
         /\ content' = [content EXCEPT ![m] = [message |-> "org", children |-> "org"]]
         /\ OwnerOf[m] \in User
  BY PromoteFlips
<1>2. /\ req' = [req EXCEPT ![r] = Idle]
      /\ UNCHANGED <<verified, everVerified, grants, pool>>
  BY DEF Promote
<1>3. PICK q \in WriterStates : q = Idle
  BY DEF WriterStates
<1>4. /\ content' \in [Message -> ContentRow]
      /\ content'[m] = [message |-> "org", children |-> "org"]
      /\ \A n \in Message \ {m} : content'[n] = content[n]
  BY <1>1 DEF AccessInv, Shapes, ContentRow, Scope
<1>5. /\ promotions' \in [Message -> VisibilityPromotion]
      /\ promotions'[m] = <<OwnerOf[m]>>
      /\ \A n \in Message \ {m} : promotions'[n] = promotions[n]
  BY <1>1 DEF AccessInv, Shapes, VisibilityPromotion
<1>6. ScopesAgree'
  BY <1>4 DEF AccessInv, ScopesAgree
<1>7. PromotionIsOnRecord'
  BY <1>1, <1>4, <1>5 DEF AccessInv, PromotionIsOnRecord
<1>8. \A n \in Message : promotions'[n] = promotions[n] \/ promotions[n] = <<>>
  BY <1>1, <1>5
<1>9. q.at = "idle"
  BY <1>3 DEF Idle
<1>10. QED
  BY <1>2, <1>3, <1>4, <1>5, <1>6, <1>7, <1>8, <1>9, OthersKeep

----------------------------------------------------------------------------
\* A step of one session.
LEMMA SessionKeeps ==
    ASSUME AccessInv, NEW r \in Reader, NEW q \in ReaderStates,
           req' = [req EXCEPT ![r] = q],
           UNCHANGED <<verified, everVerified, grants, content, promotions>>,
           pool' \in [Connection -> Pooled], PoolIsBound',
           q.at # "idle" => \A p \in q.persons : \E b \in everVerified :
               b.source = "auth" /\ b.external = q.user /\ b.person = p,
           q.at # "idle" => \A row \in q.served : Entitled(q.user, row[1])
    PROVE  AccessInv'
<1>1. /\ req' \in [Writer \cup Reader -> WriterStates \cup ReaderStates]
      /\ \A s \in Writer \cup Reader : req'[s] = IF s = r THEN q ELSE req[s]
  BY DEF AccessInv, Shapes
<1>2. \A s \in Writer : req'[s] = req[s]
  BY <1>1, AccessAssumption
<1>3. Shapes'
  BY <1>1, <1>2 DEF AccessInv, Shapes
<1>4. PersonsAreVerified'
  BY <1>1 DEF AccessInv, PersonsAreVerified
<1>5. \A u, m : Entitled(u, m)' = Entitled(u, m)
  BY DEF Entitled
<1>6. NothingLeaks'
  <2>1. ASSUME NEW s \in Reader, NEW row, req'[s].at # "idle", row \in req'[s].served,
               NEW u, u = req'[s].user
        PROVE  Entitled(u, row[1])
    <3>1. CASE s = r
      BY <1>1, <2>1, <3>1
    <3>2. CASE s # r
      BY <1>1, <2>1, <3>2 DEF AccessInv, NothingLeaks
    <3>3. QED
      BY <3>1, <3>2
  <2>2. QED
    BY <2>1 DEF NothingLeaks, Entitled
<1>7. QED
  BY <1>2, <1>3, <1>4, <1>6, ReadersQuiet DEF AccessInv

\* A login resolves to a person, on a connection that is left unbound.
LEMMA ResolveKeeps ==
    ASSUME AccessInv, NEW r \in Reader, NEW u \in User, NEW k \in Connection,
           ResolvePerson(r, u, k)
    PROVE  AccessInv'
<1>1. PICK P : P = {b.person : b \in {c \in verified :
                     c.source = "auth" /\ c.external = u /\ OrgOf[c.person] = OrgOf[u]}}
  OBVIOUS
<1>2. PICK q : q = [at |-> "resolved", user |-> u, served |-> {}, persons |-> P]
  OBVIOUS
<1>3. /\ req[r].at = "idle" /\ req' = [req EXCEPT ![r] = q]
      /\ pool[k].by = None
      /\ pool' = [pool EXCEPT ![k].scope = Unbound]
      /\ UNCHANGED <<verified, everVerified, grants, content, promotions>>
  BY <1>1, <1>2 DEF ResolvePerson, FreeConnection, EndScope
<1>4. \A p \in P : \E b \in everVerified :
         b.source = "auth" /\ b.external = u /\ b.person = p
  BY <1>1 DEF AccessInv, Shapes
<1>5. P \subseteq Person
  BY <1>1, AccessAssumption DEF AccessInv, Shapes, SourceIdentity
<1>6. q \in ReaderStates
  BY <1>2, <1>5 DEF ReaderStates, Session
<1>7. pool' = pool
  <2>1. pool \in [Connection -> Pooled] /\ pool[k].scope = Unbound
    BY <1>3 DEF AccessInv, Shapes, PoolIsBound
  <2>2. QED
    BY <1>3, <2>1 DEF Pooled
<1>8. PoolIsBound'
  <2>1. \A j \in Connection : pool[j].by # None => pool[j].by \in Reader /\ pool[j].by # r
    BY <1>3 DEF AccessInv, Shapes, Pooled, PoolIsBound
  <2>2. \A s \in Reader \ {r} : req'[s] = req[s]
    BY <1>3 DEF AccessInv, Shapes
  <2>3. ASSUME NEW s \in Reader \ {r}
        PROVE  BoundPerson(s)' = BoundPerson(s)
    <3>1. PICK R : R = req[s].persons /\ R = req'[s].persons
      BY <2>2
    <3>2. QED
      BY <3>1 DEF BoundPerson
  <2>4. QED
    BY <1>7, <2>1, <2>2, <2>3 DEF AccessInv, PoolIsBound
<1>9. pool' \in [Connection -> Pooled]
  BY <1>7 DEF AccessInv, Shapes
<1>10. /\ q.at # "idle" => \A p \in q.persons : \E b \in everVerified :
             b.source = "auth" /\ b.external = q.user /\ b.person = p
       /\ q.at # "idle" => \A row \in q.served : Entitled(q.user, row[1])
  BY <1>2, <1>4
<1>11. /\ req' = [req EXCEPT ![r] = q]
       /\ UNCHANGED <<verified, everVerified, grants, content, promotions>>
  BY <1>3
<1>12. QED
  BY <1>6, <1>8, <1>9, <1>10, <1>11, SessionKeeps

\* The person a session is bound to is one it resolved, if any.
LEMMA BoundIsResolved ==
    ASSUME Shapes, NEW r \in Reader, req[r].at \in {"resolved", "reading"}
    PROVE  /\ req[r] \in Session
           /\ BoundPerson(r) \in req[r].persons \cup {None}
           /\ BoundPerson(r) \in Person \cup {None}
<1>1. req[r] \in Session
  BY DEF Shapes, ReaderStates, Idle
<1>2. PICK P : P = req[r].persons
  OBVIOUS
<1>3. BoundPerson(r) \in P \cup {None}
  BY <1>2 DEF BoundPerson
<1>4. P \subseteq Person
  BY <1>1, <1>2 DEF Session
<1>5. QED
  BY <1>1, <1>2, <1>3, <1>4

\* Only the connection and the session of a step change.
LEMMA OneSlotMoves ==
    ASSUME AccessInv, NEW r \in Reader, NEW k \in Connection,
           NEW q \in ReaderStates, NEW slot \in Pooled,
           req' = [req EXCEPT ![r] = q], pool' = [pool EXCEPT ![k] = slot],
           pool[k].by \in {None, r},
           \A j \in Connection : pool[j].by = r => j = k,
           slot.by = None => slot.scope = Unbound,
           slot.by # None =>
              /\ slot.by = r /\ slot.role = ReaderRole /\ q.at = "reading"
              /\ slot.scope = [org |-> OrgOf[q.user], person |-> BoundPerson(r)']
    PROVE  /\ pool' \in [Connection -> Pooled]
           /\ PoolIsBound'
<1>1. /\ \A s \in Reader : req'[s] = IF s = r THEN q ELSE req[s]
      /\ \A j \in Connection : pool'[j] = IF j = k THEN slot ELSE pool[j]
      /\ pool' \in [Connection -> Pooled]
  BY DEF AccessInv, Shapes
<1>2. \A j \in Connection : pool[j].by # None => pool[j].by \in Reader
  BY DEF AccessInv, Shapes, Pooled
<1>3. ASSUME NEW s \in Reader \ {r}
      PROVE  BoundPerson(s)' = BoundPerson(s)
  <2>1. PICK R : R = req[s].persons /\ R = req'[s].persons
    BY <1>1
  <2>2. QED
    BY <2>1 DEF BoundPerson
<1>4. \A j \in Connection : pool'[j].by = None => pool'[j].scope = Unbound
  BY <1>1 DEF AccessInv, PoolIsBound
<1>5. ASSUME NEW j \in Connection, NEW s, s = pool'[j].by, s # None
      PROVE  /\ pool'[j].role = ReaderRole /\ req'[s].at = "reading"
             /\ pool'[j].scope = [org |-> OrgOf[req'[s].user], person |-> BoundPerson(s)']
  <2>1. CASE j = k
    BY <1>1, <1>5, <2>1
  <2>2. CASE j # k
    <3>1. s \in Reader \ {r} /\ pool'[j] = pool[j]
      BY <1>1, <1>2, <1>5, <2>2
    <3>2. /\ pool[j].role = ReaderRole /\ req[s].at = "reading"
          /\ pool[j].scope = [org |-> OrgOf[req[s].user], person |-> BoundPerson(s)]
      BY <1>5, <3>1 DEF AccessInv, PoolIsBound
    <3>3. QED
      BY <1>1, <1>3, <3>1, <3>2
  <2>3. QED
    BY <2>1, <2>2
<1>6. \A i, j \in Connection : pool'[i].by = pool'[j].by /\ pool'[i].by # None => i = j
  BY <1>1 DEF AccessInv, PoolIsBound
<1>7. QED
  BY <1>1, <1>4, <1>5, <1>6 DEF PoolIsBound, BoundPerson

\* A transaction begins on a free connection, which carries nothing yet.
LEMMA BeginReadKeeps ==
    ASSUME AccessInv, NEW r \in Reader, NEW k \in Connection, BeginRead(r, k)
    PROVE  AccessInv'
<1>1. PICK person : person = BoundPerson(r)
  OBVIOUS
<1>2. /\ req[r].at = "resolved" /\ pool[k].by = None /\ pool[k].role = ReaderRole
      /\ req' = [req EXCEPT ![r].at = "reading"]
      /\ UNCHANGED <<verified, everVerified, grants, content, promotions>>
  BY DEF BeginRead, FreeConnection, SeamHolds
<1>3. /\ req[r] \in Session /\ person \in Person \cup {None}
      /\ person \in req[r].persons \cup {None}
  BY <1>1, <1>2, BoundIsResolved DEF AccessInv
<1>4. PICK q : q = [req[r] EXCEPT !.at = "reading"]
  OBVIOUS
<1>5. /\ q \in ReaderStates /\ q.at = "reading" /\ q.user = req[r].user
      /\ q.persons = req[r].persons /\ q.served = req[r].served
      /\ req' = [req EXCEPT ![r] = q]
  BY <1>2, <1>3, <1>4 DEF ReaderStates, Session
<1>6. PICK slot : slot = [pool[k] EXCEPT !.by = r,
                     !.scope = [org |-> OrgOf[req[r].user], person |-> person]]
  OBVIOUS
<1>7. /\ slot \in Pooled /\ slot.by = r /\ slot.role = pool[k].role
      /\ slot.scope = [org |-> OrgOf[req[r].user], person |-> person]
  <2>1. pool[k] \in Pooled
    BY DEF AccessInv, Shapes
  <2>2. QED
    BY <1>3, <1>6, <2>1, AccessAssumption DEF Pooled, Session
<1>8. pool[k] \in Pooled /\ pool \in [Connection -> Pooled] /\ pool[k].scope = [org |-> None, person |-> None]
  BY <1>2 DEF AccessInv, Shapes, PoolIsBound, Unbound
<1>9. pool' = [pool EXCEPT ![k] = slot]
  <2>1. ApplyScope(pool[k].scope, OrgOf[req[r].user], person)
           = [org |-> OrgOf[req[r].user], person |-> person]
    BY <1>8 DEF ApplyScope
  <2>2. pool' = [pool EXCEPT ![k] = [pool[k] EXCEPT !.by = r,
                     !.scope = [org |-> OrgOf[req[r].user], person |-> person]]]
    BY <1>1, <2>1 DEF BeginRead
  <2>3. QED
    BY <1>6, <2>2
<1>10. BoundPerson(r)' = person
  <2>1. PICK P : P = req[r].persons /\ P = req'[r].persons
    BY <1>5 DEF AccessInv, Shapes
  <2>2. QED
    BY <1>1, <2>1 DEF BoundPerson
<1>11. \A j \in Connection : pool[j].by = r => j = k
  BY <1>2, AccessAssumption DEF AccessInv, PoolIsBound
<1>12. slot.by = r /\ r # None /\ slot.role = ReaderRole
       /\ slot.scope = [org |-> OrgOf[q.user], person |-> BoundPerson(r)']
  BY <1>2, <1>5, <1>7, <1>10, AccessAssumption
<1>13. pool' \in [Connection -> Pooled] /\ PoolIsBound'
  BY <1>2, <1>5, <1>7, <1>9, <1>11, <1>12, OneSlotMoves
<1>14. /\ \A p \in q.persons : \E b \in everVerified :
             b.source = "auth" /\ b.external = q.user /\ b.person = p
       /\ \A row \in q.served : Entitled(q.user, row[1])
  BY <1>2, <1>5 DEF AccessInv, PersonsAreVerified, NothingLeaks
<1>15. QED
  BY <1>2, <1>5, <1>13, <1>14, SessionKeeps

\* The heart of it: what row-level security lets the bound connection see, the
\* session's user is entitled to.
LEMMA PoliciesAdmit ==
    ASSUME AccessInv, NEW r \in Reader, NEW k \in Connection, pool[k].by = r,
           NEW row \in RowsServed(k)
    PROVE  Entitled(req[r].user, row[1]) /\ row \in Message \X Parts
<1>1. /\ r # None /\ pool[k].role = ReaderRole /\ req[r].at = "reading"
      /\ pool[k].scope = [org |-> OrgOf[req[r].user], person |-> BoundPerson(r)]
  BY AccessAssumption DEF AccessInv, PoolIsBound
<1>2. PICK person : person = BoundPerson(r)
  OBVIOUS
<1>3. person \in req[r].persons \cup {None}
  BY <1>1, <1>2, BoundIsResolved DEF AccessInv
<1>4. /\ row \in Message \X Parts
      /\ Isolated(k, row[1]) /\ VisibleTo(k, row[1], content[row[1]][row[2]])
  BY <1>1 DEF RowsServed, Parts, ReaderRole, GlobalRole
<1>5. PICK m \in Message, part \in Parts : row[1] = m /\ row[2] = part
  BY <1>4
<1>6. OrgOf[m] = OrgOf[req[r].user]
  BY <1>1, <1>4, <1>5 DEF Isolated
<1>7. CASE content[m][part] = "org"
  <2>1. content[m].message = "org"
    BY <1>5, <1>7 DEF AccessInv, ScopesAgree, Parts
  <2>2. promotions[m] = <<OwnerOf[m]>>
    BY <2>1 DEF AccessInv, PromotionIsOnRecord
  <2>3. 1 \in DOMAIN promotions[m] /\ promotions[m][1] = OwnerOf[m]
    BY <2>2
  <2>4. QED
    BY <1>4, <1>5, <1>6, <2>3 DEF Entitled
<1>8. CASE \E g \in grants : g.message = m /\ g.person = person
  <2>1. PICK g \in grants : g.message = m /\ g.person = person
    BY <1>8
  <2>2. person \in RightHolders(m) /\ person \in Person
    BY <2>1 DEF AccessInv, Shapes, AclGrant, GrantsAreRightful
  <2>3. person \in req[r].persons
    BY <1>3, <2>2, AccessAssumption
  <2>4. PICK b \in everVerified :
           b.source = "auth" /\ b.external = req[r].user /\ b.person = person
    BY <1>1, <2>3 DEF AccessInv, PersonsAreVerified
  <2>5. QED
    BY <1>4, <1>5, <1>6, <2>2, <2>4 DEF Entitled, RightHolders
<1>9. QED
  BY <1>1, <1>2, <1>4, <1>5, <1>7, <1>8 DEF VisibleTo

\* A read in the bound transaction.
LEMMA ReadKeeps ==
    ASSUME AccessInv, NEW r \in Reader, NEW k \in Connection, Read(r, k)
    PROVE  AccessInv'
<1>1. PICK rows : rows = RowsServed(k)
  OBVIOUS
<1>2. /\ req[r].at = "reading" /\ pool[k].by = r
      /\ req' = [req EXCEPT ![r].served = req[r].served \cup rows]
      /\ UNCHANGED <<verified, everVerified, grants, content, promotions, pool>>
  BY <1>1 DEF Read
<1>3. req[r] \in Session
  BY <1>2, BoundIsResolved DEF AccessInv
<1>4. \A row \in rows : Entitled(req[r].user, row[1]) /\ row \in Message \X Parts
  BY <1>1, <1>2, PoliciesAdmit
<1>5. PICK q : q = [req[r] EXCEPT !.served = req[r].served \cup rows]
  OBVIOUS
<1>6. /\ q \in ReaderStates /\ q.at = "reading" /\ q.user = req[r].user
      /\ q.persons = req[r].persons /\ q.served = req[r].served \cup rows
      /\ req' = [req EXCEPT ![r] = q]
  BY <1>2, <1>3, <1>4, <1>5 DEF ReaderStates, Session
<1>7. PICK slot : slot = pool[k]
  OBVIOUS
<1>8. slot \in Pooled /\ pool' = [pool EXCEPT ![k] = slot]
  BY <1>2, <1>7 DEF AccessInv, Shapes
<1>9. BoundPerson(r)' = BoundPerson(r)
  <2>1. PICK P : P = req[r].persons /\ P = req'[r].persons
    BY <1>6 DEF AccessInv, Shapes
  <2>2. QED
    BY <2>1 DEF BoundPerson
<1>10. /\ slot.by = r /\ r # None /\ slot.role = ReaderRole
       /\ slot.scope = [org |-> OrgOf[q.user], person |-> BoundPerson(r)']
       /\ \A j \in Connection : pool[j].by = r => j = k
  BY <1>2, <1>6, <1>7, <1>9, AccessAssumption DEF AccessInv, PoolIsBound
<1>11. pool' \in [Connection -> Pooled] /\ PoolIsBound'
  <2>1. /\ req' = [req EXCEPT ![r] = q] /\ q \in ReaderStates /\ q.at = "reading"
        /\ pool[k].by \in {None, r}
    BY <1>2, <1>6
  <2>2. QED
    BY <1>8, <1>10, <2>1, OneSlotMoves
<1>12. /\ \A p \in q.persons : \E b \in everVerified :
             b.source = "auth" /\ b.external = q.user /\ b.person = p
       /\ \A row \in q.served : Entitled(q.user, row[1])
  BY <1>2, <1>4, <1>6 DEF AccessInv, PersonsAreVerified, NothingLeaks
<1>13. /\ q \in ReaderStates /\ req' = [req EXCEPT ![r] = q]
       /\ UNCHANGED <<verified, everVerified, grants, content, promotions>>
  BY <1>2, <1>6
<1>14. QED
  BY <1>11, <1>12, <1>13, SessionKeeps

\* The transaction ends, and its settings with it.
LEMMA EndReadKeeps ==
    ASSUME AccessInv, NEW r \in Reader, NEW k \in Connection, EndRead(r, k)
    PROVE  AccessInv'
<1>1. /\ req[r].at = "reading" /\ pool[k].by = r
      /\ pool' = [pool EXCEPT ![k] = [pool[k] EXCEPT !.by = None, !.scope = Unbound]]
      /\ UNCHANGED <<verified, everVerified, grants, content, promotions>>
  BY DEF EndRead, EndScope
<1>2. req[r] \in Session
  BY <1>1, BoundIsResolved DEF AccessInv
<1>3. PICK q : /\ q = [req[r] EXCEPT !.at = "resolved"] \/ q = Idle
               /\ req' = [req EXCEPT ![r] = q]
  <2>1. \/ req' = [req EXCEPT ![r] = [req[r] EXCEPT !.at = "resolved"]]
        \/ req' = [req EXCEPT ![r] = Idle]
    BY DEF EndRead
  <2>2. QED
    BY <2>1
<1>4. /\ q \in ReaderStates
      /\ q.at # "idle" => /\ q.user = req[r].user /\ q.persons = req[r].persons
                          /\ q.served = req[r].served
  BY <1>2, <1>3 DEF ReaderStates, Session, Idle
<1>5. PICK slot : slot = [pool[k] EXCEPT !.by = None, !.scope = Unbound]
  OBVIOUS
<1>6. pool[k] \in Pooled
  BY DEF AccessInv, Shapes
<1>7. /\ slot \in Pooled /\ slot.by = None /\ slot.scope = Unbound
      /\ pool' = [pool EXCEPT ![k] = slot]
  BY <1>1, <1>5, <1>6 DEF Pooled, Unbound
<1>8. \A j \in Connection : pool[j].by = r => j = k
  BY <1>1, AccessAssumption DEF AccessInv, PoolIsBound
<1>9. pool' \in [Connection -> Pooled] /\ PoolIsBound'
  <2>1. req' = [req EXCEPT ![r] = q] /\ q \in ReaderStates /\ pool[k].by \in {None, r}
    BY <1>1, <1>3, <1>4
  <2>2. QED
    BY <1>7, <1>8, <2>1, OneSlotMoves
<1>10. q.at # "idle" =>
         /\ \A p \in q.persons : \E b \in everVerified :
               b.source = "auth" /\ b.external = q.user /\ b.person = p
         /\ \A row \in q.served : Entitled(q.user, row[1])
  BY <1>1, <1>4 DEF AccessInv, PersonsAreVerified, NothingLeaks
<1>11. QED
  BY <1>1, <1>3, <1>4, <1>9, <1>10, SessionKeeps

----------------------------------------------------------------------------
\* The first states satisfy the invariant.
LEMMA InitAccess == Init => AccessInv
<1> SUFFICES ASSUME Init PROVE AccessInv
  OBVIOUS
<1>1. \A r \in Writer \cup Reader : req[r] = Idle /\ req[r].at = "idle"
  BY DEF Init, Idle
<1>2. BornRestricted \in ContentRow /\ Unbound \in [org : Org \cup {None}, person : Person \cup {None}]
  BY DEF BornRestricted, ContentRow, Scope, Unbound
<1>3. PICK role \in {ReaderRole, GlobalRole} :
         pool = [k \in Connection |-> [role |-> role, scope |-> Unbound, by |-> None]]
  BY DEF Init
<1>4. pool \in [Connection -> Pooled]
  BY <1>2, <1>3 DEF Pooled
<1>5. Idle \in WriterStates /\ Idle \in ReaderStates /\ <<>> \in VisibilityPromotion
  BY DEF WriterStates, ReaderStates, VisibilityPromotion
<1>6. Shapes
  BY <1>1, <1>2, <1>4, <1>5 DEF Init, Shapes
<1>7. PoolIsBound
  BY <1>3 DEF PoolIsBound
<1>8. /\ GrantsAreRightful /\ DerivationsAreRightful /\ InsertsAreDerived /\ AloneIsCurrent
      /\ PersonsAreVerified /\ NothingLeaks
  BY <1>1 DEF Init, GrantsAreRightful, DerivationsAreRightful, InsertsAreDerived,
     AloneIsCurrent, PersonsAreVerified, NothingLeaks, Reconciling
<1>9. ScopesAgree /\ PromotionIsOnRecord
  BY DEF Init, ScopesAgree, PromotionIsOnRecord, BornRestricted
<1>10. QED
  BY <1>6, <1>7, <1>8, <1>9 DEF AccessInv

\* A step is taken by the outside, by a writer or by a session.
LEMMA StepCases ==
    ASSUME Next
    PROVE  \/ \/ \E b \in Binding : Verify(b) \/ Withdraw(b)
              \/ \E p \in Person : TombstoneForPerson(p)
           \/ \E r \in Writer :
                 \/ InsertLiveGrants(r) \/ \E m \in Message : Derive(r, m)
                 \/ ReconcileFails(r) \/ RefusePromotion(r)
                 \/ ReconcileCommits(r)
                 \/ \E u \in User, m \in Message : Locate(r, u, m)
                 \/ Promote(r)
           \/ \E r \in Reader, k \in Connection :
                 \/ \E u \in User : ResolvePerson(r, u, k)
                 \/ BeginRead(r, k) \/ Read(r, k) \/ EndRead(r, k)
  BY DEF Next

\* Every step keeps the invariant.
LEMMA StepAccess ==
    ASSUME AccessInv, [Next]_vars
    PROVE  AccessInv'
<1>1. ASSUME NEW r \in Writer,
             \/ InsertLiveGrants(r) \/ \E m \in Message : Derive(r, m)
             \/ ReconcileFails(r) \/ RefusePromotion(r)
             \/ ReconcileCommits(r)
             \/ \E u \in User, m \in Message : Locate(r, u, m)
             \/ Promote(r)
      PROVE  AccessInv'
  BY <1>1, DeriveKeeps, GiveUpKeeps, ReconcileKeeps, LocateKeeps, PromoteKeeps
<1>2. ASSUME NEW r \in Reader, NEW k \in Connection,
             \/ \E u \in User : ResolvePerson(r, u, k)
             \/ BeginRead(r, k) \/ Read(r, k) \/ EndRead(r, k)
      PROVE  AccessInv'
  BY <1>2, ResolveKeeps, BeginReadKeeps, ReadKeeps, EndReadKeeps
<1>3. CASE UNCHANGED vars
  <2>1. /\ \A r \in Reader : req'[r] = req[r]
        /\ \A r \in Writer : req'[r] = req[r]
        /\ UNCHANGED <<verified, everVerified, grants, content, promotions, pool>>
    BY <1>3 DEF vars
  <2>2. Shapes'
    BY <1>3 DEF vars, AccessInv, Shapes
  <2>3. QED
    BY <2>1, <2>2, WritersQuiet, ReadersQuiet DEF AccessInv
<1>4. QED
  BY <1>1, <1>2, <1>3, IdentityKeeps, StepCases

\* A reconciliation that was alone leaves its message to those derivable now.
LEMMA StepSettles ==
    ASSUME AccessInv, [Next]_vars, NEW r \in Writer, req[r].at = "granted", req[r].alone,
           req'[r].at = "idle", grants' # grants
    PROVE  Persons({g \in grants' : g.message = req[r].message})
              = Persons(DerivePrincipalRoles(verified, req[r].message))
<1>1. req[r] \in Granting /\ Reconciling(r)
  BY ReconcilingShape DEF AccessInv, Reconciling
<1>2. req' # Disturbed
  BY <1>1, DisturbedShape DEF AccessInv
<1>3. ASSUME NEW s \in Writer, ReconcileCommits(s)
      PROVE  s = r
  <2>1. req' = [Disturbed EXCEPT ![s] = Idle]
    BY <1>3 DEF ReconcileCommits
  <2>2. Disturbed[r].at = "granted" /\ DOMAIN Disturbed = Writer \cup Reader
    BY <1>1, DisturbedShape DEF AccessInv
  <2>3. QED
    BY <2>1, <2>2
<1>4. ReconcileCommits(r)
  <2>1. ASSUME NEW s \in Writer,
               \/ InsertLiveGrants(s) \/ \E m \in Message : Derive(s, m)
               \/ ReconcileFails(s) \/ RefusePromotion(s)
               \/ \E u \in User, m \in Message : Locate(s, u, m)
               \/ Promote(s)
        PROVE  FALSE
    BY <2>1 DEF InsertLiveGrants, Derive, ReconcileFails, RefusePromotion, Locate, Promote
  <2>2. ASSUME NEW s \in Reader, NEW k \in Connection,
               \/ \E u \in User : ResolvePerson(s, u, k)
               \/ BeginRead(s, k) \/ Read(s, k) \/ EndRead(s, k)
        PROVE  FALSE
    BY <2>2 DEF ResolvePerson, BeginRead, Read, EndRead
  <2>3. ~ \E b \in Binding : Verify(b) \/ Withdraw(b)
    BY DEF Verify, Withdraw
  <2>4. ~ \E p \in Person : TombstoneForPerson(p)
    BY <1>2 DEF TombstoneForPerson
  <2>5. Next
    BY DEF vars
  <2>6. QED
    BY <1>3, <2>1, <2>2, <2>3, <2>4, <2>5, StepCases
<1>5. PICK m, P, N, L :
         m = req[r].message /\ P = req[r].principals /\ N = req[r].new /\ L = LiveGrants(m)
  OBVIOUS
<1>6. /\ P = DerivePrincipalRoles(verified, m)
      /\ N = {g \in P : g.person \notin Persons(L)}
      /\ \A g \in P : g.message = m
  BY <1>1, <1>5 DEF AccessInv, AloneIsCurrent, DerivationsAreRightful
<1>7. grants' = (grants \cup N) \ DroppedOut(L \cup N, P)
  BY <1>4, <1>5 DEF ReconcileCommits
<1>8. {g \in grants' : g.message = m} = {g \in L \cup N : g.person \in Persons(P)}
  BY <1>5, <1>6, <1>7 DEF LiveGrants, DroppedOut
<1>9. Persons({g \in L \cup N : g.person \in Persons(P)}) = Persons(P)
  <2>1. ASSUME NEW p \in Persons(P)
        PROVE  \E g \in L \cup N : g.person = p
    <3>1. PICK g \in P : g.person = p
      BY DEF Persons
    <3>2. CASE p \in Persons(L)
      BY <3>2 DEF Persons
    <3>3. CASE p \notin Persons(L)
      BY <1>6, <3>1, <3>3
    <3>4. QED
      BY <3>2, <3>3
  <2>2. \A G : Persons(G) = {g.person : g \in G}
    BY DEF Persons
  <2>3. Persons({g \in L \cup N : g.person \in Persons(P)}) \subseteq Persons(P)
    BY <2>2
  <2>4. Persons(P) \subseteq Persons({g \in L \cup N : g.person \in Persons(P)})
    BY <2>1, <2>2
  <2>5. QED
    BY <2>3, <2>4
<1>10. QED
  BY <1>5, <1>6, <1>8, <1>9

----------------------------------------------------------------------------
\* The invariant holds throughout.
THEOREM AccessInvariant == Spec => []AccessInv
<1>1. Init => AccessInv
  BY InitAccess
<1>2. AccessInv /\ [Next]_vars => AccessInv'
  BY StepAccess
<1>3. QED
  BY <1>1, <1>2, PTL DEF Spec

\* The grants, promotions, pooled connections and requests are well-formed.
THEOREM AccessTypes == Spec => []TypeOK
<1>1. AccessInv => TypeOK
  BY DEF AccessInv, Shapes, TypeOK, WriterStates, ReaderStates, Idle, Deriving,
     Granting, Locating, Session, Pooled
<1>2. QED
  BY <1>1, AccessInvariant, PTL

\* reader_session binds every transaction of a pooled connection, and the policies
\* show it only rows its caller has a right to.
THEOREM NoCallerIsServedMore == Spec => []NothingLeaks
<1>1. AccessInv => NothingLeaks
  BY DEF AccessInv
<1>2. QED
  BY <1>1, AccessInvariant, PTL

\* PromotionService.promote_email_message: a message is widened once, by its
\* owner, in the transaction that records it.
THEOREM WideningIsOnRecord == Spec => []PromotionIsOnRecord
<1>1. AccessInv => PromotionIsOnRecord
  BY DEF AccessInv
<1>2. QED
  BY <1>1, AccessInvariant, PTL

\* GrantWriter.reconcile_email_message_grants: a reconciliation nothing disturbed
\* leaves the message to exactly the persons derivable at its commit.
THEOREM ReconciliationSettles == Spec => ReconcileSettles
<1>1. AccessInv /\ [Next]_vars => [\A r \in Writer :
          /\ req[r].at = "granted" /\ req[r].alone
          /\ req'[r].at = "idle" /\ grants' # grants
          => Persons({g \in grants' : g.message = req[r].message})
                = Persons(DerivePrincipalRoles(verified, req[r].message))]_vars
  BY StepSettles
<1>2. QED
  BY <1>1, AccessInvariant, PTL DEF Spec, ReconcileSettles
=============================================================================
