------------------------------ MODULE MCSessions ------------------------------
(* Instances of Sessions for TLC. *)
EXTENDS Sessions, TLC

CONSTANTS u1, p1, r1, r2, t1, t2, t3, w1

Used == {t \in Rows : refresh[t] # UnusedRow}

\* Many revocations over time with few rotations, or many rotations of company
\* users' tokens within a tick.
Bounded ==
    \/ /\ Cardinality(Used) <= 1 /\ restarts = 0
       /\ now >= 1 => \E r \in Requests : req[r] = Idle
    \/ /\ now <= 1 /\ changes = 0
       /\ \A tok \in access : tok.sub \in CompanyUsers
       /\ \A r \in Requests : req[r].sub \notin PlatformAdmins

Symmetry == Permutations(Rows) \cup Permutations(Requests) \cup Permutations(Workers)
===============================================================================
