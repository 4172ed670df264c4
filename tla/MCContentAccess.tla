-------------------------- MODULE MCContentAccess --------------------------
(* In one organization a user owns a mailbox and another is a recipient, and *)
(* a message sits in a shared mailbox; the third user belongs elsewhere.      *)
EXTENDS ContentAccess, TLC

MCOrgOf == "u1" :> "o1" @@ "u2" :> "o1" @@ "u3" :> "o2"
           @@ "p1" :> "o1" @@ "p2" :> "o1" @@ "p3" :> "o2"
           @@ "m1" :> "o1" @@ "m2" :> "o1"
MCOwnerOf == "m1" :> "u1" @@ "m2" :> None
MCSenderOf == "m1" :> "a1" @@ "m2" :> "a2"
MCRecipientsOf == "m1" :> {"a2"} @@ "m2" :> {"a1"}
MCBinding == {[source |-> "auth", external |-> "u1", person |-> "p1"],
              [source |-> "auth", external |-> "u2", person |-> "p2"],
              [source |-> "email", external |-> "a2", person |-> "p2"]}
MCSymmetry == Permutations(Writer)
=============================================================================
