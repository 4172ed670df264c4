--------------------------- MODULE MCEmailIngest ---------------------------
(* Two sessions, one of the sync runner and one of the disk ingest, over    *)
(* the same mailbox.  The mails name the same people in opposite orders; one *)
(* of them writes from a subdomain of the company and one uses free mail, a  *)
(* role mailbox is a recipient, and an automated mail from an IDN host has a *)
(* person in a routing header.                                              *)
EXTENDS EmailIngest, TLC

MCHostOf == "ann" :> "gmail" @@ "bob" :> "eu.corp" @@ "desk" :> "corp" @@ "bot" :> "xn"
MCRegistrable == "eu.corp" :> "corp" @@ "corp" :> "corp" @@ "gmail" :> "gmail" @@ "xn" :> "xn"
MCParticipants ==
    "m1" :> <<[kind |-> "from", address |-> "ann", name |-> None],
              [kind |-> "to", address |-> "bob", name |-> "Bob"]>>
    @@ "m2" :> <<[kind |-> "from", address |-> "bob", name |-> "Robert"],
                 [kind |-> "to", address |-> "desk", name |-> "Desk"],
                 [kind |-> "cc", address |-> "ann", name |-> "Ann"]>>
    @@ "m3" :> <<[kind |-> "from", address |-> "bot", name |-> "Bot"],
                 [kind |-> "reply_to", address |-> "bob", name |-> "Bob"],
                 [kind |-> "to", address |-> "ann", name |-> None]>>
MCSeenAt == "m1" :> 2 @@ "m2" :> 1 @@ "m3" :> None
MCAttachments == "m1" :> {"x"} @@ "m2" :> {} @@ "m3" :> {"x"}
MCBoundTo == "ann" :> "pa" @@ "bob" :> "pb" @@ "bot" :> None @@ "desk" :> "pb"
=============================================================================
