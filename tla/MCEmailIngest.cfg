CONSTANTS
    Run = {r1, r2}
    SyncRun = {r1}
    Address = {"ann", "bob", "bot", "desk"}
    Host = {"corp", "eu.corp", "gmail", "xn"}
    Name = {"Ann", "Bob", "Robert", "Bot", "Desk"}
    Mail = {"m1", "m2", "m3"}
    Participants <- MCParticipants
    Automated = {"m3"}
    SeenAt <- MCSeenAt
    Attachments <- MCAttachments
    HostOf <- MCHostOf
    RoleAddress = {"desk"}
    GenericDomain = {"gmail"}
    IdnDomain = {"xn"}
    Registrable <- MCRegistrable
    BoundTo <- MCBoundTo
    Owner = "pa"
    MaxId = 5
    None = None
SPECIFICATION Spec
INVARIANTS CacheIsTrue MailIsWhole GraphMatchesMail
