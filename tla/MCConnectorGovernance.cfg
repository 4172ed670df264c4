CONSTANTS
    User = {u1}
    Mailbox = {m1, m2}
    MaxConn = 2
    Req = {r1, r2}
    Shared = shared
SPECIFICATION Spec
SYMMETRY Symmetry
VIEW View
INVARIANTS ConsentFollowsMailboxes
PROPERTIES LateWritesRespectAdmin UseIsAllowed LifecycleIsAudited
