CONSTANTS
    u1 = u1
    p1 = p1
    r1 = r1
    r2 = r2
    t1 = t1
    t2 = t2
    t3 = t3
    w1 = w1
    CompanyUsers = {u1}
    PlatformAdmins = {p1}
    Org = Org
    Workers = {w1}
    Requests = {r1, r2}
    Rows = {t1, t2, t3}
    None = None
    AccessTTL = 2
    RefreshTTL = 1
    MaxTime = 3
    MaxChanges = 1
    MaxRestarts = 1
SPECIFICATION Spec
CONSTRAINT Bounded
SYMMETRY Symmetry
INVARIANTS
    RevokedIsRejected
    RotationIsSingleUse
CHECK_DEADLOCK FALSE
