CONSTANTS
    Users = {1, 2, 3}
    r1 = r1
    r2 = r2
    Requests = {r1, r2}
    NoOne = NoOne
SPECIFICATION Spec
INVARIANTS CountedAdminsStay
PROPERTIES GuardedRemovalKeepsAnAdmin
