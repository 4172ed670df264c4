CONSTANTS
    Users = {1, 2}
    r1 = r1
    r2 = r2
    Requests = {r1, r2}
    NoOne = NoOne
SPECIFICATION Spec
SYMMETRY Symmetry
INVARIANT NeverWithoutAdmin
