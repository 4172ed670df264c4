CONSTANTS
    MaxOrg = 2
    Slug = {acme}
    MaxGrant = 1
    MaxInsert = 2
    Req = {r1, r2}
SYMMETRY RequestSymmetry
SPECIFICATION Spec
INVARIANTS DeciderEmailsAreScrubbed
