CONSTANTS
    MaxOrg = 2
    Slug = {acme}
    MaxGrant = 1
    MaxInsert = 2
    Req = {r1, r2}
VIEW WithoutEvent
SYMMETRY RequestSymmetry
SPECIFICATION Spec
INVARIANTS OnboardingIsWhole ErasureIsComplete
PROPERTIES GrantsMoveForward HoldStopsErasure CertificateIsHonest StatusAuditIsTrue
