CONSTANTS
    Org = {"o1", "o2"}
    User = {"u1", "u2", "u3"}
    Person = {"p1", "p2", "p3"}
    Message = {"m1", "m2"}
    OrgOf <- MCOrgOf
    OwnerOf <- MCOwnerOf
    SenderOf <- MCSenderOf
    RecipientsOf <- MCRecipientsOf
    Binding <- MCBinding
    Writer = {w1, w2}
    Reader = {s1}
    Connection = {k1}
    MaxPromotion = 2
    None = None
SYMMETRY MCSymmetry
SPECIFICATION Spec
INVARIANTS NothingLeaks PromotionIsOnRecord
PROPERTIES ReconcileSettles
