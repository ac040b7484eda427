SPECIFICATION Spec
CONSTANTS
    None = None
    Delegators = {d1}
    Keys = {k1}
    FreshIds = {u1, u2}
    Requests = {r1, r2}
    Turns = {t1, t2}
    Conns = {c1, c2}
    MaxSessions = 3
    MaxDelegatorSessions = 2
    HandoffLimit = 1
    WalkLimit = 2
    Lifetime = 1
    Grace = 1
    MaxTime = 3
SYMMETRY Symmetries
INVARIANTS HandedOffComplete OneSuccessor RetiredQuiescent
PROPERTIES Implements OneGrantPerId
