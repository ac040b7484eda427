SPECIFICATION Spec
CONSTANTS
    None = None
    Delegators = {d1, d2}
    Keys = {k1}
    FreshIds = {u1, u2, u3}
    Requests = {r1, r2}
    Turns = {}
    Conns = {c1, c2}
    MaxSessions = 4
    MaxDelegatorSessions = 3
    HandoffLimit = 1
    WalkLimit = 2
    Lifetime = 1
    Grace = 1
    MaxTime = 2
SYMMETRY Symmetries
INVARIANTS TypeOK CapacityBound LineageReachable
PROPERTY ReplyBinding
