SPECIFICATION Spec
CONSTANTS
    None = None
    Caller = d1
    Principal = k1
    FreshIds = {u1}
    Requests = {r1}
    Turns = {t1}
    Processes = {p1, p2}
    Models = {"m1"}
    Targets = {"local", "remote"}
    Remote = {"remote"}
    Registries <- Rollout
    MayDisable = FALSE
    WalkLimit = 2
    MaxSessions = 2
SYMMETRY Symmetries
INVARIANTS TurnUsesSelection NoStaleGrant
