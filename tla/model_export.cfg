SPECIFICATION Spec
CONSTANTS
    None = None
    Caller = d1
    Principal = k1
    FreshIds = {u1}
    Requests = {r1}
    Turns = {t1, t2}
    Processes = {p1}
    Models = {"m1", "m2"}
    Targets = {"local", "remote"}
    Remote = {"remote"}
    Registries <- TwoModels
    MayDisable = FALSE
    WalkLimit = 2
    MaxSessions = 2
SYMMETRY Symmetries
INVARIANT RemoteContinuesRemote
