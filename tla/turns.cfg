SPECIFICATION Spec
CONSTANTS
    None = None
    Processes = {p1, p2}
    Requests = {r1, r2}
    Window = 1
    MaxRevision = 2
SYMMETRY Symmetries
INVARIANTS TypeOK AtMostOnce OkMeansDurable KnownLease UpdaterSees LineageFrozen
PROPERTIES Implements OrphansStay
