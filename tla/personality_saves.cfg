SPECIFICATION Spec
CONSTANTS
    None = None
    Editors = {e1, e2}
    Requests = {r1, r2, r3}
    Bodies = {b1}
    Conns = {c1, c2}
    Readers = {w1}
    MaxRevision = 3
SYMMETRY Symmetries
INVARIANTS TypeOK ChecksPrecedeConstraints NoStaleAuthority WalkContiguous
PROPERTIES RetryHonoured Implements
