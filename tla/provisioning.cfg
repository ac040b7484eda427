SPECIFICATION FairSpec
CONSTANTS
    None = None
    Runs = {"setup", "moved", "models", "reversed"}
    Keys = {"project", "project2", "agent", "host", "m1", "m2"}
    Values = {"a", "b", "h", "x", "y", "z"}
    Plan <- Commands
INVARIANT WholeTransactions
PROPERTY CommandsEnd
