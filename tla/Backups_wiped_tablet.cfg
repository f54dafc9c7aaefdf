\* A factory reset, and then the other computer first.
SPECIFICATION Spec
CONSTANTS
    h1 = h1
    h2 = h2
    s1 = s1
    s2 = s2
    p1 = p1
    p2 = p2
    c1 = c1
    c2 = c2
    Stock = Stock
    None = None
    Torn = Torn
    Host = {h1, h2}
    Session = {s1, s2}
    HostOf <- TwoHosts
    Screen = {p1}
    Custom = {c1}
    Kinds = {"apply", "restore", "restoreall", "backup", "status"}
    AssumeStock = FALSE
    ReadsMtime = TRUE
    Overlap = FALSE
    Resets = TRUE
    Damages = FALSE
INVARIANTS Restorable
