\* One computer, crashes at every step, factory resets, a user who always assumes stock.
SPECIFICATION Spec
CONSTANTS
    h1 = h1
    h2 = h2
    s1 = s1
    s2 = s2
    p1 = p1
    p2 = p2
    c1 = c1
    c2 = c2
    Stock = Stock
    None = None
    Torn = Torn
    Host = {h1}
    Session = {s1}
    HostOf <- OneHost
    Screen = {p1, p2}
    Custom = {c1}
    Kinds = {"apply", "restore", "restoreall", "backup", "status"}
    AssumeStock = TRUE
    ReadsMtime = FALSE
    Overlap = FALSE
    Resets = TRUE
    Damages = FALSE
INVARIANTS NoLaundering StockSurvives IntentRecorded Restorable
PROPERTIES KeepsPromise
