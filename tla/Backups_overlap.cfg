\* A command and the web server of one computer at the same time.
SPECIFICATION Spec
CONSTANTS
    h1 = h1
    h2 = h2
    s1 = s1
    s2 = s2
    p1 = p1
    p2 = p2
    c1 = c1
    c2 = c2
    Stock = Stock
    None = None
    Torn = Torn
    Host = {h1}
    Session = {s1, s2}
    HostOf <- OneHost
    Screen = {p1, p2}
    Custom = {c1}
    Kinds = {"apply", "restore", "restoreall", "backup", "status"}
    AssumeStock = FALSE
    ReadsMtime = TRUE
    Overlap = TRUE
    Resets = FALSE
    Damages = FALSE
PROPERTIES BackupKept
