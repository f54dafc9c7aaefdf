\* A request, a batch command and a single-screen command, with no lock between them.
SPECIFICATION Spec
CONSTANTS
    s1 = s1
    s2 = s2
    s3 = s3
    p1 = p1
    p2 = p2
    NoOne = NoOne
    Stock = Stock
    Earlier = Earlier
    Torn = Torn
    Session = {s1, s2, s3}
    Web = {s1}
    Batch = {s2}
    Screen = {p1}
    Symlink = {}
    Size <- OneUnit
    ImageCap = 2
    Floor = 1
    Space = 5
    Fault = {"timeout", "late", "interrupt"}
    Threads = 3
    MaxHits = 1
    MaxDepth = 1
INVARIANTS ScreensWhole CloseReverts
PROPERTIES WritesAreAtomic
