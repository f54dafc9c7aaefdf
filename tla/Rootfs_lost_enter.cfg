\* One command whose calls may time out: close() against its comment.
SPECIFICATION Spec
CONSTANTS
    s1 = s1
    s2 = s2
    s3 = s3
    p1 = p1
    p2 = p2
    NoOne = NoOne
    Stock = Stock
    Earlier = Earlier
    Torn = Torn
    Session = {s1}
    Web = {}
    Batch = {}
    Screen = {p1}
    Symlink = {}
    Size <- OneUnit
    ImageCap = 2
    Floor = 1
    Space = 3
    Fault = {"timeout"}
    Threads = 3
    MaxHits = 1
    MaxDepth = 1
INVARIANTS CloseRevertsAlways
