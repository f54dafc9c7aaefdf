\* Requests behind the lock and in a pool with a thread for each; every one hit once by a fault,
\* in nested blocks, one screen a symlink, one image too big.
SPECIFICATION FairSpec
CONSTANTS
    s1 = s1
    s2 = s2
    s3 = s3
    p1 = p1
    p2 = p2
    NoOne = NoOne
    Stock = Stock
    Earlier = Earlier
    Torn = Torn
    Session = {s1, s2, s3}
    Web = {s1, s2, s3}
    Batch = {s3}
    Screen = {p1, p2}
    Symlink = {p2}
    Size <- OneTooBig
    ImageCap = 2
    Floor = 1
    Space = 2
    Fault = {"link", "timeout", "kill", "stuck", "refused"}
    Threads = 3
    MaxHits = 1
    MaxDepth = 2
INVARIANTS TypeOK FloorKept NeverSilentlyWritable NotUnderAnothersWrite CloseReverts TempRemoved
PROPERTIES EverySessionEnds
