\* One page and its one screen, two calls of watch() that overlap, two operations and two surprises.
SPECIFICATION FairSpec
CONSTANTS
    p1 = p1
    c1 = c1
    w1 = w1
    w2 = w2
    Stock = Stock
    None = None
    Screen = {p1}
    Custom = {c1}
    Watcher = {w1, w2}
    MaxOps = 2
    MaxSurprises = 2
INVARIANTS TypeOK ThumbsTrue StateTrue
PROPERTIES Noticed
