\* Two processes of one user that overlap; a build of one picture and its manifest, which a store rewrites
\* as it would mend a bad picture; two failures of any kind but a key that cannot be filled, and one kill.
SPECIFICATION FairSpec
CONSTANTS
    m1 = m1
    m2 = m2
    f1 = f1
    NoProc = NoProc
    Manifest = Manifest
    Proc = {m1, m2}
    Picture = {f1}
    Bad = {}
    OldFile = {f1, Manifest}
    Faults = {"restrict", "copy", "config", "backup"}
    MaxFaults = 2
    MaxKills = 1
INVARIANTS TypeOK NothingHalfCopied
PROPERTIES KeyKept ConfigArrives PictureKept BackupsArrive
