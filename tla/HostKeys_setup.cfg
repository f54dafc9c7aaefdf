\* Every command and two web connections, a tablet re-keyed twice, Ctrl+C in all but
\* a re-trust.
SPECIFICATION Spec
CONSTANTS
    k1 = k1
    k2 = k2
    k3 = k3
    v1 = v1
    v2 = v2
    NoKey = NoKey
    Key = {k1, k2, k3}
    Visitor = {v1, v2}
    Interrupts = {"setup", "trustkey"}
    MaxRekeys = 2
INVARIANTS TypeOK PasswordToPinned StaysReady
PROPERTIES NeverUnpinned
