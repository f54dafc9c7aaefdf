\* Setup against Ctrl+C: does a failed re-trust leave the tablet pinned?
SPECIFICATION Spec
CONSTANTS
    k1 = k1
    k2 = k2
    k3 = k3
    v1 = v1
    v2 = v2
    NoKey = NoKey
    Key = {k1, k2, k3}
    Visitor = {v1, v2}
    Interrupts = {"retrust"}
    MaxRekeys = 2
PROPERTIES NeverUnpinned
