CONSTANTS
    Daemons = {d1, d2}
    Inodes = {i1, i2}
    None = None
    MaxFaults = 3
SPECIFICATION Spec
INVARIANTS
    OneReachableListener
    ReadyIsReachable
PROPERTIES
    BarFindsSession
