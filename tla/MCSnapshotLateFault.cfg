SPECIFICATION Spec
CONSTANTS
    Snap = {s1, s2}
    None = None
    Absent = Absent
    Garbled = Garbled
    Unreadable = Unreadable
    Final = Final
    SnapshotDelay = 1
    MaxWorkerJobs = 1
    MaxWorkerResults = 2
    FenceTicks = 1
    WriteFaults = {"temporary", "rename", "parent"}
    MaxUpdates = 4
    MaxFaults = 2
    MaxRestarts = 0
INVARIANTS
    DurableWhenQuiet
