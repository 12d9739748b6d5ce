SPECIFICATION FairSpec
CONSTANTS
    Snap = {s1, s2}
    None = None
    Absent = Absent
    Garbled = Garbled
    Unreadable = Unreadable
    Final = Final
    SnapshotDelay = 1
    MaxWorkerJobs = 2
    MaxWorkerResults = 2
    FenceTicks = 1
    WriteFaults = {"temporary", "rename", "parent"}
    MaxUpdates = 3
    MaxFaults = 1
    MaxRestarts = 1
INVARIANTS
    NoWorkerError
    HandoffsExact
    DurableUnlessLateFault
PROPERTIES
    DeadlineNeverSlides
    FenceAlwaysPasses
    EventuallyPersisted
