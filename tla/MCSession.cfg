SPECIFICATION Spec
CONSTANTS
    Win <- MCWin
    NoWin = NoWin
    OrbitCount = 2
    Layouts = {"triptych"}
    DefaultLayout = "triptych"
    HistoryDepth = 1
    w1 = w1
    w2 = w2
    Window <- MCWindow
    Keymap <- MCKeymap
    Titles = {"u"}
    NewTitle = "t"
    None = None
    MaxWinId = 3
    MaxManagedWindows = 2
    MaxStagedEffects = 2
    Snapshots <- MCSnapshots
    Requests <- MCRequests
    Workareas <- MCWorkareas
    MaxTickets = 4
    MaxEvents = 2
    MaxMinutes = 1
SYMMETRY MCSymmetry
INVARIANTS
    CleanBoundaryShown
    LiveSnapshotValid
    RepeatTimerOwned
    TransactionOwesItsOwn
    NoContractFailureOnceLive
    PublishedIsCurrent
CHECK_DEADLOCK FALSE
