SPECIFICATION Spec_core
CONSTANTS
    Win = {w1, w2}
    NoWin = NoWin
    OrbitCount = 2
    Layouts = {"triptych", "mono"}
    DefaultLayout = "triptych"
    HistoryDepth = 2
    p1 = p1
    p2 = p2
    p3 = p3
    p4 = p4
    p5 = p5
    Widths = {1, 3, 7}
    Heights = {3, 4}
    Reserved = {0, 2}
SYMMETRY WindowSymmetry
INVARIANTS
    LedgerConsistent
    UndoThenRedo
    ProjectionExact
PROPERTIES
    UndoRestoresStep
