------------------------------- MODULE MCCore -------------------------------
(***************************************************************************)
(* The two pure parts of realm-core, which share no state: the ledger on   *)
(* two orbits, two windows, two layouts and an undo depth of two, which is *)
(* reached, overflows, and is undone and redone; and the layout of orbits  *)
(* of up to five windows on small outputs, some too small for them.  Each  *)
(* is explored with the other at its first state.                          *)
(***************************************************************************)
EXTENDS LedgerSpec, TLC

CONSTANTS p1, p2, p3, p4, p5,        \* the windows that are laid out
          Widths, Heights, Reserved

VARIABLES orbit, area

Tiling == INSTANCE LayoutSpec WITH
    Win <- {p1, p2, p3, p4, p5}, WindowOrder <- <<p1, p2, p3, p4, p5>>,
    OrbitCount <- 1, HistoryDepth <- 1,
    Layouts <- {"triptych", "mono", "even"}

CoreInit == Init /\ Tiling!Init

LedgerStep ==
    /\ orbit.windows = <<>> /\ orbit.layout = DefaultLayout /\ area = CHOOSE a \in Tiling!Areas : TRUE
    /\ Next
    /\ UNCHANGED <<orbit, area>>

LayoutStep == ledger = NewLedger /\ Tiling!Next /\ UNCHANGED ledger

CoreNext == LedgerStep \/ LayoutStep

Spec_core == CoreInit /\ [][CoreNext]_<<ledger, orbit, area>>

\* "Gapless means gapless", however the pixels divide, and zip never drops a
\* window: the projection of layout.rs, as LayoutSpec states it.
ProjectionExact == Tiling!ProjectionExact

WindowSymmetry == Permutations(Win)
=============================================================================
