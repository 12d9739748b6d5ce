----------------------------- MODULE LayoutSpec -----------------------------
(***************************************************************************)
(* An orbit of any shape the ledger allows on an output that is resized,   *)
(* while the focus moves.                                                  *)
(***************************************************************************)
EXTENDS Layout

CONSTANTS WindowOrder,  \* the windows in one order; the names do not matter
          Widths, Heights, Reserved  \* output sizes and strip heights

VARIABLES orbit, area
vars == <<orbit, area>>

Orders == {SubSeq(WindowOrder, 1, n) : n \in 0..Len(WindowOrder)}
Orbits == {o \in [windows: Orders, focus: 0..Len(WindowOrder), stowed: SUBSET Win,
                  layout: Layouts, fullscreen: Win \cup {NoWin}] : OrbitWellFormed(o)}
Areas == {Workarea(w, h, t, b) : w \in Widths, h \in Heights, t \in Reserved, b \in Reserved}

Init == orbit \in Orbits /\ area \in Areas

\* WorkareaChanged: the session projects again on the new area.
Resize == area' \in Areas /\ UNCHANGED orbit

\* Ledger::focus_window and focus_step on this orbit.
MoveFocus ==
    /\ orbit.windows # <<>>
    /\ \E i \in DOMAIN orbit.windows : orbit' = [orbit EXCEPT !.focus = i]
    /\ UNCHANGED area

Next == Resize \/ MoveFocus
Spec == Init /\ [][Next]_vars

-----------------------------------------------------------------------------
\* The placements with their index, and where they are.
Placed(o, a) == LET p == project(o, a) IN {<<i, p[i]>> : i \in DOMAIN p}
Placements == Placed(orbit, area)
Fullscreen == orbit.fullscreen \in visible(orbit)

Covers(p, x, y) == /\ p.rect.x <= x /\ x < p.rect.x + p.rect.w
                   /\ p.rect.y <= y /\ y < p.rect.y + p.rect.h

\* "Gapless means gapless": in a tiling layout every pixel of the tile area
\* lies in exactly one projected rectangle, however the pixels divide
\* (partition, and the stretched last row of grid).
ExactTiling ==
    orbit.layout # "mono" /\ ~Fullscreen /\ visible(orbit) # {} =>
        LET cells == Placements
        IN  \A x \in area.tiles.x..(area.tiles.x + area.tiles.w - 1),
               y \in area.tiles.y..(area.tiles.y + area.tiles.h - 1) :
                 Cardinality({c \in cells : Covers(c[2], x, y)}) = 1

\* There is room for the rows and columns of the visible windows.
RoomForAll ==
    LET n == Cardinality(visible(orbit))
    IN  /\ area.tiles.w >= Max2(3, CeilSqrt(n))
        /\ area.tiles.h >= CeilDiv(n, 2)

\* On a tile area that is not degenerate every visible window gets a cell, in
\* ledger order, and a stowed one gets none: zip never drops a window.  With
\* room for its rows and columns no rectangle is empty, which the River backend
\* would refuse (respond_policy_turn).
EveryVisibleWindowPlaced ==
    ~Fullscreen /\ area.tiles.w > 0 /\ area.tiles.h > 0 =>
        LET shown == SelectSeq(orbit.windows, LAMBDA w : w \notin orbit.stowed)
        IN  /\ {<<c[1], c[2].win>> : c \in Placements} = {<<i, shown[i]>> : i \in DOMAIN shown}
            /\ RoomForAll => \A c \in Placements : c[2].rect.w > 0 /\ c[2].rect.h > 0

\* project() hands out the tile area exactly: every pixel to one window, every
\* visible window its cell.
ProjectionExact == ExactTiling /\ EveryVisibleWindowPlaced
=============================================================================
