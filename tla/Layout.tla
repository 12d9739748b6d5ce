------------------------------- MODULE Layout -------------------------------
(***************************************************************************)
(* The projection of an orbit onto an output                               *)
(* (crates/realm-core/src/layout.rs): the largest-remainder partition, the *)
(* grid, the three layouts and project.                                    *)
(*                                                                         *)
(* A weight is an integer, the numerator of the code's f32 ratio over a    *)
(* common denominator: 640/1920 is 1 of 3, 700/1280 is 35 of 64, and       *)
(* 580/1022 is 290 of 511.                                                 *)
(***************************************************************************)
EXTENDS LedgerOps, FiniteSets

Rect(x, y, w, h) == [x |-> x, y |-> y, w |-> w, h |-> h]
\* Workarea::new
Workarea(width, height, top, bottom) ==
    LET t == Max2(top, 0)
        b == Max2(bottom, 0)
    IN  [output |-> Rect(0, 0, width, height),
         tiles |-> Rect(0, t, width, Max2(height - t - b, 0))]

Total(s) == SumFunction(s)
Before(s, i) == Total(SubSeq(s, 1, i - 1))

\* Floors only: up to Len(weights) - 1 pixels show the void.
partition_Floors(total, weights) ==
    LET sum == Total(weights)
    IN  [i \in DOMAIN weights |-> (Max2(total, 0) * weights[i]) \div sum]
\* Every part gets its floor, and the parts that lost most get one more, the
\* earlier one first when two lost the same.
partition(total, weights) ==
    LET sum == Total(weights)
        whole == Max2(total, 0)
        floor == [i \in DOMAIN weights |-> (whole * weights[i]) \div sum]
        lost == [i \in DOMAIN weights |-> (whole * weights[i]) % sum]
        leftover == whole - Total(floor)
        Ahead(i) == {j \in DOMAIN weights :
                        lost[j] > lost[i] \/ (lost[j] = lost[i] /\ j < i)}
    IN  [i \in DOMAIN weights |->
            floor[i] + (IF Cardinality(Ahead(i)) < leftover THEN 1 ELSE 0)]

Equal(n) == [i \in 1..n |-> 1]
\* The second argument is Some(params) for the triptych's stack.
RowWeights(rows, stack) == IF rows = 2 /\ stack THEN <<290, 221>> ELSE Equal(rows)
ColWeights(in_row, stack) == IF in_row = 2 /\ stack THEN <<35, 29>> ELSE Equal(in_row)

CeilDiv(a, b) == (a + b - 1) \div b

grid(n, area, columns, stack) ==
    LET cols == Max2(1, Min2(columns, n))
        heights == partition(area.h, RowWeights(CeilDiv(n, cols), stack))
        Cell(k) == LET row == ((k - 1) \div cols) + 1
                       col == ((k - 1) % cols) + 1
                       in_row == Min2(cols, n - (row - 1) * cols)
                       widths == partition(area.w, ColWeights(in_row, stack))
                   IN  Rect(area.x + Before(widths, col), area.y + Before(heights, row),
                            widths[col], heights[row])
    IN  IF n = 0 \/ area.w <= 0 \/ area.h <= 0 THEN <<>> ELSE [k \in 1..n |-> Cell(k)]

triptych(n, area) ==
    LET cols == partition(area.w, <<1, 2>>)
        stack == Rect(area.x + cols[1], area.y, cols[2], area.h)
    IN  IF n = 1 THEN <<area>>
        ELSE <<Rect(area.x, area.y, cols[1], area.h)>> \o grid(n - 1, stack, 2, TRUE)

CeilSqrt(n) == CHOOSE c \in 0..n : c * c >= n /\ (c = 0 \/ (c - 1) * (c - 1) < n)
even(n, area) == grid(n, area, Max2(1, CeilSqrt(n)), FALSE)
visible_in_order(o) == SelectSeq(o.windows, LAMBDA w : w \in visible(o))

Rects(layout, n, tiles) ==
    CASE layout = "triptych" -> triptych(n, tiles)
      [] layout = "mono" -> [i \in 1..n |-> tiles]
      [] layout = "even" -> even(n, tiles)

Place(o, w, r, hidden) ==
    [win |-> w, rect |-> r, focused |-> focused(o) = w, occluded |-> hidden]

\* The window a mono orbit shows.
MonoTop(o, wins) == IF focused(o) # NoWin THEN focused(o) ELSE wins[1]

\* The zip of windows and rectangles.
PlaceEach(o, wins, rects) ==
    [i \in 1..Min2(Len(wins), Len(rects)) |->
        Place(o, wins[i], rects[i], o.layout = "mono" /\ wins[i] # MonoTop(o, wins))]

PlaceTiles(o, wins, tiles) ==
    IF wins = <<>> \/ tiles.w <= 0 \/ tiles.h <= 0 THEN <<>>
    ELSE PlaceEach(o, wins, Rects(o.layout, Len(wins), tiles))

\* project: the placements in ledger order.
project(o, area) ==
    IF o.fullscreen # NoWin /\ o.fullscreen \in visible(o)
    THEN <<Place(o, o.fullscreen, area.output, FALSE)>>
    ELSE PlaceTiles(o, visible_in_order(o), area.tiles)
=============================================================================
