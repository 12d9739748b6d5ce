----------------------------- MODULE LedgerOps -----------------------------
(***************************************************************************)
(* The window ledger of realm-core (crates/realm-core/src/ledger.rs): six  *)
(* orbits, each an ordered list of windows, and the undo and redo stacks   *)
(* of whole-ledger snapshots.  Every method of Ledger is an operator that  *)
(* takes a ledger and returns the ledger the method leaves behind.         *)
(*                                                                         *)
(* Indices are one more than in the code, so focus = 0 is None.  The stow  *)
(* list is a set: the code only asks it for membership.                    *)
(***************************************************************************)
EXTENDS Integers, Sequences, Functions

CONSTANTS
    Win,            \* window identities (WinId)
    NoWin,          \* the None of Option<WinId>
    OrbitCount,     \* ORBIT_COUNT, six in the code
    Layouts,        \* the layout algorithms
    DefaultLayout,  \* Layout::default()
    HistoryDepth    \* HISTORY_DEPTH, 64 in the code

\* What the code fixes at compile time.
ASSUME LedgerAssumption ==
    /\ NoWin \notin Win
    /\ OrbitCount \in Nat \ {0}
    /\ DefaultLayout \in Layouts
    /\ HistoryDepth \in Nat \ {0}

\* Of a Vec: its last element and what precedes it, an element inserted at i and
\* the one at i removed.
Last(s) == s[Len(s)]
Front(s) == SubSeq(s, 1, Len(s) - 1)
InsertAt(s, i, e) == SubSeq(s, 1, i - 1) \o <<e>> \o SubSeq(s, i, Len(s))
RemoveAt(s, i) == SubSeq(s, 1, i - 1) \o SubSeq(s, i + 1, Len(s))

OrbitId == 1..OrbitCount
Dir == {"Next", "Prev"}

OrbitState ==
    [windows: Seq(Win), focus: Nat, stowed: SUBSET Win,
     layout: Layouts, fullscreen: Win \cup {NoWin}]
Snapshot == [orbits: [OrbitId -> OrbitState], active: OrbitId]
Ledger == [orbits: [OrbitId -> OrbitState], active: OrbitId,
           history: Seq(Snapshot), redo: Seq(Snapshot)]

-----------------------------------------------------------------------------
(* Reading a ledger.                                                       *)

NewOrbit == [windows |-> <<>>, focus |-> 0, stowed |-> {},
             layout |-> DefaultLayout, fullscreen |-> NoWin]
NewLedger == [orbits |-> [o \in OrbitId |-> NewOrbit], active |-> 1,
              history |-> <<>>, redo |-> <<>>]

WindowSet(o) == Range(o.windows)
Position(s, e) == CHOOSE i \in DOMAIN s : s[i] = e

\* Orbit::visible as a set; the order is that of windows.
visible(o) == WindowSet(o) \ o.stowed
\* Orbit::focused: windows.get(focus), None when out of range.
focused(o) == IF o.focus \in DOMAIN o.windows THEN o.windows[o.focus] ELSE NoWin

active_orbit(L) == L.orbits[L.active]
LedgerFocus(L) == focused(active_orbit(L))
AllWindows(S) == UNION {WindowSet(S.orbits[o]) : o \in OrbitId}
orbit_of(L, win) == CHOOSE o \in OrbitId : win \in WindowSet(L.orbits[o])

-----------------------------------------------------------------------------
(* The undo and redo stacks.                                               *)

SnapshotOf(L) == [orbits |-> L.orbits, active |-> L.active]
checkpoint(L) ==
    LET pushed == Append(L.history, SnapshotOf(L))
    IN  [L EXCEPT !.history = IF Len(pushed) > HistoryDepth THEN Tail(pushed)
                                                            ELSE pushed,
                  !.redo = <<>>]

discard_undo_history(L) == [L EXCEPT !.history = <<>>, !.redo = <<>>]

\* An undo that forgets which orbit was shown.
undo_KeepsActive(L) ==
    IF L.history = <<>> THEN L
    ELSE [L EXCEPT !.orbits = Last(L.history).orbits,
                   !.history = Front(L.history),
                   !.redo = Append(L.redo, SnapshotOf(L))]
undo(L) ==
    IF L.history = <<>> THEN L
    ELSE LET prev == Last(L.history)
         IN  [orbits |-> prev.orbits, active |-> prev.active,
              history |-> Front(L.history),
              redo |-> Append(L.redo, SnapshotOf(L))]

redo(L) ==
    IF L.redo = <<>> THEN L
    ELSE LET next == Last(L.redo)
         IN  [orbits |-> next.orbits, active |-> next.active,
              history |-> Append(L.history, SnapshotOf(L)),
              redo |-> Front(L.redo)]

-----------------------------------------------------------------------------
(* Editing one orbit.                                                      *)

Min2(a, b) == IF a < b THEN a ELSE b
Max2(a, b) == IF a < b THEN b ELSE a
SatSub(a, b) == IF a < b THEN 0 ELSE a - b

\* Orbit::reseat_focus; hint is the code's zero-based index.
reseat_focus(o, hint) ==
    [o EXCEPT !.focus = IF o.windows = <<>> THEN 0
                        ELSE Min2(hint, Len(o.windows) - 1) + 1]

\* The insertion shared by summon and move_to_orbit: right after the focus.
InsertAfterFocus(o, win) ==
    LET at == Min2(o.focus, Len(o.windows)) + 1
    IN  [o EXCEPT !.windows = InsertAt(@, at, win), !.focus = at]

\* A removal that leaves the window in the stow list.
RemoveWindow_KeepsStow(o, win) ==
    [o EXCEPT !.windows = RemoveAt(@, Position(@, win)),
              !.fullscreen = IF @ = win THEN NoWin ELSE @]
\* The removal shared by banish and move_to_orbit, before reseat_focus.
RemoveWindow(o, win) ==
    [o EXCEPT !.windows = RemoveAt(@, Position(@, win)),
              !.stowed = @ \ {win},
              !.fullscreen = IF @ = win THEN NoWin ELSE @]

\* (cur + 1) % n and (cur + n - 1) % n.
Neighbour(cur, dir, n) ==
    IF dir = "Next" THEN (cur % n) + 1 ELSE ((cur + n - 2) % n) + 1

WithActive(L, o) == [L EXCEPT !.orbits[L.active] = o]

-----------------------------------------------------------------------------
(* Observed window lifecycle: clears the undo history.                     *)

summon(L, win, orbit) ==
    IF win \in AllWindows(L) THEN L
    ELSE [discard_undo_history(L) EXCEPT !.orbits[orbit] = InsertAfterFocus(@, win)]

banish(L, win) ==
    IF win \notin AllWindows(L) THEN L
    ELSE LET o == L.orbits[orbit_of(L, win)]
             at == Position(o.windows, win) - 1
             gone == RemoveWindow(o, win)
             past == IF at >= Max2(Len(gone.windows), 1) THEN 1 ELSE 0
         IN  [discard_undo_history(L) EXCEPT
                !.orbits[orbit_of(L, win)] = reseat_focus(gone, SatSub(at, past))]

-----------------------------------------------------------------------------
(* Desired mutations: each checkpoints before it edits.                    *)

focus_window(L, win) ==
    IF win \notin AllWindows(L) THEN L
    ELSE LET orbit == orbit_of(L, win)
         IN  [checkpoint(L) EXCEPT
                !.active = orbit,
                !.orbits[orbit].focus = Position(L.orbits[orbit].windows, win)]

focus_step(L, dir) ==
    LET o == active_orbit(L)
        cur == IF o.focus = 0 THEN 1 ELSE o.focus
    IN  IF Len(o.windows) < 2 THEN L
        ELSE WithActive(checkpoint(L),
                        [o EXCEPT !.focus = Neighbour(cur, dir, Len(o.windows))])

swap(L, dir) ==
    LET o == active_orbit(L)
        target == Neighbour(o.focus, dir, Len(o.windows))
    IN  IF o.focus = 0 \/ Len(o.windows) < 2 THEN L
        ELSE WithActive(checkpoint(L),
                [o EXCEPT !.windows = [@ EXCEPT ![o.focus] = o.windows[target],
                                                ![target] = o.windows[o.focus]],
                          !.focus = target])

\* A move that checkpoints after it took the window out of its old orbit.
move_to_orbit_LateCheckpoint(L, target) ==
    LET win == LedgerFocus(L)
        o == active_orbit(L)
        at == Position(o.windows, win) - 1
        taken == WithActive(L, reseat_focus(RemoveWindow(o, win), SatSub(at, 1)))
    IN  IF win = NoWin \/ target = L.active THEN L
        ELSE [checkpoint(taken) EXCEPT !.orbits[target] = InsertAfterFocus(@, win)]
move_to_orbit(L, target) ==
    LET win == LedgerFocus(L)
        o == active_orbit(L)
        at == Position(o.windows, win) - 1
    IN  IF win = NoWin \/ target = L.active THEN L
        ELSE [checkpoint(L) EXCEPT
                !.orbits[L.active] = reseat_focus(RemoveWindow(o, win), SatSub(at, 1)),
                !.orbits[target] = InsertAfterFocus(@, win)]
switch_orbit(L, target) ==
    IF target = L.active THEN L ELSE [checkpoint(L) EXCEPT !.active = target]

toggle_stow(L) ==
    LET win == LedgerFocus(L)
        o == active_orbit(L)
    IN  IF win = NoWin THEN L
        ELSE WithActive(checkpoint(L),
                [o EXCEPT !.stowed = IF win \in @ THEN @ \ {win} ELSE @ \cup {win}])

toggle_fullscreen(L) ==
    LET win == LedgerFocus(L)
        o == active_orbit(L)
    IN  IF win = NoWin THEN L
        ELSE WithActive(checkpoint(L),
                [o EXCEPT !.fullscreen = IF @ = win THEN NoWin ELSE win])

set_layout(L, layout) ==
    LET o == active_orbit(L)
    IN  IF o.layout = layout THEN L
        ELSE WithActive(checkpoint(L), [o EXCEPT !.layout = layout])

-----------------------------------------------------------------------------
(* What a ledger has to be for the rest of the daemon to index into it     *)
(* without checking.                                                       *)

OrbitWellFormed(o) ==
    /\ \A i, j \in DOMAIN o.windows : o.windows[i] = o.windows[j] => i = j
    /\ IF o.windows = <<>> THEN o.focus = 0 ELSE o.focus \in DOMAIN o.windows
    /\ o.stowed \subseteq WindowSet(o)
    /\ o.fullscreen \in WindowSet(o) \cup {NoWin}

\* Of a ledger or of a snapshot: every orbit is well formed and no window is
\* in two orbits.
WellFormed(S) ==
    /\ \A o \in OrbitId : OrbitWellFormed(S.orbits[o])
    /\ \A o, p \in OrbitId :
          o # p => WindowSet(S.orbits[o]) \cap WindowSet(S.orbits[p]) = {}
=============================================================================
