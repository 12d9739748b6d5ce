----------------------------- MODULE LedgerSpec -----------------------------
(***************************************************************************)
(* The ledger as a state machine: any sequence of calls of the methods of  *)
(* Ledger, in the order its single owner, the session, may make them.      *)
(***************************************************************************)
EXTENDS LedgerOps

VARIABLE ledger

Init == ledger = NewLedger

Summon(win, orbit) == ledger' = summon(ledger, win, orbit)
Banish(win) == ledger' = banish(ledger, win)

FocusWindow(win) == ledger' = focus_window(ledger, win)
FocusStep(dir) == ledger' = focus_step(ledger, dir)
Swap(dir) == ledger' = swap(ledger, dir)
MoveToOrbit(target) == ledger' = move_to_orbit(ledger, target)
SwitchOrbit(target) == ledger' = switch_orbit(ledger, target)
ToggleStow == ledger' = toggle_stow(ledger)
ToggleFullscreen == ledger' = toggle_fullscreen(ledger)
SetLayout(layout) == ledger' = set_layout(ledger, layout)

Undo == ledger' = undo(ledger)
Redo == ledger' = redo(ledger)

\* Calls that record a user's wish.
DesiredMutation ==
    \/ \E win \in Win : FocusWindow(win)
    \/ \E dir \in Dir : FocusStep(dir) \/ Swap(dir)
    \/ \E target \in OrbitId : MoveToOrbit(target) \/ SwitchOrbit(target)
    \/ ToggleStow
    \/ ToggleFullscreen
    \/ \E layout \in Layouts : SetLayout(layout)

\* Calls that report what the compositor did.
ObservedLifecycle ==
    \/ \E win \in Win, orbit \in OrbitId : Summon(win, orbit)
    \/ \E win \in Win : Banish(win)

Next == DesiredMutation \/ ObservedLifecycle \/ Undo \/ Redo

Spec == Init /\ [][Next]_ledger

-----------------------------------------------------------------------------
\* The ledger is a record of the shape ledger.rs declares.
TypeOK == ledger \in Ledger

\* Every orbit that is, or that undo or redo can put back, is one the rest of
\* the daemon can index: no window twice, focus inside the list exactly when
\* there is one, stow list and fullscreen window drawn from the list
\* (summon, banish and move_to_orbit keep four fields in step).
LedgerConsistent ==
    /\ WellFormed(ledger)
    /\ \A i \in DOMAIN ledger.history : WellFormed(ledger.history[i])
    /\ \A i \in DOMAIN ledger.redo : WellFormed(ledger.redo[i])

\* Every snapshot on both stacks holds exactly the windows that exist now, so
\* undo neither resurrects a closed window nor drops an open one
\* (discard_undo_history in summon and banish).
SnapshotsAgreeOnWindows ==
    /\ \A i \in DOMAIN ledger.history : AllWindows(ledger.history[i]) = AllWindows(ledger)
    /\ \A i \in DOMAIN ledger.redo : AllWindows(ledger.redo[i]) = AllWindows(ledger)

\* The two stacks together stay within HISTORY_DEPTH, although redo pushes
\* onto the history without the check that checkpoint makes.
HistoryBounded == Len(ledger.history) + Len(ledger.redo) <= HistoryDepth

\* What undo takes back redo restores to the last field, stacks included.
UndoThenRedo == ledger.history # <<>> => redo(undo(ledger)) = ledger

\* Undoing a desired mutation shows exactly the orbits and the active orbit
\* that were there before it, however many edits the mutation makes; and only
\* the observed lifecycle, never an edit, undo or redo, changes which windows
\* exist, though the snapshots were taken while others were open.
UndoRestoresStep ==
    [][/\ DesiredMutation => SnapshotOf(undo(ledger')) = SnapshotOf(ledger)
       /\ DesiredMutation \/ Undo \/ Redo => AllWindows(ledger') = AllWindows(ledger)]_ledger
=============================================================================
