----------------------------- MODULE MCSession -----------------------------
(***************************************************************************)
(* Two compositor windows, two orbits, a keymap with a key of each kind.   *)
(***************************************************************************)
EXTENDS SessionSpec, TLC

CONSTANTS w1, w2

MCWin == 0..2
Key(action, arg, mode, repeatable) ==
    [action |-> action, arg |-> arg, mode |-> mode, repeatable |-> repeatable]
MCKeymap == <<Key("Focus", "Next", "Nav", TRUE), Key("EnterMode", "Resize", "Nav", FALSE),
              Key("Terminal", None, "Nav", FALSE), Key("Banish", None, "Resize", FALSE)>>
MCRequests == {[action |-> "Banish", arg |-> None], [action |-> "Orbit", arg |-> 1]}
MCWorkareas == {Workarea(4, 3, 0, 0)}
MCWindow == {w1, w2}
MCSymmetry == Permutations(MCWindow)
\* A restart that knew one of the windows, stowed on the second orbit, which it
\* may or may not find again; and the same file of another protocol version.
Written(x) ==
    snapshot([ledger |-> toggle_stow(switch_orbit(summon(NewLedger, 0, 2), 2)),
              ids |-> [w \in {x} |-> 0], next |-> 1])
MCSnapshots ==
    {to_json(Written(x)) : x \in MCWindow}
    \cup {to_json([Written(x) EXCEPT !.protocol_version = 1]) : x \in MCWindow}
=============================================================================
