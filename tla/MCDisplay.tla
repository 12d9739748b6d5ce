----------------------------- MODULE MCDisplay ------------------------------
(* One panel, two sizes, two levels and two keymaps: a second value of each *)
(* is what an old picture can differ by.                                    *)
EXTENDS Display
=============================================================================
