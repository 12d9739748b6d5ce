------------------------------ MODULE MCLaunch ------------------------------
(* The activation registry with one systemd and one direct launch. *)
EXTENDS Launch
=============================================================================
