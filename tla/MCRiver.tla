------------------------------ MODULE MCRiver ------------------------------
(* The River backend on one window and a socket that holds one request: of *)
(* outputs, seats and devices one is there and one can be plugged in.      *)
EXTENDS River

CONSTANT w1
=============================================================================
