------------------------------ MODULE MCControl ------------------------------
(***************************************************************************)
(* The control socket with a client that acts, or sends what is no request,*)
(* on the connection served first, and one that subscribes or quits on the *)
(* connection served after it.                                             *)
(***************************************************************************)
EXTENDS Control

MCPeerFrames == [i \in 1 .. MaxIds |-> IF i = 1 THEN {"hello", "act", "other"}
                                       ELSE {"hello", "sub", "quit"}]
=============================================================================
