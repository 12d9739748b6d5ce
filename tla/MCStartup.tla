----------------------------- MODULE MCStartup ------------------------------
(***************************************************************************)
(* Two daemons that compete for the endpoint, two inodes so that one is    *)
(* used again, and MaxFaults crashes, ends and timeouts between them.      *)
(***************************************************************************)
EXTENDS Startup

=============================================================================
