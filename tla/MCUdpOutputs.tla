---------------------------- MODULE MCUdpOutputs ----------------------------
(***************************************************************************)
(* An output of the command line, one that clients add and remove and one  *)
(* that cannot be dialled; two sockets, enough for an address to be added  *)
(* twice; two requests, so that any two of them overlap.                   *)
(***************************************************************************)
EXTENDS UdpOutputs

CONSTANTS a1, a2, bad, c1, c2

MCAddr == {a1, a2, bad}
MCBadAddr == {bad}
MCCmdLine == {a1}
MCDashed == {a1}
MCConn == {c1, c2}
=============================================================================
