---------------------------- MODULE MCFlightLog ----------------------------
(***************************************************************************)
(* Two seconds, two flights: a file of the first is being uploaded while   *)
(* the second is recorded, under the same name or another.                 *)
(***************************************************************************)
EXTENDS FlightLog

CONSTANT heartbeat

MCMsgId == {heartbeat}
=============================================================================
