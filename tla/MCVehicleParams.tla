--------------------------- MODULE MCVehicleParams ---------------------------
(***************************************************************************)
(* Two parameters and the hash, so that a set of the right size may be the *)
(* wrong one.                                                              *)
(***************************************************************************)
EXTENDS VehicleParams

CONSTANT c1

OneClient == {c1}
=============================================================================
