----------------------------- MODULE MCCloudRelay ------------------------------
(***************************************************************************)
(* Four packets of a throttled and an unthrottled kind: enough for three of*)
(* one kind to overtake each other in two ways, around a tick.             *)
(***************************************************************************)
EXTENDS CloudRelay

=============================================================================
