----------------------------- MODULE MCFmuBridge ------------------------------
(***************************************************************************)
(* The bridge with two commands of the cloud, so that one can replace the  *)
(* other at any point of the loop, one HTTP request that meets the loop in *)
(* the encoder, and a sequence number that wraps after three frames.       *)
(***************************************************************************)
EXTENDS FmuBridge

=============================================================================
