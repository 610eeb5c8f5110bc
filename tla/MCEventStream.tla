----------------------------- MODULE MCEventStream -----------------------------
(***************************************************************************)
(* Two clients: one can be slow, leave and come back while the other       *)
(* waits.                                                                  *)
(***************************************************************************)
EXTENDS EventStream

=============================================================================
