----------------------------- MODULE MCStatusFeed ------------------------------
(***************************************************************************)
(* Two browsers: one can be slow, closed or new while the other is served. *)
(***************************************************************************)
EXTENDS StatusFeed

=============================================================================
