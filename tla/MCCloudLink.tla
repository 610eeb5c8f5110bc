---------------------------- MODULE MCCloudLink ----------------------------
(***************************************************************************)
(* Two accounts, so that a message can be for the wrong one, and three     *)
(* listeners, one more than are ever alive.                                *)
(***************************************************************************)
EXTENDS CloudLink

CONSTANTS a1, a2, l1, l2, l3

TwoAccounts == {a1, a2}
ThreeListeners == {l1, l2, l3}
=============================================================================
