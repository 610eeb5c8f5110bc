------------------------------ MODULE MCPQueue ------------------------------
(***************************************************************************)
(* A heap of three levels: seven items, with ties on every level.          *)
(***************************************************************************)
EXTENDS PQueue, TLC

CONSTANTS i1, i2, i3, i4, i5, i6, i7

MCItem == {i1, i2, i3, i4, i5, i6, i7}

MCPriority == i1 :> 1 @@ i2 :> 2 @@ i3 :> 2 @@ i4 :> 3 @@ i5 :> 3 @@ i6 :> 3 @@ i7 :> 4
=============================================================================
