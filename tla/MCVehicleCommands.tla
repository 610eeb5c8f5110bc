-------------------------- MODULE MCVehicleCommands --------------------------
(***************************************************************************)
(* The instances of VehicleCommands.  The first is a takeoff (SetMode,     *)
(* 176, then NAV_TAKEOFF, 22) and a generic command whose op does not fit  *)
(* the uint16 of the wire: 65712 is sent as 176, so that its               *)
(* acknowledgements look like those of the SetMode.  One command that      *)
(* nobody answers, and two mode changes, are for what the comments         *)
(* promise.                                                                *)
(***************************************************************************)
EXTENDS VehicleCommands, TLC

CONSTANTS mode, takeoff, mode2, wide, r1, r2

TakeoffCmd == {mode, takeoff, wide}
TakeoffOp == mode :> 176 @@ takeoff :> 22 @@ wide :> 65712
TwoRequest == {r1, r2}
TakeoffSetup == r1 :> mode @@ r2 :> NoCmd
TakeoffMain == r1 :> takeoff @@ r2 :> wide

OneCmd == {mode}
OneOp == mode :> 176
OneRequest == {r1}
OneSetup == r1 :> NoCmd
OneMain == r1 :> mode

TwoCmd == {mode, mode2}
TwoOp == mode :> 176 @@ mode2 :> 176
TwoSetup == r1 :> NoCmd @@ r2 :> NoCmd
TwoMain == r1 :> mode @@ r2 :> mode2
=============================================================================
