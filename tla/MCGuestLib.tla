----------------------------- MODULE MCGuestLib -----------------------------
(***************************************************************************)
(* Two libraries: one that opens the other in its Init, and a pair that    *)
(* need each other.                                                        *)
(***************************************************************************)
EXTENDS GuestLib, TLC
CONSTANTS la, lb

NeedsOther == (la :> <<lb>>) @@ (lb :> <<>>)
Cycle == (la :> <<lb>>) @@ (lb :> <<la>>)
Needs == {NeedsOther, Cycle}
=============================================================================
