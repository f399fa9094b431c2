------------------------------ MODULE MCUsense ------------------------------
(* Instances of Usense for TLC.                                            *)
EXTENDS Usense, TLC

CONSTANTS u1, u2, u3

\* Two sensors of different kinds.
Pair       == {u1, u2}
PairDriver == (u1 :> "gotemp") @@ (u2 :> "PCsensor_Temper")
PairIfaces == (u1 :> 2) @@ (u2 :> 1)

\* One with two interfaces, one with none, and a device that is no sensor.
Three       == {u1, u2, u3}
ThreeDriver == (u1 :> "TEMPer") @@ (u2 :> "gotemp") @@ (u3 :> "none")
ThreeIfaces == (u1 :> 1) @@ (u2 :> 0) @@ (u3 :> 1)

\* A gotemp with two interfaces.
One       == {u1}
OneGotemp == u1 :> "gotemp"
TwoIfaces == u1 :> 2

=============================================================================
