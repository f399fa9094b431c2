------------------------------ MODULE MCTemper ------------------------------
(* Small instances of Temper for TLC. *)
EXTENDS Temper

Bytes == 0..255

\* The driver makes its own transfers.
NoTransfers == {}

\* 25.5 degrees, and -0.0625: all bits of a byte set, and the sign.
TwoTemps == {25 * 256 + 128, 65520}
=============================================================================
