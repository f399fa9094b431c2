------------------------------ MODULE MCCh341 -------------------------------
(* Small instances of Ch341 for TLC. *)
EXTENDS Ch341

\* The address bytes of the sensor and the byte with most edges.
AddressBytes == {158, 159, 170}

\* B0, the last rate that no divisor fits, and the first ones that the coarsest
\* and the next one fit, on a system whose codes are the rates.
EdgeSpeeds == {0, 45, 46, 366}
=============================================================================
