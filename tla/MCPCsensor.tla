----------------------------- MODULE MCPCsensor -----------------------------
(* PCsensor with the words at the edges of the sign and of the two bytes.   *)
EXTENDS PCsensor

\* 0, 1/256, just under and at 1, 25.5, the highest, the lowest, -1 and -1/256.
EdgeWords == {0, 1, 255, 256, 6528, 32767, 32768, 65280, 65535}
=============================================================================
