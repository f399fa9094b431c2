---------------------------- MODULE MCPropTable -----------------------------
(* The property table, with clients that try every kind of key and value.  *)
EXTENDS PropTable

Readings == {"295.4", "296.1"}
TriedKeys == {CalibrateMult, Reading, Units, 10}
TriedValues == {"2.0", "K", TooLong}
=============================================================================
