---------------------------- MODULE MCProbeTable ----------------------------
(* The table of probes with an application that has three of its own.       *)
EXTENDS ProbeTable

OwnProbes == {"mine", "other", "third"}
TwoDevices == {"stick", "box"}

\* The application's probes look for what the library's do, and for more.
BothMatch == [d \in TwoDevices |->
    IF d = "stick" THEN {"TEMPer", "mine", "third"} ELSE {"gotemp", "other"}]

Up == {"up"}

=============================================================================
