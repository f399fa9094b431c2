------------------------------- MODULE Sensor -------------------------------
(***************************************************************************)
(* What the TEMPer driver promises: each update samples the sensor once,   *)
(* between its begin and its end, and delivers that sample whole.  A       *)
(* process that is killed delivers nothing.  A disturbance may spoil the   *)
(* update it happens in, and no other.                                     *)
(***************************************************************************)
CONSTANTS Temps, Values, NoReading

VARIABLES phase, sample, reading, temp, disturbed

vars == <<phase, sample, reading, temp, disturbed>>

Init ==
    /\ phase = "off"
    /\ sample = NoReading
    /\ reading = NoReading
    /\ temp \in Temps
    /\ disturbed = FALSE

Open ==
    /\ phase = "off"
    /\ phase' = "attaching"
    /\ UNCHANGED <<sample, reading, temp, disturbed>>

\* Attached; the first update is part of it, and what disturbed the attach may
\* spoil it.
Attach ==
    /\ phase = "attaching"
    /\ phase' = "asked"
    /\ disturbed' \in BOOLEAN
    /\ UNCHANGED <<sample, reading, temp>>

Ask ==
    /\ phase = "ready"
    /\ phase' = "asked"
    /\ disturbed' = FALSE
    /\ UNCHANGED <<sample, reading, temp>>

Sample ==
    /\ phase = "asked" /\ ~disturbed
    /\ phase' = "sampled"
    /\ sample' = temp
    /\ UNCHANGED <<reading, temp, disturbed>>

Deliver ==
    /\ phase = "sampled"
    /\ phase' = "ready"
    /\ reading' = sample
    /\ sample' = NoReading
    /\ UNCHANGED <<temp, disturbed>>

Disturb ==
    /\ phase \in {"asked", "sampled"} /\ ~disturbed
    /\ phase' = "asked"
    /\ disturbed' = TRUE
    /\ sample' = NoReading
    /\ UNCHANGED <<reading, temp>>

\* The end of an update that was disturbed.
DeliverAny ==
    /\ phase = "asked" /\ disturbed
    /\ phase' = "ready"
    /\ reading' = reading \/ reading' \in Values
    /\ UNCHANGED <<sample, temp, disturbed>>

Kill ==
    /\ phase' = "off"
    /\ sample' = NoReading
    /\ reading' = NoReading
    /\ disturbed' = FALSE
    /\ UNCHANGED temp

Measure ==
    /\ temp' \in Temps
    /\ UNCHANGED <<phase, sample, reading, disturbed>>

Refuse == phase = "attaching" /\ Kill

Driver == Attach \/ Refuse \/ Sample \/ Deliver \/ DeliverAny
Next == Driver \/ Open \/ Ask \/ Disturb \/ Kill \/ Measure

\* What may happen.
Steps == Init /\ [][Next]_vars

\* Unless the process is killed every attach returns, and every sample that was
\* asked for is taken and delivered.
Spec == Steps /\ WF_vars(Driver)
=============================================================================
