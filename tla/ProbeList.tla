----------------------------- MODULE ProbeList ------------------------------
(***************************************************************************)
(* What registering probes promises (src/src/usense.h:78-81): the library  *)
(* looks for what was registered and not unregistered, in the order of     *)
(* registration, and for its own three drivers if that is nothing.         *)
(***************************************************************************)
EXTENDS Integers, Sequences

CONSTANTS Probes, Own, Devices, Matches, Builtin, Nobody

VARIABLES
    list,       \* the probes looked for, each once
    driver      \* driver[d]: the probe that d was found by in the last scan

vars == <<list, driver>>

Listed == {list[j] : j \in 1..Len(list)}

Init == list = <<>> /\ driver = [d \in Devices |-> Nobody]

Add(p) == p \notin Listed /\ list' = Append(list, p) /\ UNCHANGED driver

Remove(p) ==
    /\ \E i \in 1..Len(list) :
          /\ list[i] = p
          /\ list' = SubSeq(list, 1, i - 1) \o SubSeq(list, i + 1, Len(list))
    /\ UNCHANGED driver

\* The first probe of l that matches d.
Finds(l, d, p) ==
    \E j \in 1..Len(l) :
        /\ l[j] = p /\ p \in Matches[d]
        /\ \A i \in 1..(j - 1) : l[i] \notin Matches[d]

Scan(l) ==
    /\ driver' \in [Devices -> Probes \cup {Nobody}]
    /\ \A d \in Devices :
          \/ Finds(l, d, driver'[d])
          \/ driver'[d] = Nobody /\ \A j \in 1..Len(l) : l[j] \notin Matches[d]

Start ==
    /\ list' = IF list = <<>> THEN Builtin ELSE list
    /\ Scan(list')

Detect == Scan(list) /\ UNCHANGED list

Next ==
    \/ \E p \in Own : Add(p) \/ Remove(p)
    \/ Start \/ Detect

Spec == Init /\ [][Next]_vars
=============================================================================
