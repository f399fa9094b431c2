----------------------------- MODULE PropStore ------------------------------
(***************************************************************************)
(* What the property calls of src/src/usense.h:117-146 promise of one      *)
(* device, without saying how the properties are kept: a map from keys to  *)
(* values that is written, read and walked in the order of the keys.       *)
(***************************************************************************)
EXTENDS Integers

CONSTANTS
    Key,        \* the keys, as numbers in the order of strcmp()
    Value,
    Protected   \* keys that cannot be written once the device is open

Absent == "absent"      \* no such property
End    == -1            \* the walk is over, or has not begun

VARIABLES
    store,      \* store[k]: the value of k, or Absent
    open,       \* the device has been handed to the client
    answer,     \* what the last call returned
    at          \* the key the walk has reached, or End

vars == <<store, open, answer, at>>

Keys == {k \in Key : store[k] # Absent}

Init ==
    /\ store = [k \in Key |-> Absent]
    /\ open = FALSE
    /\ answer = "none"
    /\ at = End

\* A set that is accepted says whether it changed anything.
Set(k, v) ==
    /\ ~open \/ k \notin Protected
    /\ store' = [store EXCEPT ![k] = v]
    /\ answer' = IF store[k] = v THEN "same" ELSE "changed"
    /\ UNCHANGED <<open, at>>

Refuse ==
    /\ answer' \in {"EINVAL", "EROFS"}
    /\ UNCHANGED <<store, open, at>>

\* A get returns what was set last.
Get(k) ==
    /\ answer' = IF store[k] = Absent THEN "ENOENT" ELSE store[k]
    /\ UNCHANGED <<store, open, at>>

Hand ==
    /\ open' = TRUE
    /\ UNCHANGED <<store, answer, at>>

\* A walk goes to the lowest key above m, or ends.
Above(m) ==
    \/ \E k \in Keys :
          /\ k > m
          /\ \A j \in Keys : j > m => j >= k
          /\ at' = k
    \/ (\A k \in Keys : k <= m) /\ at' = End

First == Above(End) /\ UNCHANGED <<store, open, answer>>
Walk == at # End /\ Above(at) /\ UNCHANGED <<store, open, answer>>

Next ==
    \/ \E k \in Key, v \in Value : Set(k, v)
    \/ \E k \in Key : Get(k)
    \/ Refuse \/ Hand \/ First \/ Walk

Spec == Init /\ [][Next]_vars
=============================================================================
