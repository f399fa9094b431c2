----------------------------- MODULE ProbeTable -----------------------------
(***************************************************************************)
(* The table of probes of src/src/usense.c: usense_probe_register(),       *)
(* usense_probe_unregister(), usense_init() and the search of              *)
(* usense_probe_usb() through it.  The table is an array that realloc()    *)
(* sizes and of which dev_probes entries are in use.                       *)
(*                                                                         *)
(* usense_probe_unregister() closes the gap with a memcpy() whose source   *)
(* and destination overlap when two entries or more move: CopyOrders says  *)
(* in which directions the C library may copy.                             *)
(***************************************************************************)
EXTENDS Integers, Sequences

CONSTANTS
    Own,            \* probes the application registers and unregisters
    Devices,        \* devices that are plugged in
    Matches,        \* Matches[d]: the probes whose match() accepts d
    CopyOrders,
    MaxProbes       \* bound on the probes registered at a time

Drivers == {"gotemp", "TEMPer", "PCsensor_Temper"}
Probes == Drivers \cup Own
Nobody == "nobody"      \* no probe found the device
Garbage == "garbage"    \* what a fresh entry holds

ASSUME OwnAssumption == {Nobody, Garbage} \cap Own = {}
ASSUME MatchesAssumption == Matches \in [Devices -> SUBSET Probes]
ASSUME OrdersAssumption == CopyOrders \subseteq {"up", "down"} /\ CopyOrders # {}
ASSUME MaxProbesAssumption == MaxProbes \in Nat /\ MaxProbes >= 3

VARIABLES
    dev_probe,      \* the array, as long as it was allocated
    dev_probes,     \* entries in use
    running,        \* between usense_start() and usense_stop()
    driver,         \* driver[d]: the probe the last scan gave d, or Nobody
    ret,            \* what the last registration returned
    wanted          \* history: the probes registered and not unregistered since

vars == <<dev_probe, dev_probes, running, driver, ret, wanted>>

-----------------------------------------------------------------------------
(* The array.                                                              *)

\* realloc() to one entry more than are in use.  Mutant: to as many.
GrownNot(a, n) == [j \in 1..n |-> a[j]]
Grown(a, n) == [j \in 1..(n + 1) |-> IF j <= n THEN a[j] ELSE Garbage]

\* memcpy() of the m entries after i to i, from the first or from the last.
CopyUp(a, i, m) == [j \in 1..Len(a) |-> IF j \in i..(i + m - 1) THEN a[j + 1] ELSE a[j]]
CopyDown(a, i, m) == [j \in 1..Len(a) |-> IF j \in i..(i + m - 1) THEN a[i + m] ELSE a[j]]
Copied(a, i, m) ==
    {CopyUp(a, i, m) : o \in CopyOrders \cap {"up"}}
    \cup {CopyDown(a, i, m) : o \in CopyOrders \cap {"down"}}

\* The entries after the i-th that are in use.  Mutant: one too few.
BehindLess(i) == IF dev_probes = i THEN 0 ELSE dev_probes - i - 1
Behind(i) == dev_probes - i

InUse(p) == \E i \in 1..dev_probes : dev_probe[i] = p

Known(p) == InUse(p)

-----------------------------------------------------------------------------
(* The calls.                                                              *)

\* usense_probe_register(): on success nothing is returned, so the caller gets
\* whatever it gets.
Register(p) ==
    /\ \/ /\ Known(p)
          /\ ret' = "EEXIST"
          /\ UNCHANGED <<dev_probe, dev_probes>>
       \/ /\ ~Known(p)
          /\ dev_probes < MaxProbes
          /\ dev_probe' = [Grown(dev_probe, dev_probes) EXCEPT ![dev_probes + 1] = p]
          /\ dev_probes' = dev_probes + 1
          /\ ret' \in {"EEXIST", "undefined"}
    /\ wanted' = wanted \cup {p}
    /\ UNCHANGED <<running, driver>>

\* usense_probe_unregister()
Unregister(p) ==
    /\ \E i \in 1..dev_probes :
          /\ dev_probe[i] = p
          /\ \A j \in 1..(i - 1) : dev_probe[j] # p
          /\ dev_probe' \in Copied(dev_probe, i, Behind(i))
          /\ dev_probes' = dev_probes - 1
    /\ wanted' = wanted \ {p}
    /\ UNCHANGED <<running, driver, ret>>

\* usense_probe_usb(): the first entry whose match() accepts the device.
FoundBy(a, n, d) ==
    LET hits == {i \in 1..n : a[i] \in Matches[d]}
    IN  IF hits = {} THEN Nobody
        ELSE a[CHOOSE i \in hits : \A j \in hits : i <= j]

\* usense_detect() over the devices on the bus.
Scan(a, n) == driver' = [d \in Devices |-> FoundBy(a, n, d)]

\* usense_init(): registers the library's own drivers in an empty table.
Builtin == <<"gotemp", "TEMPer", "PCsensor_Temper">>

\* usense_start()
Start ==
    /\ ~running
    /\ running' = TRUE
    /\ \/ /\ dev_probes = 0
          /\ dev_probe' = Builtin
          /\ dev_probes' = 3
          /\ wanted' = Drivers
       \/ /\ dev_probes # 0
          /\ UNCHANGED <<dev_probe, dev_probes, wanted>>
    /\ Scan(dev_probe', dev_probes')
    /\ UNCHANGED ret

\* usense_detect()
Detect ==
    /\ running
    /\ Scan(dev_probe, dev_probes)
    /\ UNCHANGED <<dev_probe, dev_probes, running, ret, wanted>>

\* usense_stop()
Stop ==
    /\ running
    /\ running' = FALSE
    /\ UNCHANGED <<dev_probe, dev_probes, driver, ret, wanted>>

Init ==
    /\ dev_probe = <<>>
    /\ dev_probes = 0
    /\ running = FALSE
    /\ driver = [d \in Devices |-> Nobody]
    /\ ret = "none"
    /\ wanted = {}

Next ==
    \/ \E p \in Own : Register(p) \/ Unregister(p)
    \/ Start \/ Detect \/ Stop

Spec == Init /\ [][Next]_vars

-----------------------------------------------------------------------------
(* Properties.                                                             *)

\* Every variable has its type: no search runs past the array or finds an entry
\* that was never written.
TypeOK ==
    /\ dev_probe \in Seq(Probes \cup {Garbage})
    /\ dev_probes \in 0..MaxProbes /\ dev_probes <= Len(dev_probe)
    /\ \A i \in 1..dev_probes : dev_probe[i] \in Probes
    /\ running \in BOOLEAN
    /\ driver \in [Devices -> Probes \cup {Nobody}]
    /\ ret \in {"none", "EEXIST", "undefined"}
    /\ wanted \subseteq Probes

\* No probe is in the table twice, so one call of usense_probe_unregister()
\* removes it.  (usense.c:84-113)
NoDuplicates ==
    \A i, j \in 1..dev_probes : dev_probe[i] = dev_probe[j] => i = j

\* usense.h:78, "Register devices to look for": what was registered and not
\* unregistered since is in the table, where every scan finds it.
\* (usense.c:84-121)
RegisteredLookedFor == \A p \in wanted : InUse(p)

Abstract == INSTANCE ProbeList WITH list <- SubSeq(dev_probe, 1, dev_probes)

\* Whatever is registered and unregistered between scans, a device is found by
\* the first probe, in the order of registration, that was registered and not
\* unregistered since; the library's own are registered by usense_start() if
\* none is.  (usense.c:84-121, 332-349)
ImplementsList == Abstract!Spec
=============================================================================
