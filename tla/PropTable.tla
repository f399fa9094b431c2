----------------------------- MODULE PropTable ------------------------------
(***************************************************************************)
(* The properties of one device as src/src/usense.c keeps them: an array   *)
(* sorted by key, searched with bsearch(), grown with realloc() and sorted *)
(* again with qsort() whenever a key is added.  From usense_device_new()   *)
(* through attach and validation to the calls of the client.               *)
(*                                                                         *)
(* usense_prop_get("reading") calls the driver's update(), which sets      *)
(* properties, while it holds a pointer into the array.                    *)
(***************************************************************************)
EXTENDS Integers, Sequences

CONSTANTS
    Meas,           \* readings the drivers can set
    ClientKeys,     \* keys a client tries
    ClientValues    \* values a client tries to set

\* The keys in the order of strcmp().
TemperResolution == 0
CalibrateAdd     == 1
CalibrateMult    == 2
Device           == 3
Name             == 4
Reading          == 5
Type             == 6
Units            == 7
UsbProduct       == 8
UsbVendor        == 9

Drivers == {"gotemp", "TEMPer", "PCsensor_Temper"}
Absent == "absent"
TooLong == "toolong"    \* a string of USENSE_PROP_MAX or more characters

Key == 0..9 \cup ClientKeys
Value == {"0.0", "1.0", "unknown", "id", "usb:001.2", "12", "temp", "C"}
         \cup Drivers \cup Meas \cup (ClientValues \ {TooLong})
ValidUnits == {"C", "Celsius", "K", "Kelvin", "F", "Fahrenheit", "mK", "uC"}

ASSUME KeysAssumption == ClientKeys \subseteq Nat
ASSUME ValuesAssumption == {Absent, TooLong} \cap Meas = {} /\ Absent \notin ClientValues

VARIABLES
    arr,        \* dev->prop: a sequence of <<key, value>>
    gen,        \* times dev->prop was reallocated and sorted
    driver,     \* dev->probe
    step,       \* calls of the script done, until the device is opened
    mode,       \* dev->mode
    ptr,        \* usense_prop_get()'s prop during update(), or NoPtr
    cursor,     \* the key the client's walk is at, End before and after it
    ret         \* what the last call of the property interface returned

vars == <<arr, gen, driver, step, mode, ptr, cursor, ret>>

End == -1
NoPtr == [gen |-> -1, index |-> 0, updated |-> FALSE]

-----------------------------------------------------------------------------
(* The array.                                                              *)

KeyAt(a, j) == a[j][1]
Sorted(a) == \A i, j \in 1..Len(a) : i < j => KeyAt(a, i) < KeyAt(a, j)

\* bsearch(): an entry with that key.  In an array that is not sorted it may
\* miss it.  0 is NULL.
Bsearch(a, k) ==
    LET hits == {j \in 1..Len(a) : KeyAt(a, j) = k}
    IN  IF Sorted(a) /\ hits # {} THEN hits ELSE hits \cup {0}

\* qsort() of a sorted array with one entry more.
InsertAt(a, p, e) ==
    [j \in 1..(Len(a) + 1) |-> IF j < p THEN a[j] ELSE IF j = p THEN e ELSE a[j - 1]]
QsortForgotten(a, e) == {InsertAt(a, Len(a) + 1, e)}    \* mutant of Qsort: no call
Qsort(a, e) == {b \in {InsertAt(a, p, e) : p \in 1..(Len(a) + 1)} : Sorted(b)}

-----------------------------------------------------------------------------
(* usense_prop_set().                                                      *)

AlwaysWritable == {Units, CalibrateAdd, CalibrateMult}

Has(a, k) == \E j \in 1..Len(a) : KeyAt(a, j) = k

Accepts(a, md, k, v) ==
    /\ v # TooLong
    /\ k = Units => Has(a, Type) /\ v \in ValidUnits
    /\ k \in AlwaysWritable \/ md = "UPDATE"

\* What a set does to the array that was found to have it at r.
Put(r, k, v) ==
    \/ /\ r = 0
       /\ arr' \in Qsort(arr, <<k, v>>)
       /\ gen' = gen + 1
       /\ ret' = "changed"
    \/ /\ r # 0 /\ arr[r][2] # v
       /\ arr' = [arr EXCEPT ![r] = <<k, v>>]
       /\ ret' = "changed"
       /\ UNCHANGED gen
    \/ /\ r # 0 /\ arr[r][2] = v
       /\ ret' = "same"
       /\ UNCHANGED <<arr, gen>>

PropSet(k, v) ==
    \/ /\ Accepts(arr, mode, k, v)
       /\ \E r \in Bsearch(arr, k) : Put(r, k, v)
    \/ /\ ~Accepts(arr, mode, k, v)
       /\ ret' = IF v = TooLong \/ k = Units \/ driver = "gotemp"
                 THEN "EINVAL" ELSE "EROFS"
       /\ UNCHANGED <<arr, gen>>

\* A driver's update(): nothing, or a new reading.  Mutant of UpdateKeys: it
\* reports its resolution as well.
UpdateKeysMore == {Reading, TemperResolution}
UpdateKeys == {Reading}
Update ==
    \/ UNCHANGED <<arr, gen, ret>>
    \/ \E k \in UpdateKeys, m \in Meas : PropSet(k, m)

-----------------------------------------------------------------------------
(* usense_prop_get(), in three steps if the key is "reading".              *)

Found(k) ==
    \E r \in Bsearch(arr, k) :
        \/ /\ r = 0 /\ ret' = "ENOENT"
           /\ UNCHANGED ptr
        \/ /\ r # 0 /\ k # Reading /\ ret' = arr[r][2]
           /\ UNCHANGED ptr
        \/ /\ r # 0 /\ k = Reading
           /\ ptr' = [gen |-> gen, index |-> r, updated |-> FALSE]
           /\ UNCHANGED ret

PropGet(k) == Found(k) /\ UNCHANGED <<arr, gen, driver, mode, cursor>>

GetUpdates ==
    /\ ptr # NoPtr /\ ~ptr.updated
    /\ Update
    /\ ptr' = [ptr EXCEPT !.updated = TRUE]
    /\ UNCHANGED <<driver, step, mode, cursor>>

\* The pointer is used: it may be one into memory that was freed.
GetReturns ==
    /\ ptr # NoPtr /\ ptr.updated
    /\ ret' = IF ptr.gen = gen THEN arr[ptr.index][2] ELSE "wild"
    /\ ptr' = NoPtr
    /\ UNCHANGED <<arr, gen, driver, step, mode, cursor>>

-----------------------------------------------------------------------------
(* What the library does with a device before a client has it.             *)

DoSet(k, v) == [op |-> "set", key |-> k, val |-> v]
DoGet(k) == [op |-> "get", key |-> k, val |-> Absent]
DoUpdate == [op |-> "update", key |-> Reading, val |-> Absent]

\* usense_device_new() and usense_probe_usb()
Created ==
    <<DoSet(CalibrateAdd, "0.0"), DoSet(CalibrateMult, "1.0"),
      DoSet(Reading, "unknown"), DoSet(Name, "usb:001.2"),
      DoSet(UsbVendor, "id"), DoSet(UsbProduct, "id")>>

\* The driver's attach().
Attached(d) ==
    CASE d = "gotemp" ->
            <<DoSet(Device, d), DoSet(Type, "temp"), DoUpdate, DoUpdate>>
      [] d = "TEMPer" ->
            <<DoSet(TemperResolution, "12"), DoSet(Device, d),
              DoSet(Type, "temp"), DoUpdate>>
      [] d = "PCsensor_Temper" ->
            <<DoSet(Device, d), DoSet(Type, "temp"), DoUpdate>>

\* usense_prop_validate()
Validated ==
    <<DoGet(Type), DoSet(Units, "C"),
      DoGet(Device), DoGet(Type), DoGet(Units), DoGet(Reading), DoGet(Name),
      DoGet(CalibrateAdd), DoGet(CalibrateMult), DoGet(UsbVendor), DoGet(UsbProduct)>>

Script == Created \o Attached(driver) \o Validated

\* The device is not open and the library does the next call of the script.
LibraryCall ==
    /\ mode = "UPDATE" /\ ptr = NoPtr
    /\ step < Len(Script)
    /\ LET c == Script[step + 1] IN
       \/ c.op = "set" /\ PropSet(c.key, c.val) /\ UNCHANGED ptr
       \/ c.op = "update" /\ Update /\ UNCHANGED ptr
       \/ c.op = "get" /\ Found(c.key) /\ UNCHANGED <<arr, gen>>
    /\ step' = step + 1
    /\ UNCHANGED <<driver, mode, cursor>>

\* attach() failed: a later usense_open() calls it again.
AttachFails ==
    /\ mode = "UPDATE" /\ ptr = NoPtr
    /\ step \in Len(Created)..(Len(Created) + Len(Attached(driver)))
    /\ step' = Len(Created)
    /\ UNCHANGED <<arr, gen, driver, mode, ptr, cursor, ret>>

\* usense_attach_usb() ends well: the device is the client's.
Opened ==
    /\ mode = "UPDATE" /\ ptr = NoPtr
    /\ step = Len(Script)
    /\ mode' = "READ"
    /\ UNCHANGED <<arr, gen, driver, step, ptr, cursor, ret>>

-----------------------------------------------------------------------------
(* The client's calls.                                                     *)

Idle == mode = "READ" /\ ptr = NoPtr

ClientSet(k, v) ==
    /\ Idle
    /\ PropSet(k, v)
    /\ UNCHANGED <<driver, step, mode, ptr, cursor>>

ClientGet(k) == Idle /\ PropGet(k) /\ UNCHANGED step

\* usense_prop_first()
PropFirst ==
    /\ Idle
    /\ cursor' = IF Len(arr) = 0 THEN End ELSE KeyAt(arr, 1)
    /\ UNCHANGED <<arr, gen, driver, step, mode, ptr, ret>>

\* Mutant of After: the bound of the array is off by one.
AfterLess(a, r) == IF r = 0 \/ r + 1 >= Len(a) THEN End ELSE KeyAt(a, r + 1)
After(a, r) == IF r = 0 \/ r + 1 > Len(a) THEN End ELSE KeyAt(a, r + 1)

\* usense_prop_next(cursor)
PropNext ==
    /\ Idle
    /\ cursor # End
    /\ \E r \in Bsearch(arr, cursor) : cursor' = After(arr, r)
    /\ UNCHANGED <<arr, gen, driver, step, mode, ptr, ret>>

Init ==
    /\ arr = <<>>
    /\ gen = 0
    /\ driver \in Drivers
    /\ step = 0
    /\ mode = "UPDATE"
    /\ ptr = NoPtr
    /\ cursor = End
    /\ ret = "none"

Library == LibraryCall \/ AttachFails \/ Opened \/ GetUpdates \/ GetReturns
Client ==
    \/ \E k \in ClientKeys, v \in ClientValues : ClientSet(k, v)
    \/ \E k \in ClientKeys : ClientGet(k)
    \/ PropFirst \/ PropNext

Next == Library \/ Client

Spec == Init /\ [][Next]_vars

-----------------------------------------------------------------------------
(* Properties.                                                             *)

Entry == Key \X Value

\* Every variable has its type; in particular no value in the table is too long
\* for the USENSE_PROP_MAX buffers it is copied to.  (usense.c:212, 523-526, 620)
TypeOK ==
    /\ arr \in Seq(Entry)
    /\ gen \in Nat
    /\ driver \in Drivers
    /\ step \in 0..Len(Script)
    /\ mode \in {"UPDATE", "READ"}
    /\ ptr \in [gen : {-1} \cup Nat, index : Nat, updated : BOOLEAN]
    /\ cursor \in Key \cup {End}
    /\ ret \in Value \cup {"none", "changed", "same", "EINVAL", "EROFS", "ENOENT"}

\* The array is sorted whenever bsearch() sees it, so no key is in it twice and
\* every set and get finds the entry it is about.  (usense.c:594, 663-671)
KeysSorted == Sorted(arr)

\* The entry that usense_prop_get("reading") found before update() is where it
\* was, in memory that was not freed, when its value is used after it.
\* (usense.c:594-607)
HeldEntryValid ==
    ptr # NoPtr =>
        /\ ptr.gen = gen
        /\ ptr.index \in 1..Len(arr)
        /\ KeyAt(arr, ptr.index) = Reading

\* The table that the array stands for.
StoreOf(a) ==
    [k \in Key |-> IF Has(a, k)
                   THEN a[CHOOSE j \in 1..Len(a) : KeyAt(a, j) = k][2]
                   ELSE Absent]

Abstract == INSTANCE PropStore
    WITH Protected <- Key \ AlwaysWritable,
         store <- StoreOf(arr), open <- (mode = "READ"), answer <- ret, at <- cursor

\* The sorted array is a map: a get returns what was set last, a set says
\* whether it changed anything, and a walk goes through the keys that are there
\* in their order.  (usense.c:589-710)
ImplementsStore == Abstract!Spec
=============================================================================
