------------------------------- MODULE Usense -------------------------------
(***************************************************************************)
(* The usense library core (src/src/usense.c): the device list, opening a  *)
(* device through libusb and its driver, and the property store behind     *)
(* usense_prop_get / usense_prop_set.                                      *)
(*                                                                         *)
(* The library is single threaded.  Everything it does between two         *)
(* exchanges with libusb is one action; the world outside (hotplug, other  *)
(* processes that hold an interface) moves between any two of them.  The   *)
(* drivers' private conversations with the hardware are abstracted here to *)
(* their outcomes.                                                         *)
(*                                                                         *)
(* A usense_device is a number: the k-th one ever allocated is k.  Because *)
(* usense_device_new always links at the head of the list and nothing ever *)
(* unlinks a single device, the list is the set "listed" in decreasing     *)
(* order, and the first match of a walk is the largest match.              *)
(***************************************************************************)
EXTENDS Integers, FiniteSets

CONSTANTS
    Usb,            \* usb_device instances: one per plugging in, so one name each
    NoUsb,          \* the handle of a usense_device not yet allocated
    Driver,         \* Driver[u]: the probe whose match() accepts u, or "none"
    NumIfaces,      \* NumIfaces[u]: u's config->bNumInterfaces
    MaxDev,         \* bound: usense_device structures ever allocated
    MaxOpen,        \* bound: handles one device may have open when it is opened
    Meas,           \* measurements the sensors can deliver
    Zero,           \* what an all-zero gotemp packet decodes to
    ClientKeys,     \* keys a client tries to set
    ClientValues,   \* values a client tries to set
    ValidUnits,     \* units_is_valid(): unit strings accepted for type "temp"
    None            \* no measurement

Drivers == {"gotemp", "TEMPer", "PCsensor_Temper"}

ASSUME DriverAssumption == Driver \in [Usb -> Drivers \cup {"none"}]
ASSUME NumIfacesAssumption == NumIfaces \in [Usb -> Nat]
ASSUME MaxDevAssumption == MaxDev \in Nat
ASSUME MaxOpenAssumption == MaxOpen \in Nat
ASSUME UsbAssumption == NoUsb \notin Usb /\ "absent" \notin Usb
ASSUME UnitsAssumption == "C" \in ValidUnits /\ "absent" \notin ValidUnits
ASSUME ValueAssumption ==
    /\ "absent" \notin ClientValues \cup Meas \cup {Zero, "unknown"}
    /\ "unknown" \notin Meas \cup {Zero}
    /\ None \notin Meas

-----------------------------------------------------------------------------
(* Property tables.  A table is total over Key: a key that bsearch() does  *)
(* not find has the value Absent.                                          *)

Absent  == "absent"
Unknown == "unknown"
TooLong == "toolong"    \* a string of USENSE_PROP_MAX or more characters

Generic == {"device", "type", "units", "reading", "name",
            "calibrate.add", "calibrate.mult"}
TypeUsb == {"usb.vendor", "usb.product"}
Key     == Generic \cup TypeUsb \cup {"TEMPer.resolution"} \cup ClientKeys
Value   == {Absent, Unknown, "temp", "C", "0.0", "1.0", "id", "12", Zero}
           \cup Drivers \cup Usb \cup Meas \cup ValidUnits \cup ClientValues
Table   == [Key -> Value]

AlwaysWritable == {"units", "calibrate.add", "calibrate.mult"}

\* units_is_valid(): only the type "temp" has units.
UnitsValid(type, value) == type = "temp" /\ value \in ValidUnits

\* Mutant of Accepts: no check of new units.
AcceptsAnyUnits(p, md, k, v) ==
    v # TooLong /\ (k \in AlwaysWritable \/ md = "UPDATE")

\* Mutant of Accepts: read-only keys are writable on an open device.
AcceptsAnyTime(p, md, k, v) ==
    v # TooLong /\ (k = "units" => UnitsValid(p["type"], v))

\* usense_prop_set() returns >= 0.  on_prop_set() widens nothing: gotemp's
\* rejects every value and the other two drivers have none.
Accepts(p, md, k, v) ==
    /\ v # TooLong
    /\ \/ k = "units" /\ UnitsValid(p["type"], v)
       \/ k \in AlwaysWritable \ {"units"}
       \/ k \notin AlwaysWritable /\ md = "UPDATE"

\* The error of a set that was not accepted.
SetError(drv, k, v) ==
    IF v = TooLong \/ k = "units" \/ drv = "gotemp" THEN "EINVAL" ELSE "EROFS"

PropSet(p, md, k, v) == IF Accepts(p, md, k, v) THEN [p EXCEPT ![k] = v] ELSE p

\* The asserts of convert_reading(), reached only when the reading is a number.
ConvertAsserts(p) ==
    \/ p["reading"] = Unknown
    \/ /\ p["type"] # Absent
       /\ p["units"] # Absent
       /\ UnitsValid(p["type"], p["units"])

\* The possible outcomes of a driver's update(): the table and the gotemp
\* packet buffer after it, whether it returned >= 0 and the measurement the
\* sensor delivered to it, if any.
Outcome(p, pkt, ok, got) == [prop |-> p, packet |-> pkt, ok |-> ok, got |-> got]

\* gotemp_update(): on -EAGAIN the "continue" leaves the do-while(0) loop, so
\* the packet buffer is converted as it stands.
GotempUpdate(p, md, pkt) ==
    {Outcome(p, q, FALSE, None) : q \in Meas \cup {pkt}}
    \cup {Outcome(PropSet(p, md, "reading", m), m,
                  Accepts(p, md, "reading", m), m) : m \in Meas}
    \cup {Outcome(PropSet(p, md, "reading", pkt), pkt,
                  Accepts(p, md, "reading", pkt), None)}

\* TEMPer_update() and PCsensor_Temper_update(): the result of usense_prop_set
\* is dropped.
TemperUpdate(p, md, pkt) ==
    {Outcome(p, pkt, FALSE, None)}
    \cup {Outcome(PropSet(p, md, "reading", m), pkt, TRUE, m) : m \in Meas}

Update(drv, p, md, pkt) ==
    IF drv = "gotemp" THEN GotempUpdate(p, md, pkt) ELSE TemperUpdate(p, md, pkt)

-----------------------------------------------------------------------------
VARIABLES
    running,    \* between usense_start() and usense_stop()
    nalloc,     \* usense_device structures allocated so far
    listed,     \* usense->devices
    usb,        \* usb[d]: d's handle, a usb_device, which also fixes d's name
    mode,       \* mode[d]: "UPDATE" or "READ"
    priv,       \* priv[d]: d's private data pointer is not NULL
    packet,     \* packet[d]: the packet buffer in gotemp's private data
    prop,       \* prop[d]: d's property table
    nopen,      \* nopen[d]: usb_dev_handles that attaching d left open
    plug,       \* plug[u]: "out", "in" or "gone"
    known,      \* usb_device structures libusb keeps allocated
    owner,      \* owner[i]: who has claimed interface i
    pc,         \* where the library is inside a call; "idle" between calls
    cur,        \* the device usense_attach_usb() works on
    ifc,        \* its loop variable j
    timeout,    \* claims left to try on interface j
    todo,       \* devices usense_detect() has still to probe
    out         \* what the call that just returned told its client, else NoOut

world   == <<plug, known, owner>>
devvars == <<nalloc, listed, usb>>
store   == <<mode, priv, packet, prop, nopen>>
attach  == <<cur, ifc, timeout>>
vars    == <<running, devvars, store, world, pc, attach, todo, out>>

Dev   == 1..MaxDev
Iface == UNION {{u} \X (0..(NumIfaces[u] - 1)) : u \in Usb}

\* Owners of an interface: nobody, a kernel driver, another process, the
\* handle of the call in progress, or the handle an earlier attach of the
\* device d left open.
Free   == 0
Kernel == -1
Other  == -2
Cur    == -3
Owner  == {Free, Kernel, Other, Cur} \cup Dev

ClaimTimeout == 5

\* What a call tells its client, and what it was about.
Answer(op, d, k, ret, raw, got) ==
    [op |-> op, dev |-> d, key |-> k, ret |-> ret, raw |-> raw, got |-> got]

Returned(op, d, ret) == Answer(op, d, "", ret, None, None)

NoOut == Returned("none", 0, "")

Drv(d) == Driver[usb[d]]

NewTable(u) ==
    [k \in Key |-> CASE k = "calibrate.add"  -> "0.0"
                     [] k = "calibrate.mult" -> "1.0"
                     [] k = "reading"        -> Unknown
                     [] k = "name"           -> u
                     [] k \in TypeUsb        -> "id"
                     [] OTHER                -> Absent]

\* The listed devices of that name.
Named(u) == {d \in listed : usb[d] = u}

Plugged == {u \in Usb : plug[u] = "in"}

Init ==
    /\ running = FALSE
    /\ nalloc = 0
    /\ listed = {}
    /\ usb = [d \in Dev |-> NoUsb]
    /\ mode = [d \in Dev |-> "UPDATE"]
    /\ priv = [d \in Dev |-> FALSE]
    /\ packet = [d \in Dev |-> Zero]
    /\ prop = [d \in Dev |-> [k \in Key |-> Absent]]
    /\ nopen = [d \in Dev |-> 0]
    /\ plug \in [Usb -> {"out", "in"}]
    /\ known = {}
    /\ owner \in [Iface -> {Free, Kernel, Other}]
    /\ pc = "idle"
    /\ cur = 0
    /\ ifc = 0
    /\ timeout = 0
    /\ todo = {}
    /\ out = NoOut

-----------------------------------------------------------------------------
(* The world outside the process.                                          *)

Plug(u) ==
    /\ plug[u] = "out"
    /\ plug' = [plug EXCEPT ![u] = "in"]
    /\ out' = NoOut
    /\ UNCHANGED <<running, devvars, store, known, owner, pc, attach, todo>>

Unplug(u) ==
    /\ plug[u] = "in"
    /\ plug' = [plug EXCEPT ![u] = "gone"]
    /\ out' = NoOut
    /\ UNCHANGED <<running, devvars, store, known, owner, pc, attach, todo>>

\* Another process claims or releases an interface.
OtherProcess(i) ==
    /\ \/ owner[i] = Free /\ owner' = [owner EXCEPT ![i] = Other]
       \/ owner[i] = Other /\ owner' = [owner EXCEPT ![i] = Free]
    /\ out' = NoOut
    /\ UNCHANGED <<running, devvars, store, plug, known, pc, attach, todo>>

-----------------------------------------------------------------------------
(* Detection.                                                              *)

\* usb_find_busses() and usb_find_devices(): the structures of devices that
\* are gone are freed.  Then the loop over every bus and device starts.
BeginDetect ==
    /\ nalloc + Cardinality(Plugged) <= MaxDev
    /\ known' = Plugged
    /\ todo' = Plugged
    /\ pc' = "detect"
    /\ out' = NoOut
    /\ UNCHANGED <<devvars, store, plug, owner, attach>>

\* usense_start()
Start == pc = "idle" /\ ~running /\ running' = TRUE /\ BeginDetect

\* usense_detect(), called by a client of the running library.
Detect == pc = "idle" /\ running /\ UNCHANGED running /\ BeginDetect

\* usense_probe_usb(): a device that matches a probe is allocated and linked,
\* whether or not the list has it already.
ProbeUsb(u) ==
    /\ pc = "detect"
    /\ u \in todo
    /\ todo' = todo \ {u}
    /\ \/ /\ Driver[u] = "none"
          /\ UNCHANGED <<devvars, prop>>
       \/ /\ Driver[u] # "none"
          /\ nalloc < MaxDev
          /\ nalloc' = nalloc + 1
          /\ listed' = listed \cup {nalloc + 1}
          /\ usb' = [usb EXCEPT ![nalloc + 1] = u]
          /\ prop' = [prop EXCEPT ![nalloc + 1] = NewTable(u)]
    /\ UNCHANGED <<running, mode, priv, packet, nopen, world, pc, attach, out>>

DetectDone ==
    /\ pc = "detect"
    /\ todo = {}
    /\ pc' = "idle"
    /\ UNCHANGED <<running, devvars, store, world, attach, todo, out>>

-----------------------------------------------------------------------------
(* usense_open() and usense_attach_usb().                                  *)

\* The end of usense_open(): NULL, or the device.
Return(ret) ==
    /\ pc' = "idle"
    /\ cur' = 0
    /\ ifc' = 0
    /\ timeout' = 0
    /\ out' = Returned("open", cur, ret)

\* usense_open()'s walk ends at the first match, or at the end of the list.
Open(u) ==
    /\ pc = "idle"
    /\ running
    /\ \/ /\ Named(u) = {}
          /\ out' = Returned("open", 0, "NULL")
          /\ UNCHANGED <<pc, cur>>
       \/ /\ \E d \in Named(u) :
             /\ \A e \in Named(u) : e <= d
             /\ nopen[d] < MaxOpen
             /\ cur' = d
          /\ pc' = "usb_open"
          /\ out' = NoOut
    /\ UNCHANGED <<running, devvars, store, world, ifc, timeout, todo>>

\* The loop over the interfaces moves on to interface j or ends.  With no
\* interface at all, err is tested uninitialized.
NextIface(j) ==
    /\ ifc' = j
    /\ \/ /\ j < NumIfaces[usb[cur]]
          /\ pc' = "detach"
          /\ timeout' = ClaimTimeout
       \/ /\ j >= NumIfaces[usb[cur]]
          /\ pc' \in (IF j = 0 THEN {"attach", "close"} ELSE {"attach"})
          /\ timeout' = 0

\* usb_open().  A device whose structure usb_find_devices() has freed is
\* used after free: nothing is known of the program from there on.
UsbOpen ==
    /\ pc = "usb_open"
    /\ \/ /\ usb[cur] \notin known
          /\ pc' = "wild"
          /\ UNCHANGED <<cur, ifc, timeout, out>>
       \/ /\ usb[cur] \in known
          /\ Return("NULL")
       \/ /\ usb[cur] \in known /\ plug[usb[cur]] = "in"
          /\ NextIface(0)
          /\ UNCHANGED <<cur, out>>
    /\ UNCHANGED <<running, devvars, store, world, todo>>

\* usb_detach_kernel_driver_np(): it detached a kernel driver, there was none
\* (-ENOENT, -ENODATA), or it failed.
Detach ==
    LET i == <<usb[cur], ifc>> IN
    /\ pc = "detach"
    /\ \/ /\ owner[i] = Kernel
          /\ owner' = [owner EXCEPT ![i] = Free]
          /\ pc' = "claim"
       \/ /\ owner[i] # Kernel
          /\ pc' = "claim"
          /\ UNCHANGED owner
       \/ /\ pc' = "close"
          /\ UNCHANGED owner
    /\ UNCHANGED <<running, devvars, store, plug, known, attach, todo, out>>

\* What a second of sleep leaves to wait, and what follows it.
SameTimeout == timeout      \* mutant of LessTimeout: the wait is not counted
LessTimeout == timeout - 1

AfterBusyEndless(t) == "claim"                              \* mutant: no limit
AfterBusyIgnored(t) == IF t > 0 THEN "claim" ELSE "attach"  \* mutant: err not tested
AfterBusy(t) == IF t > 0 THEN "claim" ELSE "close"

\* usb_claim_interface(): claimed, -EBUSY, or another error.
Claim ==
    LET i == <<usb[cur], ifc>> IN
    /\ pc = "claim"
    /\ \/ /\ owner[i] = Free /\ plug[usb[cur]] = "in"
          /\ owner' = [owner EXCEPT ![i] = Cur]
          /\ NextIface(ifc + 1)
       \/ /\ owner[i] # Free
          /\ pc' = "sleep"
          /\ UNCHANGED <<owner, ifc, timeout>>
       \/ /\ pc' = "close"
          /\ UNCHANGED <<owner, ifc, timeout>>
    /\ UNCHANGED <<running, devvars, store, plug, known, cur, todo, out>>

\* The interface was busy: a second of sleep.
Sleep ==
    /\ pc = "sleep"
    /\ timeout' = LessTimeout
    /\ pc' = AfterBusy(LessTimeout)
    /\ UNCHANGED <<running, devvars, store, world, cur, ifc, todo, out>>

\* What usb_close() leaves of an interface's owner.
ClosedNothing(o) == o       \* mutant of Closed: the error path forgets usb_close()
Closed(o) == IF o = Cur THEN Free ELSE o

\* usb_close() of the handle of this call: its interfaces are released.
UsbClose ==
    /\ pc = "close"
    /\ owner' = [i \in Iface |-> Closed(owner[i])]
    /\ Return("NULL")
    /\ UNCHANGED <<running, devvars, store, plug, known, todo>>

\* What attach() writes before its first update().
Declared(d) ==
    LET md == mode[d]
        p1 == IF Drv(d) = "TEMPer"
              THEN PropSet(prop[d], md, "TEMPer.resolution", "12") ELSE prop[d]
        p2 == PropSet(p1, md, "device", Drv(d))
    IN  PropSet(p2, md, "type", "temp")

\* The private data pointer that attach() hands back.
PrivSetNot(d) == priv       \* mutant of PrivSet: attach() forgets it
PrivSet(d) == [priv EXCEPT ![d] = TRUE]

\* gotemp_attach(): the first update's result is dropped, the second's is
\* attach's own.
AttachGotemp ==
    /\ pc = "attach"
    /\ Drv(cur) = "gotemp"
    /\ \E a \in Update("gotemp", Declared(cur), mode[cur], Zero) :
       \E b \in Update("gotemp", a.prop, mode[cur], a.packet) :
          /\ prop' = [prop EXCEPT ![cur] = b.prop]
          /\ \/ /\ b.ok
                /\ priv' = PrivSet(cur)
                /\ packet' = [packet EXCEPT ![cur] = b.packet]
                /\ pc' = "validate"
             \/ /\ ~b.ok
                /\ pc' = "close"
                /\ UNCHANGED <<priv, packet>>
    /\ UNCHANGED <<running, devvars, mode, nopen, world, attach, todo, out>>

\* TEMPer_attach() and PCsensor_Temper_attach().  Only TEMPer's can fail, at
\* ch341_open() or at the sensor's configuration register, before it wrote any
\* property; both drop the result of their update.
AttachTemper ==
    /\ pc = "attach"
    /\ Drv(cur) # "gotemp"
    /\ \/ /\ \E a \in Update(Drv(cur), Declared(cur), mode[cur], packet[cur]) :
                prop' = [prop EXCEPT ![cur] = a.prop]
          /\ priv' = PrivSet(cur)
          /\ pc' = "validate"
       \/ /\ Drv(cur) = "TEMPer"
          /\ pc' = "close"
          /\ UNCHANGED <<prop, priv>>
    /\ UNCHANGED <<running, devvars, mode, packet, nopen, world, attach, todo, out>>

\* The end of usense_attach_usb(): no path closes the handle any more.
LeaveOpen(ret) ==
    /\ owner' = [i \in Iface |-> IF owner[i] = Cur THEN cur ELSE owner[i]]
    /\ nopen' = [nopen EXCEPT ![cur] = @ + 1]
    /\ mode' = [mode EXCEPT ![cur] = IF ret = "dev" THEN "READ" ELSE @]
    /\ Return(ret)

Missing(p, keys) == \E k \in keys : p[k] = Absent

\* usense_prop_validate(): default units, then every guaranteed property is
\* fetched, in order; fetching "reading" updates and converts it.
Validate ==
    LET p == prop[cur]
        q == IF p["type"] = "temp" THEN PropSet(p, mode[cur], "units", "C") ELSE p
    IN
    /\ pc = "validate"
    /\ \/ /\ Missing(q, {"type", "device", "units", "reading"})
          /\ prop' = [prop EXCEPT ![cur] = q]
          /\ LeaveOpen("NULL")
          /\ UNCHANGED packet
       \/ /\ ~Missing(q, {"type", "device", "units", "reading"})
          /\ \E a \in Update(Drv(cur), q, mode[cur], packet[cur]) :
             /\ prop' = [prop EXCEPT ![cur] = a.prop]
             /\ packet' = [packet EXCEPT ![cur] = a.packet]
             /\ \/ /\ ~ConvertAsserts(a.prop)
                   /\ pc' = "aborted"
                   /\ UNCHANGED <<owner, nopen, mode, attach, out>>
                \/ /\ ConvertAsserts(a.prop)
                   /\ LeaveOpen(IF Missing(a.prop, Generic \cup TypeUsb)
                                THEN "NULL" ELSE "dev")
    /\ UNCHANGED <<running, devvars, priv, plug, known, todo>>

-----------------------------------------------------------------------------
(* A client's calls on a device that usense_open() returned.               *)

Held(d) == pc = "idle" /\ d \in listed /\ mode[d] = "READ"

\* usense_prop_get(d, "reading")
GetReading(d) ==
    /\ Held(d)
    /\ \E a \in Update(Drv(d), prop[d], mode[d], packet[d]) :
       /\ prop' = [prop EXCEPT ![d] = a.prop]
       /\ packet' = [packet EXCEPT ![d] = a.packet]
       /\ \/ /\ ~priv[d]
             /\ pc' = "wild"
             /\ out' = NoOut
          \/ /\ priv[d] /\ ~ConvertAsserts(a.prop)
             /\ pc' = "aborted"
             /\ out' = NoOut
          \/ /\ priv[d] /\ ConvertAsserts(a.prop)
             /\ out' = Answer("get", d, "", "ok", a.prop["reading"], a.got)
             /\ UNCHANGED pc
    /\ UNCHANGED <<running, devvars, mode, priv, nopen, world, attach, todo>>

\* usense_prop_set(d, k, v)
SetProp(d, k, v) ==
    /\ Held(d)
    /\ \/ /\ k = "units" /\ v # TooLong /\ prop[d]["type"] = Absent
          /\ pc' = "aborted"
          /\ out' = NoOut
          /\ UNCHANGED prop
       \/ /\ ~(k = "units" /\ v # TooLong /\ prop[d]["type"] = Absent)
          /\ prop' = [prop EXCEPT ![d] = PropSet(prop[d], mode[d], k, v)]
          /\ LET ret == IF Accepts(prop[d], mode[d], k, v)
                        THEN "ok" ELSE SetError(Drv(d), k, v)
             IN  out' = Answer("set", d, k, ret, None, None)
          /\ UNCHANGED pc
    /\ UNCHANGED <<running, devvars, mode, priv, packet, nopen, world, attach, todo>>

\* usense_close(d): the body is compiled out.
Close(d) ==
    /\ Held(d)
    /\ out' = Returned("close", d, "ok")
    /\ UNCHANGED <<running, devvars, store, world, pc, attach, todo>>

\* usense_stop(): the list and its devices are freed, their handles are not.
Stop ==
    /\ pc = "idle"
    /\ running
    /\ running' = FALSE
    /\ listed' = {}
    /\ out' = NoOut
    /\ UNCHANGED <<nalloc, usb, store, world, pc, attach, todo>>

-----------------------------------------------------------------------------
Environment ==
    \/ \E u \in Usb : Plug(u) \/ Unplug(u)
    \/ \E i \in Iface : OtherProcess(i)

Client ==
    \/ Start \/ Detect \/ Stop
    \/ \E u \in Usb : Open(u)
    \/ \E d \in Dev : GetReading(d) \/ Close(d)
    \/ \E d \in Dev, k \in ClientKeys, v \in ClientValues : SetProp(d, k, v)

Library ==
    \/ \E u \in Usb : ProbeUsb(u)
    \/ DetectDone
    \/ UsbOpen \/ Detach \/ Claim \/ Sleep \/ UsbClose
    \/ AttachGotemp \/ AttachTemper \/ Validate

Next == Environment \/ Client \/ Library

Spec == Init /\ [][Next]_vars

\* A call once made runs on: every library step is finite, every libusb
\* request has a timeout.  Nothing is assumed of the clients or the world.
FairSpec == Spec /\ WF_vars(Library)

-----------------------------------------------------------------------------
(* Properties.                                                             *)

PC == {"idle", "detect", "usb_open", "detach", "claim", "sleep", "close",
       "attach", "validate", "wild", "aborted"}

Message == [op : {"none", "open", "get", "set", "close"}, dev : Dev \cup {0},
            key : ClientKeys \cup {""},
            ret : {"", "NULL", "dev", "ok", "EINVAL", "EROFS"},
            raw : Value \cup {None}, got : Meas \cup {None}]

\* Every variable has its type.
TypeOK ==
    /\ running \in BOOLEAN
    /\ nalloc \in 0..MaxDev
    /\ listed \subseteq 1..nalloc
    /\ usb \in [Dev -> Usb \cup {NoUsb}]
    /\ mode \in [Dev -> {"UPDATE", "READ"}]
    /\ priv \in [Dev -> BOOLEAN]
    /\ packet \in [Dev -> Meas \cup {Zero}]
    /\ prop \in [Dev -> Table]
    /\ nopen \in [Dev -> Nat]
    /\ plug \in [Usb -> {"out", "in", "gone"}]
    /\ known \subseteq Usb
    /\ owner \in [Iface -> Owner]
    /\ pc \in PC
    /\ cur \in 0..nalloc
    /\ ifc \in Nat
    /\ timeout \in 0..ClaimTimeout
    /\ pc \in {"detach", "claim", "sleep"} => timeout > 0
    /\ todo \subseteq Usb
    /\ out \in Message

\* The asserts of convert_reading(), usense_prop_set() and
\* usense_prop_validate() never fire: whenever a numeric reading is fetched the
\* device has a type and units of that type, whatever the clients wrote and
\* however many opens failed before.  (usense.c:302, 540-562, 632)
NoAssertFails == pc # "aborted"

\* A device handed out by usense_open() has private data, every property
\* usense.h guarantees and units that fit its type; a driver's update() is
\* never called without its private data.  (usense.c:354-400, usense.h:124-133)
OpenIsReady ==
    /\ \A d \in Dev : mode[d] = "READ" =>
          /\ priv[d]
          /\ ~Missing(prop[d], Generic \cup TypeUsb)
          /\ UnitsValid(prop[d]["type"], prop[d]["units"])
    /\ pc = "validate" => priv[cur]

\* An open gives back what it took unless it succeeds: one that failed, at
\* whichever step and at whichever attempt, left neither a handle nor a claim,
\* and one that succeeded left one handle, which holds all of the device's
\* interfaces.  (usense.c:377-400: the return without usb_close() after
\* validation is never taken.)  Nothing is said of usense_stop(): it frees the
\* devices and leaves their handles and claims, for which mode, nopen and owner
\* of a device that is no longer listed stand here.  (usense.c:164-175, 485-491)
HandlesOwned ==
    /\ \A d \in Dev : nopen[d] = IF mode[d] = "READ" THEN 1 ELSE 0
    /\ pc \in {"idle", "detect"} => \A i \in Iface : owner[i] # Cur
    /\ \A d \in Dev, i \in Iface :
          owner[i] = d <=> mode[d] = "READ" /\ i[1] = usb[d]

\* However often devices are rescanned and opened, two opened devices are never
\* the same piece of hardware.  (usense.c:408-429 lists it once per scan)
SoleUser ==
    \A d, e \in Dev :
        mode[d] = "READ" /\ mode[e] = "READ" /\ usb[d] = usb[e] => d = e

\* Memory that is no longer there is used in one case only: a client opens a
\* device that was unplugged before the last scan, which freed libusb's
\* structure of it and left it on the list.  A device still plugged in can be
\* opened and read after any number of scans, and no driver runs without its
\* private data.  (usense.c:356, 408-429)
WildOnlyIfGone == pc = "wild" => cur # 0 /\ plug[usb[cur]] = "gone"

\* A driver is never attached to a device that is open already, so no private
\* data is overwritten and leaked: the second open of an opened device always
\* fails before attach().  (usense.c:387)
FreshAttach ==
    pc \in {"attach", "validate"} => mode[cur] = "UPDATE" /\ nopen[cur] = 0

\* Once opened, a device's table keeps its keys and changes only in units and
\* calibration, so the entry that usense_prop_get() holds across update() and
\* the keys a client walks stay valid.  (usense.c:594-606, 646-672)
SettledTable ==
    [][\A d \in Dev : mode[d] = "READ" =>
          \A k \in Key : prop'[d][k] # prop[d][k] =>
             /\ k \in AlwaysWritable
             /\ prop[d][k] # Absent
             /\ prop'[d][k] # Absent]_vars

\* Every call returns, whatever the other processes do with the interfaces: in
\* particular the wait for a busy interface ends.  (usense.c:364-380)
CallsReturn == (pc \notin {"idle", "wild", "aborted"}) ~> (pc \in {"idle", "wild", "aborted"})

-----------------------------------------------------------------------------
(* What the documentation says and the code does not do.                   *)

\* usense.h:60-67: update() updates the properties and usense_prop_get()
\* returns the reading it reported.
ReadingIsFresh == out.op = "get" /\ out.got # None => out.raw = out.got

\* usense.h:129: "name: Unique name (ie usb:003.2)".
UniqueNames == \A d, e \in listed : usb[d] = usb[e] => d = e

\* usense.h:111-115: usense_close() closes the device.
CloseReleases == out.op = "close" => \A i \in Iface : owner[i] # out.dev

\* README:79-81: calibrate.mul can be set on an open device.
ReadmeCalibrates == out.op = "set" /\ out.key = "calibrate.mul" => out.ret = "ok"

\* usense.h:128: "reading: Reading of the device in 'units'": a measurement the
\* device made, or "unknown".  No sensor in this model ever measures Zero.
ReadingWasMade ==
    \A d \in Dev : mode[d] = "READ" => prop[d]["reading"] \in Meas \cup {Unknown}

=============================================================================
