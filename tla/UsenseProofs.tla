----------------------------- MODULE UsenseProofs ---------------------------
(* Proofs about Usense, for every set of devices, drivers, interfaces,     *)
(* clients' keys and values.                                               *)
EXTENDS Usense, TLAPS

-----------------------------------------------------------------------------
(* Property tables.                                                        *)

Packet == Meas \cup {Zero}

\* The keys the core names, and the values it and the drivers write.
LEMMA KeysAndValues ==
    /\ Generic \subseteq Key /\ TypeUsb \subseteq Key /\ ClientKeys \subseteq Key
    /\ AlwaysWritable \subseteq Generic
    /\ {"type", "units", "device", "reading", "TEMPer.resolution"} \subseteq Key
    /\ {Absent, Unknown, "temp", "C", "0.0", "1.0", "id", "12"} \subseteq Value
    /\ Drivers \subseteq Value /\ Usb \subseteq Value /\ Packet \subseteq Value
    /\ ClientValues \subseteq Value
BY DEF Key, Value, Generic, TypeUsb, AlwaysWritable, Packet

\* usense_prop_set() writes the one entry it names, or nothing.
LEMMA PropSetType ==
    ASSUME NEW p \in Table, NEW md, NEW k \in Key, NEW v \in Value
    PROVE  /\ PropSet(p, md, k, v) \in Table
           /\ \A j \in Key : j # k => PropSet(p, md, k, v)[j] = p[j]
           /\ PropSet(p, md, k, v)[k] = IF Accepts(p, md, k, v) THEN v ELSE p[k]
BY DEF PropSet, Table

\* update() touches no entry but the reading, which becomes a number the
\* converter produced or stays what it was.
LEMMA UpdateType ==
    ASSUME NEW drv, NEW p \in Table, NEW md, NEW pkt \in Packet,
           NEW a \in Update(drv, p, md, pkt)
    PROVE  /\ a.prop \in Table /\ a.packet \in Packet /\ a.ok \in BOOLEAN
           /\ a.got \in Meas \cup {None}
           /\ \A j \in Key : j # "reading" => a.prop[j] = p[j]
           /\ a.prop["reading"] = p["reading"] \/ a.prop["reading"] \in Packet
           /\ md = "READ" => a.prop = p
<1>1. "reading" \in Key /\ Packet \subseteq Value
  BY KeysAndValues
<1>2. \A m \in Packet :
         LET q == PropSet(p, md, "reading", m)
         IN  /\ q \in Table
             /\ \A j \in Key : j # "reading" => q[j] = p[j]
             /\ q["reading"] \in {p["reading"], m}
             /\ Accepts(p, md, "reading", m) \in BOOLEAN
             /\ md = "READ" => q = p
  <2>1. TAKE m \in Packet
  <2>2. m \in Value
    BY <1>1
  <2>3. Accepts(p, md, "reading", m) \in BOOLEAN
    BY DEF Accepts
  <2>4. md = "READ" => ~Accepts(p, md, "reading", m)
    BY DEF Accepts, AlwaysWritable
  <2> QED
    BY <1>1, <2>2, <2>3, <2>4, PropSetType DEF PropSet
<1>3. PICK m \in Packet, got \in Meas \cup {None}, pk \in Packet, ok \in BOOLEAN :
         \/ a = Outcome(p, pk, ok, got)
         \/ a = Outcome(PropSet(p, md, "reading", m), pk, ok, got)
  <2>1. CASE drv = "gotemp"
    <3>1. CASE a \in {Outcome(p, q, FALSE, None) : q \in Meas \cup {pkt}}
      <4>1. PICK q \in Meas \cup {pkt} : a = Outcome(p, q, FALSE, None)
        BY <3>1
      <4> QED
        BY <4>1 DEF Packet
    <3>2. CASE a \in {Outcome(PropSet(p, md, "reading", m), m,
                              Accepts(p, md, "reading", m), m) : m \in Meas}
      <4>1. PICK m \in Meas : a = Outcome(PropSet(p, md, "reading", m), m,
                                          Accepts(p, md, "reading", m), m)
        BY <3>2
      <4>2. m \in Packet
        BY DEF Packet
      <4> QED
        BY <1>2, <4>1, <4>2
    <3>3. CASE a = Outcome(PropSet(p, md, "reading", pkt), pkt,
                           Accepts(p, md, "reading", pkt), None)
      BY <1>2, <3>3
    <3> QED
      BY <2>1, <3>1, <3>2, <3>3 DEF Update, GotempUpdate
  <2>2. CASE drv # "gotemp"
    <3>1. CASE a = Outcome(p, pkt, FALSE, None)
      BY <3>1
    <3>2. CASE a \in {Outcome(PropSet(p, md, "reading", m), pkt, TRUE, m) : m \in Meas}
      <4>1. PICK m \in Meas : a = Outcome(PropSet(p, md, "reading", m), pkt, TRUE, m)
        BY <3>2
      <4> QED
        BY <4>1 DEF Packet
    <3> QED
      BY <2>2, <3>1, <3>2 DEF Update, TemperUpdate
  <2> QED
    BY <2>1, <2>2
<1> QED
  BY <1>2, <1>3 DEF Outcome

\* A new device's table.
LEMMA NewTableType ==
    ASSUME NEW u \in Usb
    PROVE  /\ NewTable(u) \in Table
           /\ \A k \in {"name", "reading", "calibrate.add", "calibrate.mult"} \cup TypeUsb :
                 NewTable(u)[k] # Absent
           /\ NewTable(u)["units"] = Absent /\ NewTable(u)["type"] = Absent
<1>1. \A k \in Key : NewTable(u)[k] \in Value
  BY KeysAndValues DEF NewTable, Absent, Unknown
<1>2. NewTable(u) = [k \in Key |-> NewTable(u)[k]]
  BY DEF NewTable
<1> QED
  BY <1>1, <1>2, UsbAssumption, KeysAndValues
     DEF NewTable, Table, Absent, Unknown, TypeUsb, Generic

-----------------------------------------------------------------------------
(* Type correctness.                                                       *)

LEMMA AnswerType ==
    ASSUME NEW op \in {"none", "open", "get", "set", "close"}, NEW d \in Dev \cup {0},
           NEW k \in ClientKeys \cup {""},
           NEW ret \in {"", "NULL", "dev", "ok", "EINVAL", "EROFS"},
           NEW raw \in Value \cup {None}, NEW got \in Meas \cup {None}
    PROVE  Answer(op, d, k, ret, raw, got) \in Message
BY DEF Answer, Message

LEMMA ReturnedType ==
    ASSUME NEW op \in {"none", "open", "get", "set", "close"}, NEW d \in Dev \cup {0},
           NEW ret \in {"", "NULL", "dev", "ok", "EINVAL", "EROFS"}
    PROVE  Returned(op, d, ret) \in Message
BY AnswerType DEF Returned

LEMMA NoOutType == NoOut \in Message
BY ReturnedType DEF NoOut

\* The end of usense_open() leaves the control variables well typed.
LEMMA ReturnType ==
    ASSUME TypeOK, NEW ret \in {"NULL", "dev"}, Return(ret)
    PROVE  pc' = "idle" /\ cur' = 0 /\ ifc' = 0 /\ timeout' = 0 /\ out' \in Message
<1>1. cur \in Dev \cup {0}
  BY MaxDevAssumption DEF TypeOK, Dev
<1> QED
  BY <1>1, ReturnedType DEF Return

\* Where usense_open() is at work on a device.
InOpen == {"usb_open", "detach", "claim", "sleep", "close", "attach", "validate"}

\* Every device allocated has a handle and a driver, and usense_open() works on
\* one of them.
Bound ==
    /\ \A d \in 1..nalloc : usb[d] \in Usb /\ Drv(d) \in Drivers
    /\ pc \in InOpen => cur \in 1..nalloc

LEMMA TypeInit == Init => TypeOK /\ Bound
<1> SUFFICES ASSUME Init PROVE TypeOK /\ Bound
  OBVIOUS
<1>1. [k \in Key |-> Absent] \in Table
  BY KeysAndValues DEF Table
<1>2. prop \in [Dev -> Table]
  BY <1>1 DEF Init
<1>3. owner \in [Iface -> Owner] /\ plug \in [Usb -> {"out", "in", "gone"}]
  BY DEF Init, Owner, Free, Kernel, Other
<1>4. out \in Message
  BY NoOutType DEF Init
<1>5. /\ running \in BOOLEAN
      /\ usb \in [Dev -> Usb \cup {NoUsb}]
      /\ mode \in [Dev -> {"UPDATE", "READ"}]
      /\ priv \in [Dev -> BOOLEAN]
      /\ packet \in [Dev -> Meas \cup {Zero}]
      /\ nopen \in [Dev -> Nat]
      /\ known \subseteq Usb /\ todo \subseteq Usb
  BY DEF Init
<1>6. /\ pc = "idle" /\ cur = 0 /\ nalloc = 0 /\ ifc = 0 /\ timeout = 0 /\ listed = {}
  BY DEF Init
<1> QED
  BY <1>2, <1>3, <1>4, <1>5, <1>6, MaxDevAssumption
     DEF TypeOK, PC, ClaimTimeout, Bound, InOpen

\* What attach() writes first: nothing on a device that is open, else at least
\* its type and its driver's name.
LEMMA DeclaredType ==
    ASSUME TypeOK, cur \in Dev, Drv(cur) \in Drivers
    PROVE  /\ Declared(cur) \in Table
           /\ \A k \in Key \ {"TEMPer.resolution", "device", "type"} :
                 Declared(cur)[k] = prop[cur][k]
           /\ mode[cur] = "READ" => Declared(cur) = prop[cur]
           /\ mode[cur] = "UPDATE" =>
                 Declared(cur)["type"] = "temp" /\ Declared(cur)["device"] = Drv(cur)
<1> DEFINE p0 == PropSet(prop[cur], mode[cur], "TEMPer.resolution", "12")
           p1 == IF Drv(cur) = "TEMPer" THEN p0 ELSE prop[cur]
           p2 == PropSet(p1, mode[cur], "device", Drv(cur))
           p3 == PropSet(p2, mode[cur], "type", "temp")
<1>1. prop[cur] \in Table /\ mode[cur] \in {"UPDATE", "READ"}
  BY DEF TypeOK
<1>2. /\ {"device", "type", "TEMPer.resolution"} \subseteq Key
      /\ "temp" \in Value /\ "12" \in Value /\ Drv(cur) \in Value
  BY KeysAndValues
<1>3. \A p : /\ ~Accepts(p, "READ", "TEMPer.resolution", "12")
             /\ ~Accepts(p, "READ", "device", Drv(cur))
             /\ ~Accepts(p, "READ", "type", "temp")
             /\ Accepts(p, "UPDATE", "device", Drv(cur))
             /\ Accepts(p, "UPDATE", "type", "temp")
  BY DEF Accepts, AlwaysWritable, TooLong, Drivers
<1>4. /\ p0 \in Table
      /\ \A k \in Key : k # "TEMPer.resolution" => p0[k] = prop[cur][k]
      /\ mode[cur] = "READ" => p0 = prop[cur]
  <2>1. mode[cur] = "READ" => p0 = prop[cur]
    BY <1>3 DEF PropSet
  <2> QED
    BY <1>1, <1>2, <2>1, PropSetType
<1> HIDE DEF p0
<1>5. /\ p1 \in Table
      /\ \A k \in Key : k # "TEMPer.resolution" => p1[k] = prop[cur][k]
      /\ mode[cur] = "READ" => p1 = prop[cur]
  BY <1>1, <1>4
<1> HIDE DEF p1
<1>6. /\ p2 \in Table
      /\ \A k \in Key : k # "device" => p2[k] = p1[k]
      /\ mode[cur] = "READ" => p2 = p1
      /\ mode[cur] = "UPDATE" => p2["device"] = Drv(cur)
  BY <1>1, <1>2, <1>3, <1>5, PropSetType DEF PropSet
<1> HIDE DEF p2
<1>7. /\ p3 \in Table
      /\ \A k \in Key : k # "type" => p3[k] = p2[k]
      /\ mode[cur] = "READ" => p3 = p2
      /\ mode[cur] = "UPDATE" => p3["type"] = "temp"
  BY <1>1, <1>2, <1>3, <1>6, PropSetType DEF PropSet
<1>8. Declared(cur) = p3
  BY DEF Declared, p2, p1, p0
<1> HIDE DEF p3
<1> QED
  BY <1>2, <1>5, <1>6, <1>7, <1>8

\* What a driver's attach() does to the device it is called for.
AttachEffect ==
    \E q \in Table :
        /\ prop' = [prop EXCEPT ![cur] = q]
        /\ \A k \in Key \ {"TEMPer.resolution", "device", "type", "reading"} :
              q[k] = prop[cur][k]
        /\ q["type"] \in {prop[cur]["type"], "temp"}
        /\ q["reading"] \in {prop[cur]["reading"]} \cup Packet
        /\ mode[cur] = "READ" => q = prop[cur]
        /\ pc' = "validate" =>
              /\ priv' = [priv EXCEPT ![cur] = TRUE]
              /\ mode[cur] = "UPDATE" => q["type"] = "temp" /\ q["device"] \in Drivers
        /\ pc' = "close" => UNCHANGED priv

LEMMA AttachEffects ==
    ASSUME TypeOK, Bound, AttachGotemp \/ AttachTemper
    PROVE  /\ AttachEffect
           /\ pc = "attach" /\ pc' \in {"validate", "close"}
           /\ packet' \in [Dev -> Packet]
           /\ UNCHANGED <<running, devvars, mode, nopen, world, attach, todo, out>>
<1>1. pc = "attach" /\ UNCHANGED <<running, devvars, mode, nopen, world, attach, todo, out>>
  BY DEF AttachGotemp, AttachTemper, PrivSet
<1>2. cur \in Dev /\ Drv(cur) \in Drivers
  BY <1>1, MaxDevAssumption DEF TypeOK, Bound, InOpen, Dev
<1>3. /\ packet \in [Dev -> Packet] /\ prop[cur] \in Table /\ Zero \in Packet
      /\ mode[cur] \in {"UPDATE", "READ"} /\ priv \in [Dev -> BOOLEAN] /\ prop \in [Dev -> Table]
  BY <1>2 DEF TypeOK, Packet
<1>4. {"device", "type", "reading", "TEMPer.resolution"} \subseteq Key
  BY KeysAndValues
<1>5. ASSUME AttachGotemp
      PROVE  AttachEffect /\ pc' \in {"validate", "close"} /\ packet' \in [Dev -> Packet]
  <2>1. PICK a \in Update("gotemp", Declared(cur), mode[cur], Zero) :
        \E b \in Update("gotemp", a.prop, mode[cur], a.packet) :
          /\ prop' = [prop EXCEPT ![cur] = b.prop]
          /\ \/ /\ b.ok
                /\ priv' = [priv EXCEPT ![cur] = TRUE]
                /\ packet' = [packet EXCEPT ![cur] = b.packet]
                /\ pc' = "validate"
             \/ /\ ~b.ok
                /\ pc' = "close"
                /\ UNCHANGED <<priv, packet>>
    BY <1>5 DEF AttachGotemp, PrivSet
  <2>2. PICK b \in Update("gotemp", a.prop, mode[cur], a.packet) :
          /\ prop' = [prop EXCEPT ![cur] = b.prop]
          /\ \/ /\ priv' = [priv EXCEPT ![cur] = TRUE]
                /\ packet' = [packet EXCEPT ![cur] = b.packet]
                /\ pc' = "validate"
             \/ /\ pc' = "close"
                /\ UNCHANGED <<priv, packet>>
    BY <2>1
  <2>3. /\ a.prop \in Table /\ a.packet \in Packet
        /\ \A k \in Key : k # "reading" => a.prop[k] = Declared(cur)[k]
        /\ a.prop["reading"] = Declared(cur)["reading"] \/ a.prop["reading"] \in Packet
        /\ mode[cur] = "READ" => a.prop = Declared(cur)
    <3>1. Declared(cur) \in Table
      BY <1>2, DeclaredType
    <3> QED
      BY <1>3, <3>1, UpdateType
  <2>4. /\ b.prop \in Table /\ b.packet \in Packet
        /\ \A k \in Key : k # "reading" => b.prop[k] = a.prop[k]
        /\ b.prop["reading"] = a.prop["reading"] \/ b.prop["reading"] \in Packet
        /\ mode[cur] = "READ" => b.prop = a.prop
    <3> DEFINE p == a.prop
               pkt == a.packet
    <3>1. p \in Table /\ pkt \in Packet
      BY <2>3
    <3>2. b \in Update("gotemp", p, mode[cur], pkt)
      OBVIOUS
    <3> HIDE DEF p, pkt
    <3>3. /\ b.prop \in Table /\ b.packet \in Packet
          /\ \A k \in Key : k # "reading" => b.prop[k] = p[k]
          /\ b.prop["reading"] = p["reading"] \/ b.prop["reading"] \in Packet
          /\ mode[cur] = "READ" => b.prop = p
      BY <3>1, <3>2, UpdateType
    <3> QED
      BY <3>3 DEF p
  <2>5. packet' \in [Dev -> Packet] /\ pc' \in {"validate", "close"}
    BY <1>3, <2>2, <2>4
  <2>6. AttachEffect
    <3>1. /\ \A k \in Key \ {"TEMPer.resolution", "device", "type", "reading"} :
                b.prop[k] = prop[cur][k]
          /\ mode[cur] = "READ" => b.prop = prop[cur]
          /\ mode[cur] = "UPDATE" => b.prop["type"] = "temp" /\ b.prop["device"] = Drv(cur)
      BY <1>2, <1>4, <2>3, <2>4, DeclaredType
    <3>2. b.prop["reading"] \in {prop[cur]["reading"]} \cup Packet
      BY <1>2, <1>4, <2>3, <2>4, DeclaredType
    <3>3. b.prop["type"] \in {prop[cur]["type"], "temp"}
      BY <1>3, <3>1
    <3> QED
      BY <1>2, <2>2, <2>4, <3>1, <3>2, <3>3 DEF AttachEffect
  <2> QED
    BY <2>5, <2>6
<1>6. ASSUME AttachTemper
      PROVE  AttachEffect /\ pc' \in {"validate", "close"} /\ packet' \in [Dev -> Packet]
  <2>1. packet' = packet
    BY <1>6 DEF AttachTemper, PrivSet
  <2>2. CASE UNCHANGED <<prop, priv>> /\ pc' = "close"
    <3>1. prop' = [prop EXCEPT ![cur] = prop[cur]]
      BY <1>3, <2>2
    <3> QED
      BY <1>3, <2>1, <2>2, <3>1 DEF AttachEffect
  <2>3. ASSUME NEW a \in Update(Drv(cur), Declared(cur), mode[cur], packet[cur]),
               prop' = [prop EXCEPT ![cur] = a.prop],
               priv' = [priv EXCEPT ![cur] = TRUE], pc' = "validate"
        PROVE  AttachEffect /\ pc' \in {"validate", "close"}
    <3>1. /\ a.prop \in Table
          /\ \A k \in Key : k # "reading" => a.prop[k] = Declared(cur)[k]
          /\ a.prop["reading"] = Declared(cur)["reading"] \/ a.prop["reading"] \in Packet
          /\ mode[cur] = "READ" => a.prop = Declared(cur)
      <4>1. Declared(cur) \in Table /\ packet[cur] \in Packet
        BY <1>2, <1>3, DeclaredType
      <4> QED
        BY <4>1, UpdateType
    <3> QED
      BY <1>2, <1>3, <1>4, <2>3, <3>1, DeclaredType DEF AttachEffect
  <2> QED
    BY <1>3, <1>6, <2>1, <2>2, <2>3 DEF AttachTemper, PrivSet
<1> QED
  BY <1>1, <1>5, <1>6

\* What libusb and the world do keeps the types.
LEMMA WorldType ==
    ASSUME TypeOK, Bound, Environment
    PROVE  TypeOK' /\ Bound'
<1>1. ASSUME NEW u \in Usb, Plug(u) \/ Unplug(u) PROVE TypeOK' /\ Bound'
  BY <1>1, NoOutType
     DEF Plug, Unplug, TypeOK, Bound, Drv, devvars, store, attach
<1>2. ASSUME NEW i \in Iface, OtherProcess(i) PROVE TypeOK' /\ Bound'
  BY <1>2, NoOutType
     DEF OtherProcess, TypeOK, Bound, Drv, devvars, store, attach, Owner, Free, Other
<1> QED
  BY <1>1, <1>2 DEF Environment

LEMMA BeginDetectType ==
    ASSUME TypeOK, Bound, BeginDetect, running' \in BOOLEAN
    PROVE  TypeOK' /\ Bound'
<1>1. Plugged \subseteq Usb
  BY DEF Plugged
<1> QED
  BY <1>1, NoOutType
     DEF BeginDetect, TypeOK, Bound, Drv, InOpen, PC, devvars, store, attach

LEMMA ProbeUsbType ==
    ASSUME TypeOK, Bound, NEW u \in Usb, ProbeUsb(u)
    PROVE  TypeOK' /\ Bound'
<1>1. pc = "detect" /\ UNCHANGED <<running, mode, priv, packet, nopen, world, pc, attach, out>>
      /\ todo' \subseteq todo
  BY DEF ProbeUsb
<1>2. CASE UNCHANGED <<devvars, prop>>
  BY <1>1, <1>2 DEF TypeOK, Bound, Drv, InOpen, devvars, store, world, attach
<1>3. CASE /\ Driver[u] # "none"
           /\ nalloc < MaxDev
           /\ nalloc' = nalloc + 1
           /\ listed' = listed \cup {nalloc + 1}
           /\ usb' = [usb EXCEPT ![nalloc + 1] = u]
           /\ prop' = [prop EXCEPT ![nalloc + 1] = NewTable(u)]
  <2>1. nalloc + 1 \in Dev /\ nalloc \in Nat
    BY <1>3, MaxDevAssumption DEF TypeOK, Dev
  <2>2. usb' \in [Dev -> Usb \cup {NoUsb}] /\ prop' \in [Dev -> Table]
    BY <1>3, NewTableType DEF TypeOK
  <2>3. nalloc' \in 0..MaxDev /\ listed' \subseteq 1..nalloc' /\ cur' \in 0..nalloc'
    BY <1>1, <1>3, <2>1, MaxDevAssumption DEF TypeOK, attach
  <2>4. TypeOK'
    BY <1>1, <2>2, <2>3 DEF TypeOK, world, attach
  <2>5. Driver[u] \in Drivers
    BY <1>3, DriverAssumption
  <2>6. \A d \in 1..nalloc' : usb'[d] = IF d = nalloc + 1 THEN u ELSE usb[d]
    BY <1>3, <2>1, MaxDevAssumption DEF TypeOK, Dev
  <2>7. \A d \in 1..nalloc' : d # nalloc + 1 => d \in 1..nalloc
    BY <1>3, <2>1
  <2>8. Bound'
    BY <1>1, <2>5, <2>6, <2>7 DEF Bound, Drv, InOpen
  <2> QED
    BY <2>4, <2>8
<1> QED
  BY <1>2, <1>3 DEF ProbeUsb

\* The loop over the interfaces moves on.
LEMMA NextIfaceType ==
    ASSUME NEW j \in Nat, NextIface(j)
    PROVE  /\ ifc' \in Nat /\ timeout' \in 0..ClaimTimeout
           /\ pc' \in {"detach", "attach", "close"}
           /\ pc' = "detach" => timeout' > 0
BY DEF NextIface, ClaimTimeout

LEMMA OpenType ==
    ASSUME TypeOK, Bound, \E u \in Usb : Open(u)
    PROVE  TypeOK' /\ Bound'
<1>1. PICK u \in Usb : Open(u)
  OBVIOUS
<1>2. UNCHANGED <<running, devvars, store, world, ifc, timeout, todo>> /\ pc = "idle"
  BY <1>1 DEF Open
<1>3. CASE out' = Returned("open", 0, "NULL") /\ UNCHANGED <<pc, cur>>
  <2>1. out' \in Message
    BY <1>3, ReturnedType
  <2> QED
    BY <1>2, <1>3, <2>1 DEF TypeOK, Bound, Drv, InOpen, devvars, store, world
<1>4. ASSUME NEW d \in Named(u), cur' = d, pc' = "usb_open", out' = NoOut
      PROVE  TypeOK' /\ Bound'
  <2>1. d \in 1..nalloc /\ nalloc \in Nat
    BY DEF Named, TypeOK
  <2> QED
    BY <1>2, <1>4, <2>1, NoOutType DEF TypeOK, Bound, Drv, InOpen, PC, devvars, store, world
<1> QED
  BY <1>1, <1>3, <1>4 DEF Open

\* The table that usense_prop_validate() leaves: with default units, and perhaps
\* another reading.
Validated(q) ==
    /\ q \in Table
    /\ prop' = [prop EXCEPT ![cur] = q]
    /\ \A k \in Key \ {"units", "reading"} : q[k] = prop[cur][k]
    /\ q["units"] = IF prop[cur]["type"] = "temp" THEN "C" ELSE prop[cur]["units"]
    /\ q["reading"] \in {prop[cur]["reading"]} \cup Packet
    /\ mode[cur] = "READ" => q["reading"] = prop[cur]["reading"]

\* usense_prop_validate() aborts on a failing assert, finds a guaranteed
\* property missing or hands the device out.
LEMMA ValidateEffects ==
    ASSUME TypeOK, Bound, Validate
    PROVE  /\ pc = "validate"
           /\ UNCHANGED <<running, devvars, priv, plug, known, todo>>
           /\ packet' \in [Dev -> Packet]
           /\ \E q \in Table :
                /\ Validated(q)
                /\ \/ /\ ~ConvertAsserts(q)
                      /\ pc' = "aborted"
                      /\ UNCHANGED <<owner, nopen, mode, attach, out>>
                   \/ LeaveOpen("NULL") /\ Missing(q, Generic \cup TypeUsb)
                   \/ /\ LeaveOpen("dev") /\ ConvertAsserts(q)
                      /\ ~Missing(q, Generic \cup TypeUsb)
<1>1. pc = "validate" /\ UNCHANGED <<running, devvars, priv, plug, known, todo>>
  BY DEF Validate
<1>2. cur \in Dev
  BY <1>1, MaxDevAssumption DEF TypeOK, Bound, InOpen, Dev
<1>3. packet \in [Dev -> Packet] /\ prop[cur] \in Table
  BY <1>2 DEF TypeOK, Packet
<1> DEFINE q0 == IF prop[cur]["type"] = "temp"
                 THEN PropSet(prop[cur], mode[cur], "units", "C") ELSE prop[cur]
<1>4. /\ q0 \in Table
      /\ \A k \in Key : k # "units" => q0[k] = prop[cur][k]
      /\ q0["units"] = IF prop[cur]["type"] = "temp" THEN "C" ELSE prop[cur]["units"]
  <2>1. "units" \in Key /\ "C" \in Value
    BY KeysAndValues
  <2>2. prop[cur]["type"] = "temp" => Accepts(prop[cur], mode[cur], "units", "C")
    BY UnitsAssumption DEF Accepts, UnitsValid, TooLong
  <2> QED
    BY <1>3, <2>1, <2>2, PropSetType
<1>5. \/ /\ Missing(q0, {"type", "device", "units", "reading"})
         /\ prop' = [prop EXCEPT ![cur] = q0]
         /\ LeaveOpen("NULL")
         /\ UNCHANGED packet
      \/ \E a \in Update(Drv(cur), q0, mode[cur], packet[cur]) :
             /\ prop' = [prop EXCEPT ![cur] = a.prop]
             /\ packet' = [packet EXCEPT ![cur] = a.packet]
             /\ \/ /\ ~ConvertAsserts(a.prop)
                   /\ pc' = "aborted"
                   /\ UNCHANGED <<owner, nopen, mode, attach, out>>
                \/ /\ ConvertAsserts(a.prop)
                   /\ LeaveOpen(IF Missing(a.prop, Generic \cup TypeUsb)
                                THEN "NULL" ELSE "dev")
  BY DEF Validate
<1> HIDE DEF q0
<1>6. CASE /\ Missing(q0, {"type", "device", "units", "reading"})
           /\ prop' = [prop EXCEPT ![cur] = q0]
           /\ LeaveOpen("NULL")
           /\ UNCHANGED packet
  <2>1. Missing(q0, Generic \cup TypeUsb)
    BY <1>6 DEF Missing, Generic
  <2>2. Validated(q0)
    BY <1>4, <1>6, KeysAndValues DEF Validated
  <2> QED
    BY <1>1, <1>3, <1>4, <1>6, <2>1, <2>2
<1>7. ASSUME NEW a \in Update(Drv(cur), q0, mode[cur], packet[cur]),
             prop' = [prop EXCEPT ![cur] = a.prop],
             packet' = [packet EXCEPT ![cur] = a.packet],
             \/ /\ ~ConvertAsserts(a.prop)
                /\ pc' = "aborted"
                /\ UNCHANGED <<owner, nopen, mode, attach, out>>
             \/ /\ ConvertAsserts(a.prop)
                /\ LeaveOpen(IF Missing(a.prop, Generic \cup TypeUsb)
                             THEN "NULL" ELSE "dev")
      PROVE  /\ packet' \in [Dev -> Packet]
             /\ \E q \in Table :
                /\ Validated(q)
                /\ \/ /\ ~ConvertAsserts(q)
                      /\ pc' = "aborted"
                      /\ UNCHANGED <<owner, nopen, mode, attach, out>>
                   \/ LeaveOpen("NULL") /\ Missing(q, Generic \cup TypeUsb)
                   \/ /\ LeaveOpen("dev") /\ ConvertAsserts(q)
                      /\ ~Missing(q, Generic \cup TypeUsb)
  <2>1. packet[cur] \in Packet
    BY <1>2, <1>3
  <2>2. /\ a.prop \in Table /\ a.packet \in Packet
        /\ \A k \in Key : k # "reading" => a.prop[k] = q0[k]
        /\ a.prop["reading"] = q0["reading"] \/ a.prop["reading"] \in Packet
        /\ mode[cur] = "READ" => a.prop = q0
    BY <1>4, <2>1, UpdateType
  <2>3. Validated(a.prop)
    BY <1>4, <1>7, <2>2, KeysAndValues DEF Validated
  <2>4. packet' \in [Dev -> Packet]
    BY <1>3, <1>7, <2>2
  <2>5. CASE Missing(a.prop, Generic \cup TypeUsb)
    BY <1>7, <2>2, <2>3, <2>4, <2>5
  <2>6. CASE ~Missing(a.prop, Generic \cup TypeUsb)
    BY <1>7, <2>2, <2>3, <2>4, <2>6
  <2> QED
    BY <2>5, <2>6
<1> QED
  BY <1>1, <1>5, <1>6, <1>7

\* The end of usense_attach_usb() keeps the types.
LEMMA LeaveOpenType ==
    ASSUME TypeOK, cur \in Dev, NEW ret \in {"NULL", "dev"}, LeaveOpen(ret)
    PROVE  /\ owner' \in [Iface -> Owner] /\ nopen' \in [Dev -> Nat]
           /\ mode' \in [Dev -> {"UPDATE", "READ"}]
           /\ pc' = "idle" /\ cur' = 0 /\ ifc' = 0 /\ timeout' = 0 /\ out' \in Message
<1>1. pc' = "idle" /\ cur' = 0 /\ ifc' = 0 /\ timeout' = 0 /\ out' \in Message
  BY ReturnType DEF LeaveOpen
<1>2. owner' \in [Iface -> Owner]
  BY DEF LeaveOpen, TypeOK, Owner
<1>3. nopen' \in [Dev -> Nat] /\ mode' \in [Dev -> {"UPDATE", "READ"}]
  BY DEF LeaveOpen, TypeOK
<1> QED
  BY <1>1, <1>2, <1>3

\* The steps of usense_open().
LEMMA AttachingType ==
    ASSUME TypeOK, Bound,
           \/ UsbOpen \/ Detach \/ Claim \/ Sleep \/ UsbClose
           \/ AttachGotemp \/ AttachTemper \/ Validate
    PROVE  TypeOK' /\ Bound'
<1>0. pc \in InOpen /\ cur \in 1..nalloc /\ cur \in Dev /\ nalloc \in Nat
  BY MaxDevAssumption
     DEF UsbOpen, Detach, Claim, Sleep, UsbClose, AttachGotemp, AttachTemper, Validate,
         TypeOK, Bound, InOpen, Dev
<1>1. CASE UsbOpen
  <2>1. UNCHANGED <<running, devvars, store, world, todo>>
    BY <1>1 DEF UsbOpen
  <2>2. CASE pc' = "wild" /\ UNCHANGED <<cur, ifc, timeout, out>>
    BY <2>1, <2>2 DEF TypeOK, Bound, Drv, InOpen, PC, devvars, store, world
  <2>3. CASE Return("NULL")
    <3>1. pc' = "idle" /\ cur' = 0 /\ ifc' = 0 /\ timeout' = 0 /\ out' \in Message
      BY <2>3, ReturnType
    <3> QED
      BY <1>0, <2>1, <3>1
         DEF TypeOK, Bound, Drv, InOpen, PC, devvars, store, world, ClaimTimeout
  <2>4. CASE NextIface(0) /\ UNCHANGED <<cur, out>>
    <3>1. /\ ifc' \in Nat /\ timeout' \in 0..ClaimTimeout
          /\ pc' \in {"detach", "attach", "close"}
          /\ pc' = "detach" => timeout' > 0
      BY <2>4, NextIfaceType
    <3> QED
      BY <1>0, <2>1, <2>4, <3>1 DEF TypeOK, Bound, Drv, InOpen, PC, devvars, store, world
  <2> QED
    BY <1>1, <2>2, <2>3, <2>4 DEF UsbOpen
<1>2. CASE Detach
  <2>1. /\ pc = "detach" /\ pc' \in {"claim", "close"}
        /\ \/ UNCHANGED owner
           \/ owner' = [owner EXCEPT ![<<usb[cur], ifc>>] = Free]
        /\ UNCHANGED <<running, devvars, store, plug, known, attach, todo, out>>
    BY <1>2 DEF Detach
  <2>2. owner' \in [Iface -> Owner]
    BY <2>1 DEF TypeOK, Owner
  <2> QED
    BY <1>0, <2>1, <2>2 DEF TypeOK, Bound, Drv, InOpen, PC, devvars, store, attach
<1>3. CASE Claim
  <2>1. /\ pc = "claim"
        /\ UNCHANGED <<running, devvars, store, plug, known, cur, todo, out>>
    BY <1>3 DEF Claim
  <2>2. CASE owner' = [owner EXCEPT ![<<usb[cur], ifc>>] = Cur] /\ NextIface(ifc + 1)
    <3>1. owner' \in [Iface -> Owner]
      BY <2>2 DEF TypeOK, Owner
    <3>2. /\ ifc' \in Nat /\ timeout' \in 0..ClaimTimeout
          /\ pc' \in {"detach", "attach", "close"}
          /\ pc' = "detach" => timeout' > 0
      <4>1. ifc + 1 \in Nat
        BY DEF TypeOK
      <4> QED
        BY <2>2, <4>1, NextIfaceType
    <3> QED
      BY <1>0, <2>1, <3>1, <3>2 DEF TypeOK, Bound, Drv, InOpen, PC, devvars, store
  <2>3. CASE pc' \in {"sleep", "close"} /\ UNCHANGED <<owner, ifc, timeout>>
    BY <1>0, <2>1, <2>3 DEF TypeOK, Bound, Drv, InOpen, PC, devvars, store
  <2> QED
    BY <1>3, <2>2, <2>3 DEF Claim
<1>0s. CASE Sleep
  <2>1. /\ pc = "sleep" /\ pc' \in {"claim", "close"}
        /\ timeout' \in 0..ClaimTimeout /\ (pc' = "claim" => timeout' > 0)
        /\ UNCHANGED <<running, devvars, store, world, cur, ifc, todo, out>>
    BY <1>0s DEF Sleep, LessTimeout, AfterBusy, TypeOK, ClaimTimeout
  <2> QED
    BY <1>0, <2>1 DEF TypeOK, Bound, Drv, InOpen, PC, devvars, store, world
<1>4. CASE UsbClose
  <2>1. /\ owner' = [i \in Iface |-> IF owner[i] = Cur THEN Free ELSE owner[i]]
        /\ Return("NULL")
        /\ UNCHANGED <<running, devvars, store, plug, known, todo>>
    BY <1>4 DEF UsbClose, Closed
  <2>2. owner' \in [Iface -> Owner]
    BY <2>1 DEF TypeOK, Owner
  <2> QED
    <3>1. pc' = "idle" /\ cur' = 0 /\ ifc' = 0 /\ timeout' = 0 /\ out' \in Message
      BY <2>1, ReturnType
    <3> QED
      BY <1>0, <2>1, <2>2, <3>1
         DEF TypeOK, Bound, Drv, InOpen, PC, devvars, store, ClaimTimeout
<1>5. CASE AttachGotemp \/ AttachTemper
  <2>1. /\ AttachEffect
        /\ pc' \in {"validate", "close"}
        /\ packet' \in [Dev -> Packet]
        /\ UNCHANGED <<running, devvars, mode, nopen, world, attach, todo, out>>
    BY <1>5, AttachEffects
  <2>2. prop' \in [Dev -> Table] /\ priv' \in [Dev -> BOOLEAN]
    <3>1. PICK q \in Table : /\ prop' = [prop EXCEPT ![cur] = q]
                             /\ \/ priv' = [priv EXCEPT ![cur] = TRUE]
                                \/ UNCHANGED priv
      BY <2>1 DEF AttachEffect
    <3> QED
      BY <3>1 DEF TypeOK
  <2> QED
    BY <1>0, <2>1, <2>2 DEF TypeOK, Bound, Drv, InOpen, PC, Packet, devvars, world, attach
<1>6. CASE Validate
  <2>1. PICK q \in Table :
          /\ Validated(q)
          /\ \/ pc' = "aborted" /\ UNCHANGED <<owner, nopen, mode, attach, out>>
             \/ \E ret \in {"NULL", "dev"} : LeaveOpen(ret)
    BY <1>6, ValidateEffects
  <2>2. /\ packet' \in [Dev -> Packet]
        /\ UNCHANGED <<running, devvars, priv, plug, known, todo>>
    BY <1>6, ValidateEffects
  <2>3. prop' \in [Dev -> Table]
    BY <2>1 DEF Validated, TypeOK
  <2>4. CASE pc' = "aborted" /\ UNCHANGED <<owner, nopen, mode, attach, out>>
    BY <2>2, <2>3, <2>4 DEF TypeOK, Bound, Drv, InOpen, PC, Packet, devvars, attach
  <2>5. CASE \E ret \in {"NULL", "dev"} : LeaveOpen(ret)
    <3>1. /\ owner' \in [Iface -> Owner] /\ nopen' \in [Dev -> Nat]
          /\ mode' \in [Dev -> {"UPDATE", "READ"}]
          /\ pc' = "idle" /\ cur' = 0 /\ ifc' = 0 /\ timeout' = 0 /\ out' \in Message
      BY <1>0, <2>5, LeaveOpenType
    <3> QED
      BY <2>2, <2>3, <3>1 DEF TypeOK, Bound, Drv, InOpen, PC, Packet, devvars, ClaimTimeout
  <2> QED
    BY <2>1, <2>4, <2>5
<1> QED
  BY <1>1, <1>2, <1>3, <1>0s, <1>4, <1>5, <1>6

\* The calls on an open device.
LEMMA ClientType ==
    ASSUME TypeOK, Bound,
           \/ \E d \in Dev : GetReading(d) \/ Close(d)
           \/ \E d \in Dev, k \in ClientKeys, v \in ClientValues : SetProp(d, k, v)
           \/ Stop
    PROVE  TypeOK' /\ Bound'
<1>1. ASSUME NEW d \in Dev, GetReading(d) PROVE TypeOK' /\ Bound'
  <2>1. PICK a \in Update(Drv(d), prop[d], mode[d], packet[d]) :
          /\ prop' = [prop EXCEPT ![d] = a.prop]
          /\ packet' = [packet EXCEPT ![d] = a.packet]
          /\ \/ pc' \in {"wild", "aborted"} /\ out' = NoOut
             \/ /\ out' = Answer("get", d, "", "ok", a.prop["reading"], a.got)
                /\ UNCHANGED pc
    BY <1>1 DEF GetReading
  <2>2. UNCHANGED <<running, devvars, mode, priv, nopen, world, attach, todo>> /\ pc = "idle"
    BY <1>1 DEF GetReading, Held
  <2>3. a.prop \in Table /\ a.packet \in Packet /\ a.got \in Meas \cup {None}
    <3>1. prop[d] \in Table /\ packet[d] \in Packet
      BY DEF TypeOK, Packet
    <3> QED
      BY <3>1, UpdateType
  <2>4. prop' \in [Dev -> Table] /\ packet' \in [Dev -> Packet]
    BY <2>1, <2>3 DEF TypeOK, Packet
  <2>5. a.prop["reading"] \in Value
    BY <2>3, KeysAndValues DEF Table
  <2>6. out' \in Message
    BY <2>1, <2>3, <2>5, NoOutType, AnswerType
  <2> QED
    BY <2>1, <2>2, <2>4, <2>6
       DEF TypeOK, Bound, Drv, InOpen, PC, Packet, devvars, world, attach
<1>2. ASSUME NEW d \in Dev, NEW k \in ClientKeys, NEW v \in ClientValues, SetProp(d, k, v)
      PROVE  TypeOK' /\ Bound'
  <2>1. /\ \/ pc' = "aborted" /\ out' = NoOut /\ UNCHANGED prop
           \/ /\ prop' = [prop EXCEPT ![d] = PropSet(prop[d], mode[d], k, v)]
              /\ \E ret \in {"ok", "EINVAL", "EROFS"} :
                    out' = Answer("set", d, k, ret, None, None)
              /\ UNCHANGED pc
        /\ UNCHANGED <<running, devvars, mode, priv, packet, nopen, world, attach, todo>>
    BY <1>2 DEF SetProp, SetError
  <2>2. PropSet(prop[d], mode[d], k, v) \in Table
    BY KeysAndValues, PropSetType DEF TypeOK
  <2>3. prop' \in [Dev -> Table]
    BY <2>1, <2>2 DEF TypeOK
  <2>4. out' \in Message
    <3>1. CASE out' = NoOut
      BY <3>1, NoOutType
    <3>2. ASSUME NEW ret \in {"ok", "EINVAL", "EROFS"},
                 out' = Answer("set", d, k, ret, None, None)
          PROVE  out' \in Message
      <4>1. Answer("set", d, k, ret, None, None) \in Message
        BY AnswerType
      <4> QED
        BY <3>2, <4>1
    <3> QED
      BY <2>1, <3>1, <3>2
  <2>5. pc = "idle"
    BY <1>2 DEF SetProp, Held
  <2> QED
    BY <2>1, <2>3, <2>4, <2>5 DEF TypeOK, Bound, Drv, InOpen, PC, devvars, world, attach
<1>3. ASSUME NEW d \in Dev, Close(d) PROVE TypeOK' /\ Bound'
  <2>1. out' \in Message
    BY <1>3, ReturnedType DEF Close
  <2> QED
    BY <1>3, <2>1 DEF Close, TypeOK, Bound, Drv, InOpen, devvars, store, world, attach
<1>4. CASE Stop
  BY <1>4, NoOutType DEF Stop, TypeOK, Bound, Drv, InOpen, store, world, attach
<1> QED
  BY <1>1, <1>2, <1>3, <1>4

LEMMA TypeNext == TypeOK /\ Bound /\ [Next]_vars => TypeOK' /\ Bound'
<1> SUFFICES ASSUME TypeOK, Bound, [Next]_vars PROVE TypeOK' /\ Bound'
  OBVIOUS
<1>1. CASE Environment
  BY <1>1, WorldType
<1>2. CASE Start \/ Detect
  <2>1. BeginDetect /\ running' \in BOOLEAN
    BY <1>2 DEF Start, Detect
  <2> QED
    BY <2>1, BeginDetectType
<1>3. CASE Stop \/ (\E d \in Dev : GetReading(d) \/ Close(d))
           \/ \E d \in Dev, k \in ClientKeys, v \in ClientValues : SetProp(d, k, v)
  BY <1>3, ClientType
<1>4. CASE \E u \in Usb : Open(u)
  BY <1>4, OpenType
<1>5. CASE \E u \in Usb : ProbeUsb(u)
  BY <1>5, ProbeUsbType
<1>6. CASE DetectDone
  BY <1>6 DEF DetectDone, TypeOK, Bound, Drv, InOpen, PC, devvars, store, world, attach
<1>7. CASE \/ UsbOpen \/ Detach \/ Claim \/ Sleep \/ UsbClose
           \/ AttachGotemp \/ AttachTemper \/ Validate
  BY <1>7, AttachingType
<1>8. CASE UNCHANGED vars
  BY <1>8 DEF vars, TypeOK, Bound, Drv, devvars, store, world, attach
<1> QED
  BY <1>1, <1>2, <1>3, <1>4, <1>5, <1>6, <1>7, <1>8 DEF Next, Client, Library

LEMMA TypesHold == Spec => [](TypeOK /\ Bound)
BY TypeInit, TypeNext, PTL DEF Spec

\* Every variable of the library keeps its type, whatever the world, the
\* clients and the drivers do; in particular the retry counter of a busy
\* interface stays within its five seconds.
THEOREM TypeCorrect == Spec => []TypeOK
BY TypesHold, PTL

-----------------------------------------------------------------------------
(* The property tables.                                                    *)

\* What usense_device_new() guarantees and nothing takes back, and units only
\* of a known type.
Sound(p) ==
    /\ \A k \in {"name", "reading", "calibrate.add", "calibrate.mult"} \cup TypeUsb :
          p[k] # Absent
    /\ p["type"] \in {Absent, "temp"}
    /\ p["units"] # Absent => p["type"] = "temp" /\ p["units"] \in ValidUnits

\* A table that usense_prop_validate() accepts.
Full(p) == Sound(p) /\ p["type"] = "temp" /\ p["device"] # Absent /\ p["units"] # Absent

\* Every table is sound; the tables of devices handed out, or about to be, are
\* full and their drivers have their private data.
Tables ==
    /\ \A d \in Dev : mode[d] = "READ" => d \in 1..nalloc /\ priv[d] /\ Full(prop[d])
    /\ \A d \in 1..nalloc : Sound(prop[d])
    /\ pc = "validate" =>
          priv[cur] /\ prop[cur]["type"] = "temp" /\ prop[cur]["device"] # Absent
    /\ pc # "aborted"

LEMMA FullFacts ==
    ASSUME NEW p \in Table, Full(p)
    PROVE  /\ ~Missing(p, Generic \cup TypeUsb)
           /\ ConvertAsserts(p)
           /\ UnitsValid(p["type"], p["units"])
BY DEF Full, Sound, Missing, Generic, ConvertAsserts, UnitsValid, Absent

LEMMA TablesKept ==
    ASSUME Tables, UNCHANGED <<nalloc, mode, priv, prop>>, pc' \notin {"validate", "aborted"}
    PROVE  Tables'
BY DEF Tables, Dev

\* Detection adds sound tables.
LEMMA ProbeTables ==
    ASSUME TypeOK, Tables, NEW u \in Usb, ProbeUsb(u)
    PROVE  Tables'
<1>1. pc = "detect" /\ UNCHANGED <<mode, priv, pc, cur>>
  BY DEF ProbeUsb, attach
<1>2. CASE UNCHANGED <<devvars, prop>>
  BY <1>1, <1>2, TablesKept DEF devvars
<1>3. CASE /\ nalloc < MaxDev
           /\ nalloc' = nalloc + 1
           /\ prop' = [prop EXCEPT ![nalloc + 1] = NewTable(u)]
  <2>1. nalloc + 1 \in Dev /\ nalloc \in Nat
    BY <1>3, MaxDevAssumption DEF TypeOK, Dev
  <2>2. \A d \in Dev : prop'[d] = IF d = nalloc + 1 THEN NewTable(u) ELSE prop[d]
    BY <1>3, <2>1 DEF TypeOK
  <2>3. Sound(NewTable(u))
    BY NewTableType DEF Sound
  <2>4. \A d \in 1..nalloc' : d = nalloc + 1 \/ d \in 1..nalloc
    BY <1>3, <2>1
  <2>5. 1..nalloc' \subseteq Dev /\ nalloc + 1 \notin 1..nalloc
    BY <1>3, <2>1, MaxDevAssumption DEF Dev
  <2>6. \A d \in 1..nalloc' : Sound(prop'[d])
    BY <2>2, <2>3, <2>4, <2>5 DEF Tables
  <2>7. \A d \in Dev : mode[d] = "READ" => d \in 1..nalloc' /\ prop'[d] = prop[d]
    BY <1>3, <2>1, <2>2, <2>5 DEF Tables
  <2> QED
    BY <1>1, <2>6, <2>7 DEF Tables
<1> QED
  BY <1>2, <1>3 DEF ProbeUsb

\* attach() keeps a table sound, and completes it when it succeeds.
LEMMA AttachTables ==
    ASSUME TypeOK, Bound, Tables, AttachGotemp \/ AttachTemper
    PROVE  Tables'
<1>1. /\ AttachEffect
      /\ pc = "attach" /\ pc' \in {"validate", "close"}
      /\ UNCHANGED <<nalloc, mode, cur>>
  BY AttachEffects DEF devvars, attach
<1>2. cur \in Dev /\ cur \in 1..nalloc /\ 1..nalloc \subseteq Dev
  BY <1>1, MaxDevAssumption DEF TypeOK, Bound, InOpen, Dev
<1>3. PICK q \in Table :
        /\ prop' = [prop EXCEPT ![cur] = q]
        /\ \A k \in Key \ {"TEMPer.resolution", "device", "type", "reading"} :
              q[k] = prop[cur][k]
        /\ q["type"] \in {prop[cur]["type"], "temp"}
        /\ q["reading"] \in {prop[cur]["reading"]} \cup Packet
        /\ mode[cur] = "READ" => q = prop[cur]
        /\ pc' = "validate" =>
              /\ priv' = [priv EXCEPT ![cur] = TRUE]
              /\ mode[cur] = "UPDATE" => q["type"] = "temp" /\ q["device"] \in Drivers
        /\ pc' = "close" => UNCHANGED priv
  BY <1>1 DEF AttachEffect
<1>4. \A d \in Dev : prop'[d] = IF d = cur THEN q ELSE prop[d]
  BY <1>2, <1>3 DEF TypeOK
<1>5. \A d \in Dev : /\ priv[d] => priv'[d]
                     /\ pc' = "validate" /\ d = cur => priv'[d]
  BY <1>1, <1>2, <1>3 DEF TypeOK
<1>6. Sound(q)
  <2>1. Sound(prop[cur])
    BY <1>2 DEF Tables
  <2>2. Absent \notin Packet /\ "temp" # Absent
    BY ValueAssumption DEF Packet, Absent
  <2>3. {"name", "calibrate.add", "calibrate.mult", "units"} \cup TypeUsb
          \subseteq Key \ {"TEMPer.resolution", "device", "type", "reading"}
    BY KeysAndValues DEF Key, Generic, TypeUsb
  <2> QED
    BY <1>3, <2>1, <2>2, <2>3 DEF Sound
<1>7. pc' = "validate" => q["type"] = "temp" /\ q["device"] # Absent
  <2>1. CASE mode[cur] = "READ"
    BY <1>2, <1>3, <2>1 DEF Tables, Full
  <2>2. CASE mode[cur] = "UPDATE"
    BY <1>3, <2>2 DEF Drivers, Absent
  <2> QED
    BY <1>2, <2>1, <2>2 DEF TypeOK
<1>8. \A d \in Dev : mode[d] = "READ" => prop'[d] = prop[d]
  BY <1>3, <1>4
<1> QED
  BY <1>1, <1>2, <1>4, <1>5, <1>6, <1>7, <1>8 DEF Tables

\* Validation never aborts and always hands out a full table.
LEMMA ValidateTables ==
    ASSUME TypeOK, Bound, Tables, Validate
    PROVE  Tables' /\ LeaveOpen("dev")
<1>1. pc = "validate" /\ UNCHANGED <<nalloc, priv>>
  BY ValidateEffects DEF devvars
<1>2. cur \in Dev /\ cur \in 1..nalloc /\ 1..nalloc \subseteq Dev
  BY <1>1, MaxDevAssumption DEF TypeOK, Bound, InOpen, Dev
<1>3. PICK q \in Table :
        /\ Validated(q)
        /\ \/ ~ConvertAsserts(q)
           \/ Missing(q, Generic \cup TypeUsb)
           \/ LeaveOpen("dev")
  BY ValidateEffects
<1>4. Full(q)
  <2>1. Sound(prop[cur]) /\ prop[cur]["type"] = "temp" /\ prop[cur]["device"] # Absent
    BY <1>1, <1>2 DEF Tables
  <2>2. Absent \notin Packet /\ "C" # Absent
    BY ValueAssumption DEF Packet, Absent
  <2>3. {"name", "calibrate.add", "calibrate.mult", "type", "device"} \cup TypeUsb
          \subseteq Key \ {"units", "reading"}
    BY KeysAndValues DEF Key, Generic, TypeUsb
  <2>4. /\ q["units"] = "C" /\ q["type"] = "temp" /\ q["device"] # Absent
        /\ q["reading"] # Absent
    BY <1>3, <2>1, <2>2, <2>3 DEF Validated, Sound
  <2>5. \A k \in {"name", "calibrate.add", "calibrate.mult"} \cup TypeUsb : q[k] # Absent
    BY <1>3, <2>1, <2>3 DEF Validated, Sound
  <2> QED
    BY <2>2, <2>4, <2>5, UnitsAssumption DEF Full, Sound
<1>5. LeaveOpen("dev")
  BY <1>3, <1>4, FullFacts
<1>6. /\ pc' = "idle"
      /\ mode' = [mode EXCEPT ![cur] = "READ"]
      /\ prop' = [prop EXCEPT ![cur] = q]
  BY <1>3, <1>5 DEF LeaveOpen, Return, Validated
<1>7. \A d \in Dev : /\ prop'[d] = IF d = cur THEN q ELSE prop[d]
                     /\ d # cur => mode'[d] = mode[d]
  BY <1>2, <1>6 DEF TypeOK
<1>8. priv[cur]
  BY <1>1 DEF Tables
<1>9. Tables'
  BY <1>1, <1>2, <1>4, <1>6, <1>7, <1>8 DEF Tables, Full
<1> QED
  BY <1>5, <1>9

\* Fetching the reading of an open device changes no table and hits no assert.
LEMMA GetTables ==
    ASSUME TypeOK, Tables, NEW d \in Dev, GetReading(d)
    PROVE  Tables' /\ UNCHANGED prop
<1>1. /\ pc = "idle" /\ mode[d] = "READ"
      /\ UNCHANGED <<nalloc, mode, priv>>
  BY DEF GetReading, Held, devvars
<1>2. PICK a \in Update(Drv(d), prop[d], mode[d], packet[d]) :
        /\ prop' = [prop EXCEPT ![d] = a.prop]
        /\ ~priv[d] \/ ~ConvertAsserts(a.prop) \/ UNCHANGED pc
  BY DEF GetReading
<1>3. a.prop = prop[d]
  <2>1. prop[d] \in Table /\ packet[d] \in Packet
    BY DEF TypeOK, Packet
  <2> QED
    BY <1>1, <2>1, UpdateType
<1>4. UNCHANGED prop
  BY <1>2, <1>3 DEF TypeOK
<1>5. priv[d] /\ ConvertAsserts(prop[d])
  BY <1>1, FullFacts DEF Tables, TypeOK
<1> QED
  BY <1>1, <1>2, <1>3, <1>4, <1>5, TablesKept

\* A client's write keeps the table of an open device full, and takes no entry
\* away.
LEMMA SetTables ==
    ASSUME TypeOK, Tables, NEW d \in Dev, NEW k \in ClientKeys, NEW v \in ClientValues,
           SetProp(d, k, v)
    PROVE  /\ Tables'
           /\ \A e \in Dev, j \in Key : prop'[e][j] # prop[e][j] =>
                 j \in AlwaysWritable /\ prop'[e][j] # Absent
<1>1. /\ pc = "idle" /\ mode[d] = "READ" /\ d \in 1..nalloc /\ Full(prop[d])
      /\ UNCHANGED <<nalloc, mode, priv>>
  BY DEF SetProp, Held, devvars, Tables
<1>2. "type" \in Key /\ prop[d] \in Table /\ k \in Key /\ v \in Value
  BY KeysAndValues DEF TypeOK
<1>3. prop[d]["type"] = "temp" /\ "temp" # Absent
  BY <1>1 DEF Full, Absent
<1>4. prop' = [prop EXCEPT ![d] = PropSet(prop[d], mode[d], k, v)] /\ UNCHANGED pc
  BY <1>3 DEF SetProp
<1> DEFINE q == PropSet(prop[d], mode[d], k, v)
<1>5. v # Absent
  BY ValueAssumption DEF Absent
<1>6. /\ \A j \in Key : j # k => q[j] = prop[d][j]
      /\ q[k] # prop[d][k] => k \in AlwaysWritable /\ q[k] = v
      /\ k = "units" /\ q[k] # prop[d][k] => v \in ValidUnits
  <2>1. Accepts(prop[d], mode[d], k, v) =>
          k \in AlwaysWritable /\ (k = "units" => v \in ValidUnits)
    BY <1>1 DEF Accepts, UnitsValid, AlwaysWritable
  <2> QED
    BY <1>2, <2>1, PropSetType
<1>7. \A e \in Dev : prop'[e] = IF e = d THEN q ELSE prop[e]
  BY <1>4 DEF TypeOK
<1> HIDE DEF q
<1>8. Full(q)
  <2>1. {"name", "reading", "calibrate.add", "calibrate.mult", "type", "units", "device"}
           \cup TypeUsb \subseteq Key
    BY KeysAndValues DEF Key, Generic
  <2>2. "type" \notin AlwaysWritable
    BY DEF AlwaysWritable
  <2>3. \A j \in Key : q[j] = prop[d][j] \/ (j = k /\ k \in AlwaysWritable /\ q[j] = v)
    BY <1>6
  <2>4. q["type"] = "temp"
    BY <1>3, <2>1, <2>2, <2>3
  <2>5. q["units"] # Absent /\ q["units"] \in ValidUnits
    BY <1>1, <1>5, <1>6, <2>1, <2>3 DEF Full, Sound
  <2> QED
    BY <1>1, <1>5, <2>1, <2>3, <2>4, <2>5 DEF Full, Sound
<1>9. 1..nalloc \subseteq Dev
  BY MaxDevAssumption DEF TypeOK, Dev
<1>10. Tables'
  BY <1>1, <1>4, <1>7, <1>8, <1>9 DEF Tables, Full
<1> QED
  BY <1>5, <1>6, <1>7, <1>10

LEMMA TablesInit == Init => Tables
<1> SUFFICES ASSUME Init PROVE Tables
  OBVIOUS
<1> QED
  BY DEF Init, Tables

LEMMA TablesNext == TypeOK /\ Bound /\ Tables /\ [Next]_vars => Tables'
<1> SUFFICES ASSUME TypeOK, Bound, Tables, [Next]_vars PROVE Tables'
  OBVIOUS
<1>0. pc # "aborted"
  BY DEF Tables
<1>1. CASE Environment
  <2>1. UNCHANGED <<nalloc, mode, priv, prop, pc, cur>>
    BY <1>1 DEF Environment, Plug, Unplug, OtherProcess, devvars, store, attach
  <2> QED
    BY <1>0, <2>1 DEF Tables
<1>2. CASE Start \/ Detect \/ Stop \/ (\E u \in Usb : Open(u)) \/ \E d \in Dev : Close(d)
  <2>1. UNCHANGED <<nalloc, mode, priv, prop>> /\ pc' \in {"idle", "detect", "usb_open"}
    BY <1>2 DEF Start, Detect, BeginDetect, Stop, Open, Close, Held, devvars, store
  <2> QED
    BY <2>1, TablesKept
<1>3. CASE \E u \in Usb : ProbeUsb(u)
  BY <1>3, ProbeTables
<1>4. CASE DetectDone \/ UsbOpen \/ Detach \/ Claim \/ Sleep \/ UsbClose
  <2>1. /\ UNCHANGED <<nalloc, mode, priv, prop>>
        /\ pc' \notin {"validate", "aborted"}
    BY <1>4 DEF DetectDone, UsbOpen, Detach, Claim, Sleep, AfterBusy, UsbClose, Return,
                NextIface, devvars, store
  <2> QED
    BY <2>1, TablesKept
<1>5. CASE AttachGotemp \/ AttachTemper
  BY <1>5, AttachTables
<1>6. CASE Validate
  BY <1>6, ValidateTables
<1>7. CASE \E d \in Dev : GetReading(d)
  BY <1>7, GetTables
<1>8. CASE \E d \in Dev, k \in ClientKeys, v \in ClientValues : SetProp(d, k, v)
  BY <1>8, SetTables
<1>9. CASE UNCHANGED vars
  <2>1. UNCHANGED <<nalloc, mode, priv, prop, pc, cur>>
    BY <1>9 DEF vars, devvars, store, attach
  <2> QED
    BY <1>0, <2>1 DEF Tables
<1> QED
  BY <1>1, <1>2, <1>3, <1>4, <1>5, <1>6, <1>7, <1>8, <1>9 DEF Next, Client, Library

LEMMA TablesHold == Spec => [](TypeOK /\ Bound /\ Tables)
BY TypeInit, TypeNext, TablesInit, TablesNext, PTL DEF Spec

\* No assert of the property store can fail, for any number of devices,
\* interfaces, failed opens and client writes.
THEOREM NoAbort == Spec => []NoAssertFails
<1>1. Tables => NoAssertFails
  BY DEF Tables, NoAssertFails
<1> QED
  BY <1>1, TablesHold, PTL

\* What usense_open() hands out has every property usense.h guarantees.
THEOREM OpenedIsReady == Spec => []OpenIsReady
<1>1. TypeOK /\ Tables => OpenIsReady
  <2> SUFFICES ASSUME TypeOK, Tables PROVE OpenIsReady
    OBVIOUS
  <2>1. \A d \in Dev : prop[d] \in Table
    BY DEF TypeOK
  <2>2. \A d \in Dev : mode[d] = "READ" => priv[d] /\ Full(prop[d])
    BY DEF Tables
  <2>3. pc = "validate" => priv[cur]
    BY DEF Tables
  <2> QED
    BY <2>1, <2>2, <2>3, FullFacts DEF OpenIsReady
<1> QED
  BY <1>1, TablesHold, PTL

\* The entries of an open device's table stay where they are, and only units
\* and calibration change.
THEOREM TablesSettle == Spec => SettledTable
<1> DEFINE Settles == \A d \in Dev : mode[d] = "READ" =>
              \A k \in Key : prop'[d][k] # prop[d][k] =>
                 /\ k \in AlwaysWritable
                 /\ prop[d][k] # Absent
                 /\ prop'[d][k] # Absent
<1>1. TypeOK /\ Bound /\ Tables /\ [Next]_vars => [Settles]_vars
  <2> SUFFICES ASSUME TypeOK, Bound, Tables, [Next]_vars,
                      NEW d \in Dev, mode[d] = "READ",
                      NEW k \in Key, prop'[d][k] # prop[d][k]
               PROVE  k \in AlwaysWritable /\ prop[d][k] # Absent /\ prop'[d][k] # Absent
    OBVIOUS
  <2>1. /\ Full(prop[d]) /\ d \in 1..nalloc /\ nalloc \in Nat /\ 1..nalloc \subseteq Dev
        /\ prop \in [Dev -> Table]
    BY MaxDevAssumption DEF Tables, TypeOK, Dev
  <2>2. \A j \in AlwaysWritable : prop[d][j] # Absent
    BY <2>1 DEF Full, Sound, AlwaysWritable
  <2>3. ASSUME NEW u \in Usb, ProbeUsb(u) PROVE FALSE
    <3>1. UNCHANGED prop \/ prop' = [prop EXCEPT ![nalloc + 1] = NewTable(u)]
      BY <2>3 DEF ProbeUsb
    <3> QED
      BY <2>1, <3>1
  <2>4. ASSUME AttachGotemp \/ AttachTemper PROVE FALSE
    <3>1. PICK q \in Table : /\ prop' = [prop EXCEPT ![cur] = q]
                             /\ mode[cur] = "READ" => q = prop[cur]
      BY <2>4, AttachEffects DEF AttachEffect
    <3> QED
      BY <2>1, <3>1
  <2>5. ASSUME Validate PROVE k = "units" /\ prop'[d][k] # Absent
    <3>1. PICK q \in Table : Validated(q)
      BY <2>5, ValidateEffects
    <3>2. cur = d
      BY <2>1, <3>1 DEF Validated
    <3>3. k = "units"
      BY <2>1, <3>1, <3>2 DEF Validated
    <3>4. prop'[d]["units"] = "C"
      BY <2>1, <3>1, <3>2 DEF Validated, Full
    <3> QED
      BY <3>3, <3>4 DEF Absent
  <2>6. ASSUME NEW e \in Dev, GetReading(e) PROVE FALSE
    BY <2>6, GetTables
  <2>7. ASSUME NEW e \in Dev, NEW j \in ClientKeys, NEW v \in ClientValues, SetProp(e, j, v)
        PROVE  k \in AlwaysWritable /\ prop'[d][k] # Absent
    BY <2>7, SetTables
  <2>8. ASSUME UNCHANGED prop PROVE FALSE
    BY <2>8
  <2>9. \/ UNCHANGED prop
        \/ \E u \in Usb : ProbeUsb(u)
        \/ AttachGotemp \/ AttachTemper \/ Validate
        \/ \E e \in Dev : GetReading(e)
        \/ \E e \in Dev, j \in ClientKeys, v \in ClientValues : SetProp(e, j, v)
    <3>1. CASE Environment
      BY <3>1 DEF Environment, Plug, Unplug, OtherProcess, store
    <3>2. CASE Start \/ Detect \/ Stop \/ (\E u \in Usb : Open(u)) \/ \E e \in Dev : Close(e)
      BY <3>2 DEF Start, Detect, BeginDetect, Stop, Open, Close, store
    <3>3. CASE DetectDone \/ UsbOpen \/ Detach \/ Claim \/ Sleep \/ UsbClose
      BY <3>3 DEF DetectDone, UsbOpen, Detach, Claim, Sleep, UsbClose, store
    <3>4. CASE UNCHANGED vars
      BY <3>4 DEF vars, store
    <3> QED
      BY <3>1, <3>2, <3>3, <3>4 DEF Next, Client, Library
  <2> QED
    BY <2>2, <2>3, <2>4, <2>5, <2>6, <2>7, <2>8, <2>9 DEF AlwaysWritable
<1> QED
  BY <1>1, TablesHold, PTL DEF Spec, SettledTable

-----------------------------------------------------------------------------
(* Handles and claims.                                                     *)

\* The proofs below need every device to have an interface: a device without
\* one is attached without claiming anything (usense.c:359-382).
HasInterfaces == \A u \in Usb : NumIfaces[u] > 0

\* Exactly the opened devices have a handle, which holds all their interfaces;
\* the call in progress has claimed the interfaces its loop has passed.
Handles ==
    /\ \A d \in Dev : nopen[d] = IF mode[d] = "READ" THEN 1 ELSE 0
    /\ \A i \in Iface : owner[i] = Cur => pc \in InOpen \ {"usb_open"} /\ i[1] = usb[cur]
    /\ \A d \in Dev, i \in Iface : owner[i] = d <=> mode[d] = "READ" /\ i[1] = usb[d]
    /\ pc \in {"detach", "claim", "sleep"} =>
          /\ ifc < NumIfaces[usb[cur]]
          /\ \A j \in 0..(ifc - 1) : owner[<<usb[cur], j>>] = Cur
    /\ pc \in {"attach", "validate"} =>
          \A j \in 0..(NumIfaces[usb[cur]] - 1) : owner[<<usb[cur], j>>] = Cur

LEMMA IfaceFacts ==
    /\ \A i \in Iface : i[1] \in Usb /\ i[2] \in 0..(NumIfaces[i[1]] - 1) /\ i = <<i[1], i[2]>>
    /\ \A u \in Usb : \A j \in 0..(NumIfaces[u] - 1) : <<u, j>> \in Iface
BY DEF Iface

LEMMA OwnersDistinct ==
    /\ Cur \notin Dev /\ Free \notin Dev /\ Kernel \notin Dev /\ Other \notin Dev
    /\ Cur # Free /\ Cur # Kernel /\ Cur # Other /\ Free # Kernel /\ Free # Other
BY MaxDevAssumption DEF Cur, Free, Kernel, Other, Dev

\* Interfaces that are fully claimed by the call in progress belong to a device
\* that is not open, under whatever number it is listed.
LEMMA ClaimedIsFresh ==
    ASSUME TypeOK, Bound, Handles, HasInterfaces, pc \in {"attach", "validate"},
           NEW d \in Dev, usb[d] = usb[cur]
    PROVE  mode[d] = "UPDATE"
<1>1. usb[cur] \in Usb
  BY DEF Bound, InOpen
<1>2. 0 \in 0..(NumIfaces[usb[cur]] - 1)
  BY <1>1, NumIfacesAssumption DEF HasInterfaces
<1>3. <<usb[cur], 0>> \in Iface /\ owner[<<usb[cur], 0>>] = Cur
  BY <1>1, <1>2, IfaceFacts DEF Handles
<1>4. mode[d] # "READ"
  BY <1>3, OwnersDistinct DEF Handles
<1> QED
  BY <1>4 DEF TypeOK

LEMMA HandlesInit == Init => Handles
<1> SUFFICES ASSUME Init PROVE Handles
  OBVIOUS
<1>1. \A i \in Iface : owner[i] \in {Free, Kernel, Other}
  BY DEF Init
<1> QED
  BY <1>1, OwnersDistinct DEF Init, Handles, InOpen

\* Steps that leave handles and claims alone, between calls or at their ends.
LEMMA HandlesKept ==
    ASSUME Handles, UNCHANGED <<nopen, mode, owner, usb>>,
           pc \notin InOpen \ {"usb_open"}, pc' \notin InOpen \ {"usb_open"}
    PROVE  Handles'
BY DEF Handles, InOpen

LEMMA WorldHandles ==
    ASSUME TypeOK, Handles, Environment
    PROVE  Handles'
<1>1. UNCHANGED <<nopen, mode, usb, pc, cur, ifc>>
  BY DEF Environment, Plug, Unplug, OtherProcess, devvars, store, attach
<1>2. CASE UNCHANGED owner
  BY <1>1, <1>2 DEF Handles
<1>3. ASSUME NEW i \in Iface, OtherProcess(i) PROVE Handles'
  <2>1. PICK o \in {Free, Other} : owner' = [owner EXCEPT ![i] = o] /\ owner[i] \in {Free, Other}
    BY <1>3 DEF OtherProcess
  <2>2. \A k \in Iface : owner'[k] = IF k = i THEN o ELSE owner[k]
    BY <2>1 DEF TypeOK
  <2>3. \A k \in Iface : owner'[k] = Cur <=> owner[k] = Cur
    BY <2>1, <2>2, OwnersDistinct
  <2>4. \A d \in Dev, k \in Iface : owner'[k] = d <=> owner[k] = d
    BY <2>1, <2>2, OwnersDistinct
  <2>5. \A x : owner[x] = Cur /\ x # i => owner'[x] = Cur
    <3>1. owner \in [Iface -> Owner]
      BY DEF TypeOK
    <3>2. CASE i \in Iface
      BY <2>1, <2>2, <3>1
    <3> QED
      BY <3>2
  <2> QED
    BY <1>1, <2>1, <2>3, <2>4, <2>5, OwnersDistinct DEF Handles
<1> QED
  BY <1>2, <1>3 DEF Environment, Plug, Unplug

LEMMA ProbeHandles ==
    ASSUME TypeOK, Tables, Handles, NEW u \in Usb, ProbeUsb(u)
    PROVE  Handles'
<1>1. pc = "detect" /\ UNCHANGED <<nopen, mode, owner, pc>>
  BY DEF ProbeUsb, world
<1>2. CASE UNCHANGED usb
  BY <1>1, <1>2, HandlesKept DEF InOpen
<1>3. CASE usb' = [usb EXCEPT ![nalloc + 1] = u]
  <2>1. \A d \in Dev : mode[d] = "READ" => usb'[d] = usb[d]
    BY <1>3 DEF TypeOK, Tables
  <2> QED
    BY <1>1, <2>1 DEF Handles, InOpen
<1> QED
  BY <1>2, <1>3 DEF ProbeUsb, devvars

\* The loop moves on to interface j when the ones before it are claimed.
LEMMA NextIfaceHandles ==
    ASSUME TypeOK, Bound, TypeOK', NEW j \in Nat, NextIface(j), pc \in InOpen,
           UNCHANGED <<nopen, mode, usb, cur>>,
           \A d \in Dev : nopen[d] = IF mode[d] = "READ" THEN 1 ELSE 0,
           \A i \in Iface : owner'[i] = Cur => i[1] = usb[cur],
           \A d \in Dev, i \in Iface : owner'[i] = d <=> mode[d] = "READ" /\ i[1] = usb[d],
           \A k \in 0..(j - 1) : owner'[<<usb[cur], k>>] = Cur
    PROVE  Handles'
<1>1. usb[cur] \in Usb /\ NumIfaces[usb[cur]] \in Nat
  BY NumIfacesAssumption DEF Bound
<1>2. CASE j < NumIfaces[usb[cur]] /\ pc' = "detach" /\ ifc' = j
  BY <1>2 DEF Handles, InOpen
<1>3. CASE j >= NumIfaces[usb[cur]] /\ pc' \in {"attach", "close"}
  <2>1. \A k \in 0..(NumIfaces[usb[cur]] - 1) : owner'[<<usb[cur], k>>] = Cur
    BY <1>1, <1>3
  <2> QED
    BY <1>3, <2>1 DEF Handles, InOpen
<1> QED
  BY <1>2, <1>3 DEF NextIface

LEMMA UsbOpenHandles ==
    ASSUME TypeOK, Bound, TypeOK', Handles, UsbOpen
    PROVE  Handles'
<1>1. /\ pc = "usb_open" /\ pc \in InOpen
      /\ UNCHANGED <<nopen, mode, owner, usb>>
  BY DEF UsbOpen, InOpen, devvars, store, world
<1>2. CASE pc' \in {"wild", "idle"}
  BY <1>1, <1>2, HandlesKept DEF InOpen
<1>3. CASE NextIface(0) /\ UNCHANGED cur
  <2>1. \A i \in Iface : owner'[i] # Cur
    BY <1>1 DEF Handles
  <2> QED
    BY <1>1, <1>3, <2>1, NextIfaceHandles DEF Handles
<1> QED
  BY <1>2, <1>3 DEF UsbOpen, Return

LEMMA DetachHandles ==
    ASSUME TypeOK, Bound, Handles, Detach
    PROVE  Handles'
<1>1. /\ pc = "detach" /\ pc' \in {"claim", "close"}
      /\ UNCHANGED <<nopen, mode, usb, cur, ifc>>
  BY DEF Detach, devvars, store, attach
<1>2. CASE UNCHANGED owner
  BY <1>1, <1>2 DEF Handles, InOpen
<1>3. CASE /\ owner[<<usb[cur], ifc>>] = Kernel
           /\ owner' = [owner EXCEPT ![<<usb[cur], ifc>>] = Free]
  <2> DEFINE f == <<usb[cur], ifc>>
  <2>1. f \in Iface
    BY <1>1, IfaceFacts, NumIfacesAssumption DEF Handles, Bound, InOpen, TypeOK
  <2>2. \A k \in Iface : owner'[k] = IF k = f THEN Free ELSE owner[k]
    BY <1>3 DEF TypeOK
  <2> HIDE DEF f
  <2>3. owner[f] = Kernel /\ owner'[f] = Free
    BY <1>3, <2>1, <2>2 DEF f
  <2>4. \A k \in Iface : owner'[k] = Cur <=> owner[k] = Cur
    BY <2>2, <2>3, OwnersDistinct
  <2>5. \A d \in Dev, k \in Iface : owner'[k] = d <=> owner[k] = d
    BY <2>2, <2>3, OwnersDistinct
  <2>6. ifc \in Nat /\ usb[cur] \in Usb /\ NumIfaces[usb[cur]] \in Nat
    BY <1>1, NumIfacesAssumption DEF TypeOK, Bound, InOpen
  <2>7. \A j \in 0..(ifc - 1) : <<usb[cur], j>> \in Iface
    BY <1>1, <2>6, IfaceFacts DEF Handles
  <2> QED
    BY <1>1, <2>4, <2>5, <2>6, <2>7 DEF Handles, InOpen
<1> QED
  BY <1>2, <1>3 DEF Detach

LEMMA ClaimHandles ==
    ASSUME TypeOK, Bound, TypeOK', Handles, Claim
    PROVE  Handles'
<1>1. /\ pc = "claim" /\ pc \in InOpen
      /\ UNCHANGED <<nopen, mode, usb, cur>>
  BY DEF Claim, InOpen, devvars, store
<1>2. CASE UNCHANGED <<owner, ifc>> /\ pc' \in {"sleep", "close"}
  BY <1>1, <1>2 DEF Handles, InOpen
<1>3. CASE /\ owner[<<usb[cur], ifc>>] = Free
           /\ owner' = [owner EXCEPT ![<<usb[cur], ifc>>] = Cur]
           /\ NextIface(ifc + 1)
  <2> DEFINE f == <<usb[cur], ifc>>
  <2>1. f \in Iface /\ f[1] = usb[cur]
    BY <1>1, IfaceFacts, NumIfacesAssumption DEF Handles, Bound, InOpen, TypeOK
  <2>2. \A k \in Iface : owner'[k] = IF k = f THEN Cur ELSE owner[k]
    BY <1>3 DEF TypeOK
  <2>3. ifc \in Nat /\ usb[cur] \in Usb /\ NumIfaces[usb[cur]] \in Nat
    BY <1>1, NumIfacesAssumption DEF TypeOK, Bound
  <2>4. \A j \in 0..((ifc + 1) - 1) : owner'[<<usb[cur], j>>] = Cur
    <3> SUFFICES ASSUME NEW j \in 0..((ifc + 1) - 1) PROVE owner'[<<usb[cur], j>>] = Cur
      OBVIOUS
    <3>1. CASE j = ifc
      BY <2>1, <2>2, <3>1
    <3>2. CASE j # ifc
      <4>1. j \in 0..(ifc - 1)
        BY <2>3, <3>2
      <4>2. <<usb[cur], j>> \in Iface
        BY <1>1, <2>3, <4>1, IfaceFacts DEF Handles
      <4>3. owner[<<usb[cur], j>>] = Cur
        BY <1>1, <4>1 DEF Handles
      <4> QED
        BY <2>2, <4>2, <4>3
    <3> QED
      BY <3>1, <3>2
  <2> HIDE DEF f
  <2>5. owner[f] = Free
    BY <1>3 DEF f
  <2>6. \A i \in Iface : owner'[i] = Cur => i[1] = usb[cur]
    BY <1>1, <2>1, <2>2 DEF Handles
  <2>7. \A d \in Dev, k \in Iface : owner'[k] = d <=> owner[k] = d
    BY <2>2, <2>5, OwnersDistinct
  <2>8. ifc + 1 \in Nat
    BY <2>3
  <2> QED
    BY <1>1, <1>3, <2>4, <2>6, <2>7, <2>8, NextIfaceHandles DEF Handles
<1> QED
  BY <1>2, <1>3 DEF Claim

LEMMA UsbCloseHandles ==
    ASSUME TypeOK, Handles, UsbClose
    PROVE  Handles'
<1>1. /\ pc' = "idle"
      /\ UNCHANGED <<nopen, mode, usb>>
      /\ owner' = [i \in Iface |-> IF owner[i] = Cur THEN Free ELSE owner[i]]
  BY DEF UsbClose, Closed, Return, devvars, store
<1>2. \A i \in Iface : owner'[i] # Cur
  BY <1>1, OwnersDistinct
<1>3. \A d \in Dev, i \in Iface : owner'[i] = d <=> owner[i] = d
  BY <1>1, OwnersDistinct
<1> QED
  BY <1>1, <1>2, <1>3 DEF Handles

\* The device that is handed out becomes the owner of what its open claimed.
LEMMA ValidateHandles ==
    ASSUME TypeOK, Bound, Tables, Handles, HasInterfaces, Validate
    PROVE  Handles'
<1>1. /\ pc = "validate" /\ cur \in Dev
      /\ UNCHANGED usb
      /\ usb[cur] \in Usb /\ NumIfaces[usb[cur]] \in Nat
  BY ValidateEffects, MaxDevAssumption, NumIfacesAssumption
     DEF devvars, TypeOK, Bound, InOpen, Dev
<1>2. /\ owner' = [i \in Iface |-> IF owner[i] = Cur THEN cur ELSE owner[i]]
      /\ nopen' = [nopen EXCEPT ![cur] = @ + 1]
      /\ mode' = [mode EXCEPT ![cur] = "READ"]
      /\ pc' = "idle"
  BY ValidateTables DEF LeaveOpen, Return
<1>3. mode[cur] = "UPDATE" /\ nopen[cur] = 0
  <2>1. mode[cur] = "UPDATE"
    BY <1>1, ClaimedIsFresh
  <2> QED
    BY <1>1, <2>1 DEF Handles
<1>4. \A d \in Dev : /\ nopen'[d] = IF d = cur THEN 1 ELSE nopen[d]
                     /\ mode'[d] = IF d = cur THEN "READ" ELSE mode[d]
  BY <1>1, <1>2, <1>3 DEF TypeOK
<1>5. \A d \in Dev : nopen'[d] = IF mode'[d] = "READ" THEN 1 ELSE 0
  BY <1>3, <1>4 DEF Handles
<1>6. \A i \in Iface : owner[i] = Cur <=> i[1] = usb[cur]
  <2>1. ASSUME NEW i \in Iface, i[1] = usb[cur] PROVE owner[i] = Cur
    <3>1. i[2] \in 0..(NumIfaces[usb[cur]] - 1) /\ i = <<usb[cur], i[2]>>
      BY <2>1, IfaceFacts
    <3>2. owner[<<usb[cur], i[2]>>] = Cur
      BY <1>1, <3>1 DEF Handles
    <3> QED
      BY <3>1, <3>2
  <2> QED
    BY <2>1 DEF Handles
<1>7. ASSUME NEW d \in Dev, NEW i \in Iface
      PROVE  owner'[i] = d <=> mode'[d] = "READ" /\ i[1] = usb'[d]
  <2>1. owner'[i] = IF i[1] = usb[cur] THEN cur ELSE owner[i]
    BY <1>2, <1>6
  <2>2. CASE d = cur
    <3>1. owner[i] # cur
      BY <1>1, <1>3 DEF Handles
    <3> QED
      BY <1>1, <1>4, <2>1, <2>2, <3>1
  <2>3. CASE d # cur
    <3>1. usb[d] = usb[cur] => mode[d] # "READ"
      BY <1>1, ClaimedIsFresh
    <3> QED
      BY <1>1, <1>4, <2>1, <2>3, <3>1 DEF Handles
  <2> QED
    BY <2>2, <2>3
<1>8. \A i \in Iface : owner'[i] # Cur
  BY <1>1, <1>2, OwnersDistinct
<1> QED
  BY <1>2, <1>5, <1>7, <1>8 DEF Handles

LEMMA HandlesNext ==
    TypeOK /\ TypeOK' /\ Bound /\ Tables /\ Handles /\ HasInterfaces /\ [Next]_vars => Handles'
<1> SUFFICES ASSUME TypeOK, TypeOK', Bound, Tables, Handles, HasInterfaces, [Next]_vars
             PROVE  Handles'
  OBVIOUS
<1>1. CASE Environment
  BY <1>1, WorldHandles
<1>2. CASE Start \/ Detect \/ Stop \/ (\E u \in Usb : Open(u)) \/ \E d \in Dev : Close(d)
  <2>1. /\ UNCHANGED <<nopen, mode, owner, usb>>
        /\ pc = "idle" /\ pc' \in {"idle", "detect", "usb_open"}
    BY <1>2 DEF Start, Detect, BeginDetect, Stop, Open, Close, Held, devvars, store, world
  <2> QED
    BY <2>1, HandlesKept DEF InOpen
<1>3. CASE \E u \in Usb : ProbeUsb(u)
  BY <1>3, ProbeHandles
<1>4. CASE DetectDone
  <2>1. UNCHANGED <<nopen, mode, owner, usb>> /\ pc = "detect" /\ pc' = "idle"
    BY <1>4 DEF DetectDone, devvars, store, world
  <2> QED
    BY <2>1, HandlesKept DEF InOpen
<1>5. CASE UsbOpen
  BY <1>5, UsbOpenHandles
<1>6. CASE Detach
  BY <1>6, DetachHandles
<1>7. CASE Claim
  BY <1>7, ClaimHandles
<1>0s. CASE Sleep
  <2>1. /\ UNCHANGED <<nopen, mode, owner, usb, cur, ifc>>
        /\ pc = "sleep" /\ pc' \in {"claim", "close"}
    BY <1>0s DEF Sleep, AfterBusy, devvars, world, store
  <2> QED
    BY <2>1 DEF Handles, InOpen
<1>8. CASE UsbClose
  BY <1>8, UsbCloseHandles
<1>9. CASE AttachGotemp \/ AttachTemper
  <2>1. /\ UNCHANGED <<nopen, mode, owner, usb, cur>>
        /\ pc = "attach" /\ pc' \in {"validate", "close"}
    BY <1>9, AttachEffects DEF devvars, world, attach
  <2> QED
    BY <2>1 DEF Handles, InOpen
<1>10. CASE Validate
  BY <1>10, ValidateHandles
<1>11. CASE (\E d \in Dev : GetReading(d))
            \/ \E d \in Dev, k \in ClientKeys, v \in ClientValues : SetProp(d, k, v)
  <2>1. /\ UNCHANGED <<nopen, mode, owner, usb>>
        /\ pc = "idle" /\ pc' \in {"idle", "wild", "aborted"}
    BY <1>11 DEF GetReading, SetProp, Held, devvars, world
  <2> QED
    BY <2>1, HandlesKept DEF InOpen
<1>12. CASE UNCHANGED vars
  BY <1>12 DEF vars, Handles, devvars, store, world, attach
<1> QED
  BY <1>1, <1>2, <1>3, <1>4, <1>5, <1>6, <1>7, <1>0s, <1>8, <1>9, <1>10, <1>11, <1>12
     DEF Next, Client, Library

LEMMA HandlesHold ==
    ASSUME HasInterfaces
    PROVE  Spec => [](TypeOK /\ Bound /\ Tables /\ Handles)
<1>1. /\ TypeOK /\ Bound /\ Tables /\ Handles /\ [Next]_vars
      => (TypeOK /\ Bound /\ Tables /\ Handles)'
  BY TypeNext, TablesNext, HandlesNext
<1>2. Init => TypeOK /\ Bound /\ Tables /\ Handles
  BY TypeInit, TablesInit, HandlesInit
<1> QED
  BY <1>1, <1>2, PTL DEF Spec

\* No open leaves a handle or a claim behind unless it succeeds, for any number
\* of devices, interfaces and other processes.  (usense.c:377-400)
THEOREM HandlesAreOwned ==
    ASSUME HasInterfaces
    PROVE  Spec => []HandlesOwned
<1>1. Handles => HandlesOwned
  BY DEF Handles, HandlesOwned, InOpen
<1> QED
  BY <1>1, HandlesHold, PTL

\* Two opened devices are never the same hardware, however often it is listed.
THEOREM OneUserEach ==
    ASSUME HasInterfaces
    PROVE  Spec => []SoleUser
<1>1. TypeOK /\ Bound /\ Tables /\ Handles => SoleUser
  <2> SUFFICES ASSUME TypeOK, Bound, Tables, Handles, NEW d \in Dev, NEW e \in Dev,
                      mode[d] = "READ", mode[e] = "READ", usb[d] = usb[e]
               PROVE  d = e
    BY DEF SoleUser
  <2>1. usb[d] \in Usb
    BY DEF Tables, Bound
  <2>2. 0 \in 0..(NumIfaces[usb[d]] - 1)
    BY <2>1, NumIfacesAssumption DEF HasInterfaces
  <2>3. <<usb[d], 0>> \in Iface
    BY <2>1, <2>2, IfaceFacts
  <2>4. owner[<<usb[d], 0>>] = d /\ owner[<<usb[d], 0>>] = e
    BY <2>3 DEF Handles
  <2> QED
    BY <2>4
<1> QED
  BY <1>1, HandlesHold, PTL

\* No driver is attached to a device that is open already.
THEOREM AttachesAreFresh ==
    ASSUME HasInterfaces
    PROVE  Spec => []FreshAttach
<1>1. TypeOK /\ Bound /\ Handles => FreshAttach
  <2> SUFFICES ASSUME TypeOK, Bound, Handles, pc \in {"attach", "validate"}
               PROVE  mode[cur] = "UPDATE" /\ nopen[cur] = 0
    BY DEF FreshAttach
  <2>1. cur \in Dev
    BY MaxDevAssumption DEF TypeOK, Bound, InOpen, Dev
  <2>2. mode[cur] = "UPDATE"
    BY <2>1, ClaimedIsFresh
  <2> QED
    BY <2>1, <2>2 DEF Handles
<1> QED
  BY <1>1, HandlesHold, PTL

-----------------------------------------------------------------------------
(* Use after free.                                                         *)

\* A listed device was plugged in once; libusb keeps its structure until a scan
\* after it was unplugged.  Only listed devices are opened.
Links ==
    /\ \A d \in listed : /\ plug[usb[d]] # "out"
                         /\ usb[d] \in known \/ plug[usb[d]] = "gone"
    /\ \A u \in todo : u \in known /\ plug[u] # "out"
    /\ pc = "usb_open" => cur \in listed
    /\ WildOnlyIfGone

LEMMA LinksInit == Init => Links
BY DEF Init, Links, WildOnlyIfGone

\* Steps that leave the list and the world alone and start no open.
LEMMA LinksKept ==
    ASSUME Links, UNCHANGED <<listed, usb, plug, known, todo>>,
           pc' \notin {"usb_open", "wild"}
    PROVE  Links'
BY DEF Links, WildOnlyIfGone

LEMMA WorldLinks ==
    ASSUME TypeOK, Bound, Links, Environment
    PROVE  Links'
<1>1. UNCHANGED <<listed, usb, known, todo, pc, cur>>
  BY DEF Environment, Plug, Unplug, OtherProcess, devvars, attach
<1>2. /\ \A u \in Usb : plug[u] # "out" => plug'[u] # "out"
      /\ \A u \in Usb : plug[u] = "gone" => plug'[u] = "gone"
  <2>1. ASSUME NEW u \in Usb, Plug(u) \/ Unplug(u)
        PROVE  /\ plug[u] # "gone"
               /\ \E x \in {"in", "gone"} : plug' = [plug EXCEPT ![u] = x]
    BY <2>1 DEF Plug, Unplug
  <2>2. CASE \E u \in Usb : Plug(u) \/ Unplug(u)
    BY <2>1, <2>2 DEF TypeOK
  <2>3. CASE UNCHANGED plug
    BY <2>3
  <2> QED
    BY <2>2, <2>3 DEF Environment, OtherProcess
<1>3. \A d \in listed : usb[d] \in Usb
  BY DEF TypeOK, Bound
<1>4. todo \subseteq Usb
  BY DEF TypeOK
<1>5. pc = "wild" /\ cur # 0 => usb[cur] \in Usb
  <2> SUFFICES ASSUME cur # 0 PROVE usb[cur] \in Usb
    OBVIOUS
  <2>1. cur \in 1..nalloc
    BY DEF TypeOK
  <2> QED
    BY <2>1 DEF Bound
<1> QED
  BY <1>1, <1>2, <1>3, <1>4, <1>5 DEF Links, WildOnlyIfGone

LEMMA DetectLinks ==
    ASSUME TypeOK, Bound, Links, BeginDetect
    PROVE  Links'
<1>1. /\ known' = Plugged /\ todo' = Plugged /\ pc' = "detect"
      /\ UNCHANGED <<listed, usb, plug>>
  BY DEF BeginDetect, devvars
<1>2. \A d \in listed : usb[d] \in Usb
  BY DEF TypeOK, Bound
<1>3. \A d \in listed : usb[d] \in Plugged \/ plug[usb[d]] = "gone"
  BY <1>2 DEF Links, Plugged, TypeOK
<1> QED
  BY <1>1, <1>3 DEF Links, Plugged, WildOnlyIfGone

LEMMA ProbeLinks ==
    ASSUME TypeOK, Bound, Links, NEW u \in Usb, ProbeUsb(u)
    PROVE  Links'
<1>1. /\ pc = "detect" /\ pc' = "detect" /\ u \in todo /\ todo' = todo \ {u}
      /\ UNCHANGED <<plug, known>>
  BY DEF ProbeUsb, world
<1>2. CASE UNCHANGED <<listed, usb>>
  BY <1>1, <1>2 DEF Links, WildOnlyIfGone
<1>3. CASE /\ nalloc < MaxDev
           /\ listed' = listed \cup {nalloc + 1}
           /\ usb' = [usb EXCEPT ![nalloc + 1] = u]
  <2>1. nalloc + 1 \in Dev /\ nalloc + 1 \notin listed
    BY <1>3, MaxDevAssumption DEF TypeOK, Dev
  <2>2. usb'[nalloc + 1] = u
    BY <1>3, <2>1 DEF TypeOK
  <2>3. \A d \in listed : usb'[d] = usb[d]
    BY <1>3, <2>1
  <2> QED
    BY <1>1, <1>3, <2>2, <2>3 DEF Links, WildOnlyIfGone
<1> QED
  BY <1>2, <1>3 DEF ProbeUsb, devvars

LEMMA OpenLinks ==
    ASSUME Links, NEW u \in Usb, Open(u)
    PROVE  Links'
<1>1. UNCHANGED <<listed, usb, plug, known, todo>> /\ pc = "idle"
  BY DEF Open, devvars, world
<1>2. pc' = "idle" \/ (pc' = "usb_open" /\ cur' \in listed)
  BY DEF Open, Named
<1> QED
  BY <1>1, <1>2 DEF Links, WildOnlyIfGone

LEMMA UsbOpenLinks ==
    ASSUME TypeOK, Links, UsbOpen
    PROVE  Links'
<1>1. UNCHANGED <<listed, usb, plug, known, todo>> /\ pc = "usb_open"
  BY DEF UsbOpen, devvars, world
<1>2. CASE usb[cur] \notin known /\ pc' = "wild" /\ UNCHANGED cur
  <2>1. cur \in listed /\ cur # 0
    BY <1>1 DEF Links, TypeOK
  <2> QED
    BY <1>1, <1>2, <2>1 DEF Links, WildOnlyIfGone
<1>3. CASE pc' \notin {"usb_open", "wild"}
  BY <1>1, <1>3, LinksKept
<1>4. \/ usb[cur] \notin known /\ pc' = "wild" /\ UNCHANGED cur
      \/ pc' \notin {"usb_open", "wild"}
  BY DEF UsbOpen, Return, NextIface
<1> QED
  BY <1>2, <1>3, <1>4

LEMMA LinksNext ==
    TypeOK /\ Bound /\ Tables /\ Links /\ [Next]_vars => Links'
<1> SUFFICES ASSUME TypeOK, Bound, Tables, Links, [Next]_vars PROVE Links'
  OBVIOUS
<1>1. CASE Environment
  BY <1>1, WorldLinks
<1>2. CASE Start \/ Detect
  BY <1>2, DetectLinks DEF Start, Detect
<1>3. CASE \E u \in Usb : ProbeUsb(u)
  BY <1>3, ProbeLinks
<1>4. CASE \E u \in Usb : Open(u)
  BY <1>4, OpenLinks
<1>5. CASE UsbOpen
  BY <1>5, UsbOpenLinks
<1>6. CASE DetectDone \/ Detach \/ Claim \/ Sleep \/ UsbClose \/ \E d \in Dev : Close(d)
  <2>1. UNCHANGED <<listed, usb, plug, known, todo>> /\ pc' \notin {"usb_open", "wild"}
    BY <1>6 DEF DetectDone, Detach, Claim, Sleep, AfterBusy, UsbClose, Close, Held, Return,
                NextIface, devvars, world
  <2> QED
    BY <2>1, LinksKept
<1>7. CASE AttachGotemp \/ AttachTemper
  <2>1. UNCHANGED <<listed, usb, plug, known, todo>>
    BY <1>7 DEF AttachGotemp, AttachTemper, devvars, world
  <2>2. pc' \notin {"usb_open", "wild"}
    BY <1>7, AttachEffects
  <2> QED
    BY <2>1, <2>2, LinksKept
<1>8. CASE Validate
  <2>1. /\ UNCHANGED <<listed, usb, plug, known, todo>>
        /\ pc' = "aborted" \/ LeaveOpen("NULL") \/ LeaveOpen("dev")
    BY <1>8, ValidateEffects DEF devvars
  <2>2. pc' \notin {"usb_open", "wild"}
    BY <2>1 DEF LeaveOpen, Return
  <2> QED
    BY <2>1, <2>2, LinksKept
<1>9. CASE \E d \in Dev : GetReading(d)
  <2>1. PICK d \in Dev : GetReading(d)
    BY <1>9
  <2>2. pc = "idle" /\ priv[d]
    BY <2>1 DEF GetReading, Held, Tables
  <2>3. UNCHANGED <<listed, usb, plug, known, todo>> /\ pc' \notin {"usb_open", "wild"}
    BY <2>1, <2>2 DEF GetReading, devvars, world
  <2> QED
    BY <2>3, LinksKept
<1>10. CASE \E d \in Dev, k \in ClientKeys, v \in ClientValues : SetProp(d, k, v)
  <2>1. UNCHANGED <<listed, usb, plug, known, todo>> /\ pc' \notin {"usb_open", "wild"}
    BY <1>10 DEF SetProp, Held, devvars, world
  <2> QED
    BY <2>1, LinksKept
<1>11. CASE Stop
  BY <1>11 DEF Stop, Links, WildOnlyIfGone, world
<1>12. CASE UNCHANGED vars
  BY <1>12 DEF vars, Links, WildOnlyIfGone, devvars, world, attach
<1> QED
  BY <1>1, <1>2, <1>3, <1>4, <1>5, <1>6, <1>7, <1>8, <1>9, <1>10, <1>11, <1>12
     DEF Next, Client, Library

\* Freed memory is used only to open a device that was unplugged before the last
\* scan, for any number of devices, scans and opens.
THEOREM WildOnlyAfterUnplug == Spec => []WildOnlyIfGone
<1>1. TypeOK /\ Bound /\ Tables /\ Links /\ [Next]_vars => (TypeOK /\ Bound /\ Tables /\ Links)'
  BY TypeNext, TablesNext, LinksNext
<1>2. Init => TypeOK /\ Bound /\ Tables /\ Links
  BY TypeInit, TablesInit, LinksInit
<1>3. Links => WildOnlyIfGone
  BY DEF Links
<1> QED
  BY <1>1, <1>2, <1>3, PTL DEF Spec

=============================================================================
