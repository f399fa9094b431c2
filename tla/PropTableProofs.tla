-------------------------- MODULE PropTableProofs ---------------------------
(***************************************************************************)
(* Proofs about PropTable, for any keys and values the clients try and any *)
(* readings: the array stays sorted, the pointer that usense_prop_get()    *)
(* holds across update() stays good, and the array implements the map of   *)
(* PropStore.                                                              *)
(***************************************************************************)
EXTENDS PropTable, SequenceTheorems, TLAPS

-----------------------------------------------------------------------------
(* Constants.                                                              *)

\* The keys are numbers, the values strings the buffers can hold.
LEMMA KeysAndValues ==
    /\ Key \subseteq Nat
    /\ Absent \notin Value /\ TooLong \notin Value
    /\ End \notin Key
BY KeysAssumption, ValuesAssumption
   DEF Key, Value, Drivers, Absent, TooLong, End

Calls == [op : {"set"}, key : Key, val : Value]
         \cup [op : {"get", "update"}, key : Key, val : {Absent}]

LEMMA NamedKeys ==
    {TemperResolution, CalibrateAdd, CalibrateMult, Device, Name, Reading, Type,
     Units, UsbProduct, UsbVendor} \subseteq Key
BY DEF Key, TemperResolution, CalibrateAdd, CalibrateMult, Device, Name, Reading,
       Type, Units, UsbProduct, UsbVendor

LEMMA NamedValues ==
    {"0.0", "1.0", "unknown", "id", "usb:001.2", "12", "temp", "C"} \cup Drivers
        \subseteq Value
BY DEF Value, Drivers

\* Every call of the script is about a key of the table, and sets it to a value.
LEMMA CallTypes ==
    /\ \A k \in Key, v \in Value : DoSet(k, v) \in Calls
    /\ \A k \in Key : DoGet(k) \in Calls
    /\ DoUpdate \in Calls
BY NamedKeys DEF Calls, DoSet, DoGet, DoUpdate

LEMMA CreatedType == Created \in Seq(Calls) /\ Len(Created) = 6
<1> DEFINE A == DoSet(CalibrateAdd, "0.0")
           B == DoSet(CalibrateMult, "1.0")
           C == DoSet(Reading, "unknown")
           D == DoSet(Name, "usb:001.2")
           E == DoSet(UsbVendor, "id")
           F == DoSet(UsbProduct, "id")
<1>1. {A, B, C, D, E, F} \subseteq Calls
  BY CallTypes, NamedKeys, NamedValues
<1>2. Created = <<A, B, C, D, E, F>>
  BY DEF Created
<1> HIDE DEF A, B, C, D, E, F
<1> QED BY <1>1, <1>2

LEMMA AttachedType ==
    ASSUME NEW d \in Drivers
    PROVE  Attached(d) \in Seq(Calls)
<1> DEFINE R == DoSet(TemperResolution, "12")
           A == DoSet(Device, d)
           B == DoSet(Type, "temp")
           U == DoUpdate
<1>1. {R, A, B, U} \subseteq Calls
  BY CallTypes, NamedKeys, NamedValues
<1>2. Attached(d) \in {<<A, B, U, U>>, <<R, A, B, U>>, <<A, B, U>>}
  BY DEF Attached, Drivers
<1> HIDE DEF R, A, B, U
<1>3. CASE Attached(d) = <<A, B, U, U>> BY <1>1, <1>3
<1>4. CASE Attached(d) = <<R, A, B, U>> BY <1>1, <1>4
<1>5. CASE Attached(d) = <<A, B, U>> BY <1>1, <1>5
<1> QED BY <1>2, <1>3, <1>4, <1>5

LEMMA ValidatedType == Validated \in Seq(Calls)
<1> DEFINE S == DoSet(Units, "C")
           T == DoGet(Type)
           D == DoGet(Device)
           U == DoGet(Units)
           R == DoGet(Reading)
           N == DoGet(Name)
           A == DoGet(CalibrateAdd)
           M == DoGet(CalibrateMult)
           V == DoGet(UsbVendor)
           P == DoGet(UsbProduct)
<1>1. {S, T, D, U, R, N, A, M, V, P} \subseteq Calls
  BY CallTypes, NamedKeys, NamedValues
<1>2. Validated = <<T, S, D, T, U, R, N, A, M, V, P>>
  BY DEF Validated
<1> HIDE DEF S, T, D, U, R, N, A, M, V, P
<1> QED BY <1>1, <1>2

LEMMA ScriptType ==
    ASSUME driver \in Drivers
    PROVE  /\ Script \in Seq(Calls)
           /\ Len(Created) = 6
           /\ Len(Script) \in Nat
           /\ Len(Created) <= Len(Script)
<1>1. /\ Created \in Seq(Calls) /\ Len(Created) = 6
      /\ Attached(driver) \in Seq(Calls)
      /\ Validated \in Seq(Calls)
  BY CreatedType, AttachedType, ValidatedType
<1>2. /\ Created \o Attached(driver) \in Seq(Calls)
      /\ Len(Created \o Attached(driver)) = Len(Created) + Len(Attached(driver))
  BY <1>1, ConcatProperties
<1>3. /\ Script \in Seq(Calls)
      /\ Len(Script) = Len(Created) + Len(Attached(driver)) + Len(Validated)
  BY <1>1, <1>2, ConcatProperties DEF Script
<1>4. Len(Attached(driver)) \in Nat /\ Len(Validated) \in Nat
  BY <1>1, LenProperties
<1> QED BY <1>1, <1>3, <1>4

-----------------------------------------------------------------------------
(* The array and the map it stands for.                                    *)

\* In a sorted array an index is the only one with its key.
LEMMA OneIndex ==
    ASSUME NEW a, NEW i \in 1..Len(a), NEW j \in 1..Len(a),
           a \in Seq(Entry), Sorted(a), KeyAt(a, i) = KeyAt(a, j)
    PROVE  i = j
<1>1. KeyAt(a, i) \in Nat /\ KeyAt(a, j) \in Nat
  <2>1. a[i] \in Entry /\ a[j] \in Entry
    BY LenProperties
  <2> QED BY <2>1, KeysAndValues DEF Entry, KeyAt
<1>2. Len(a) \in Nat
  BY LenProperties
<1>3. CASE i < j BY <1>1, <1>2, <1>3 DEF Sorted
<1>4. CASE j < i BY <1>1, <1>2, <1>4 DEF Sorted
<1> QED BY <1>2, <1>3, <1>4

\* The map with the value of k changed.
Changed(a, k, v) == [StoreOf(a) EXCEPT ![k] = v]

LEMMA ChangedHere ==
    ASSUME NEW a, NEW k \in Key, NEW v \in Value
    PROVE  Changed(a, k, v)[k] = v
<1>1. DOMAIN StoreOf(a) = Key
  BY DEF StoreOf
<1> QED BY <1>1 DEF Changed

LEMMA ChangedElsewhere ==
    ASSUME NEW a, NEW k \in Key, NEW v \in Value, NEW x \in Key \ {k}
    PROVE  Changed(a, k, v)[x] = StoreOf(a)[x]
<1>1. DOMAIN StoreOf(a) = Key
  BY DEF StoreOf
<1> QED BY <1>1 DEF Changed

LEMMA StoreHit ==
    ASSUME NEW a, NEW j \in 1..Len(a), a \in Seq(Entry), Sorted(a)
    PROVE  /\ KeyAt(a, j) \in Key
           /\ Has(a, KeyAt(a, j))
           /\ StoreOf(a)[KeyAt(a, j)] = a[j][2]
           /\ a[j][2] \in Value
<1> DEFINE i == CHOOSE n \in 1..Len(a) : KeyAt(a, n) = KeyAt(a, j)
<1>1. i \in 1..Len(a) /\ KeyAt(a, i) = KeyAt(a, j)
  OBVIOUS
<1>2. i = j
  <2> HIDE DEF i
  <2> QED BY <1>1, OneIndex
<1>3. a[j] \in Entry
  OBVIOUS
<1>4. KeyAt(a, j) \in Key /\ a[j][2] \in Value
  BY <1>3 DEF KeyAt, Entry
<1>5. Has(a, KeyAt(a, j))
  BY DEF Has
<1>6. StoreOf(a)[KeyAt(a, j)] = a[i][2]
  BY <1>4, <1>5 DEF StoreOf
<1> QED BY <1>2, <1>4, <1>5, <1>6

LEMMA StoreMiss ==
    ASSUME NEW a, NEW k \in Key, ~Has(a, k)
    PROVE  StoreOf(a)[k] = Absent
BY DEF StoreOf

\* The map has exactly the keys of the array.
LEMMA StoreKeys ==
    ASSUME NEW a, NEW k \in Key, a \in Seq(Entry), Sorted(a)
    PROVE  StoreOf(a)[k] # Absent <=> Has(a, k)
<1>1. CASE Has(a, k)
  <2>1. PICK j \in 1..Len(a) : KeyAt(a, j) = k
    BY <1>1 DEF Has
  <2>2. StoreOf(a)[k] \in Value
    BY <2>1, StoreHit
  <2> QED BY <1>1, <2>2, KeysAndValues
<1>2. CASE ~Has(a, k)
  BY <1>2, StoreMiss
<1> QED BY <1>1, <1>2

\* What bsearch() returns in a sorted array.
LEMMA BsearchFinds ==
    ASSUME NEW a, NEW k, NEW r \in Bsearch(a, k), Sorted(a), a \in Seq(Entry)
    PROVE  \/ r = 0 /\ ~Has(a, k)
           \/ r \in 1..Len(a) /\ KeyAt(a, r) = k
BY DEF Bsearch, Has

\* Adding a key that is not there.
LEMMA Added ==
    ASSUME NEW a, NEW k \in Key, NEW v \in Value, NEW b \in Qsort(a, <<k, v>>),
           a \in Seq(Entry), Sorted(a), ~Has(a, k)
    PROVE  /\ b \in Seq(Entry) /\ Sorted(b)
           /\ StoreOf(b) = Changed(a, k, v)
<1> DEFINE e == <<k, v>>
<1>1. PICK p \in 1..(Len(a) + 1) : b = InsertAt(a, p, e)
  BY DEF Qsort
<1>2. Sorted(b)
  BY DEF Qsort
<1>3. Len(a) \in Nat /\ \A j \in 1..Len(a) : a[j] \in Entry
  BY LenProperties
<1>4. e \in Entry
  BY DEF Entry
<1>5. \A j \in 1..(Len(a) + 1) :
        b[j] = IF j < p THEN a[j] ELSE IF j = p THEN e ELSE a[j - 1]
  BY <1>1 DEF InsertAt
<1>6. \A j \in 1..(Len(a) + 1) : b[j] \in Entry
  BY <1>3, <1>4, <1>5
<1>7. b \in Seq(Entry) /\ Len(b) = Len(a) + 1
  <2>1. b = [j \in 1..(Len(a) + 1) |-> b[j]]
    BY <1>1 DEF InsertAt
  <2>2. b \in [1..(Len(a) + 1) -> Entry]
    BY <1>6, <2>1
  <2> QED BY <2>2, <1>3, SeqDef, LenProperties
<1>8. ASSUME NEW x \in Key
      PROVE  StoreOf(b)[x] = Changed(a, k, v)[x]
  <2>1. CASE x = k
    <3>1. p \in 1..Len(b) /\ KeyAt(b, p) = k /\ b[p][2] = v
      BY <1>3, <1>5, <1>7 DEF KeyAt
    <3>2. StoreOf(b)[k] = v
      BY <3>1, <1>2, <1>7, StoreHit
    <3>3. Changed(a, k, v)[k] = v
      BY ChangedHere
    <3> QED BY <2>1, <3>2, <3>3
  <2>2. CASE x # k /\ Has(a, x)
    <3>1. PICK j \in 1..Len(a) : KeyAt(a, j) = x
      BY <2>2 DEF Has
    <3>2. StoreOf(a)[x] = a[j][2]
      BY <3>1, StoreHit
    <3>3. PICK i \in 1..Len(b) : b[i] = a[j]
      <4>1. CASE j < p
        <5>1. j \in 1..Len(b) /\ b[j] = a[j]
          BY <1>3, <1>5, <1>7, <4>1
        <5> QED BY <5>1
      <4>2. CASE j >= p
        <5>1. j + 1 \in 1..Len(b) /\ b[j + 1] = a[j]
          BY <1>3, <1>5, <1>7, <4>2
        <5> QED BY <5>1
      <4> QED BY <1>3, <4>1, <4>2
    <3>4. KeyAt(b, i) = x
      BY <3>1, <3>3 DEF KeyAt
    <3>5. StoreOf(b)[x] = b[i][2]
      BY <3>4, <1>2, <1>7, StoreHit
    <3> QED BY <2>2, <3>2, <3>3, <3>5, ChangedElsewhere
  <2>3. CASE x # k /\ ~Has(a, x)
    <3>1. ~Has(b, x)
      <4>1. SUFFICES ASSUME NEW i \in 1..Len(b), KeyAt(b, i) = x
                     PROVE  FALSE
        BY DEF Has
      <4>2. i # p
        BY <1>5, <1>7, <2>3, <4>1 DEF KeyAt
      <4>3. PICK j \in 1..Len(a) : b[i] = a[j]
        <5>1. CASE i < p
          <6>1. i \in 1..Len(a) /\ b[i] = a[i]
            BY <1>3, <1>5, <1>7, <5>1
          <6> QED BY <6>1
        <5>2. CASE i > p
          <6>1. i - 1 \in 1..Len(a) /\ b[i] = a[i - 1]
            BY <1>3, <1>5, <1>7, <5>2
          <6> QED BY <6>1
        <5> QED BY <1>3, <1>7, <4>2, <5>1, <5>2
      <4> QED BY <2>3, <4>1, <4>3 DEF KeyAt, Has
    <3> QED BY <2>3, <3>1, StoreMiss, ChangedElsewhere
  <2> QED BY <2>1, <2>2, <2>3
<1>9. StoreOf(b) = Changed(a, k, v)
  BY <1>8 DEF StoreOf, Changed
<1> QED BY <1>2, <1>7, <1>9

\* b is a with the value of k replaced.
Replaces(a, b, k, v) ==
    /\ b \in Seq(Entry) /\ Len(b) = Len(a)
    /\ \E r \in 1..Len(a) :
          /\ KeyAt(a, r) = k /\ b[r] = <<k, v>>
          /\ \A j \in 1..Len(a) : j # r => b[j] = a[j]

LEMMA Replaced ==
    ASSUME NEW a, NEW b, NEW k \in Key, NEW v \in Value,
           a \in Seq(Entry), Sorted(a), Replaces(a, b, k, v)
    PROVE  /\ b \in Seq(Entry) /\ Len(b) = Len(a)
           /\ Sorted(b)
           /\ \A j \in 1..Len(a) : KeyAt(b, j) = KeyAt(a, j)
           /\ StoreOf(b) = Changed(a, k, v)
<1>1. Len(a) \in Nat
  BY LenProperties
<1>2. b \in Seq(Entry) /\ Len(b) = Len(a)
  BY DEF Replaces
<1>3. PICK r \in 1..Len(a) :
        /\ KeyAt(a, r) = k /\ b[r] = <<k, v>>
        /\ \A j \in 1..Len(a) : j # r => b[j] = a[j]
  BY DEF Replaces
<1>4. \A j \in 1..Len(a) : KeyAt(b, j) = KeyAt(a, j)
  BY <1>3 DEF KeyAt
<1>5. Sorted(b)
  <2>1. SUFFICES ASSUME NEW i \in 1..Len(a), NEW j \in 1..Len(a), i < j
                 PROVE  KeyAt(b, i) < KeyAt(b, j)
    BY <1>2 DEF Sorted
  <2>2. KeyAt(a, i) < KeyAt(a, j)
    BY <2>1 DEF Sorted
  <2> QED BY <1>4, <2>2
<1>6. ASSUME NEW x \in Key
      PROVE  StoreOf(b)[x] = Changed(a, k, v)[x]
  <2>1. CASE ~Has(a, x)
    <3>1. ~Has(b, x)
      BY <1>2, <1>4, <2>1 DEF Has
    <3>2. x # k
      BY <1>3, <2>1 DEF Has
    <3> QED BY <2>1, <3>1, <3>2, StoreMiss, ChangedElsewhere
  <2>2. CASE Has(a, x)
    <3>1. PICK j \in 1..Len(a) : KeyAt(a, j) = x
      BY <2>2 DEF Has
    <3>2. StoreOf(b)[x] = b[j][2]
      BY <1>2, <1>4, <1>5, <3>1, StoreHit
    <3>3. StoreOf(a)[x] = a[j][2]
      BY <3>1, StoreHit
    <3>4. CASE j = r
      <4>1. x = k /\ b[j][2] = v
        BY <1>3, <3>1, <3>4
      <4>2. Changed(a, k, v)[k] = v
        BY ChangedHere
      <4> QED BY <3>2, <4>1, <4>2
    <3>5. CASE j # r
      <4>1. x # k
        BY <1>3, <3>1, <3>5, OneIndex
      <4> QED BY <1>3, <3>2, <3>3, <3>5, <4>1, ChangedElsewhere
    <3> QED BY <3>4, <3>5
  <2> QED BY <2>1, <2>2
<1>7. StoreOf(b) = Changed(a, k, v)
  BY <1>6 DEF StoreOf, Changed
<1> QED BY <1>2, <1>4, <1>5, <1>7

-----------------------------------------------------------------------------
(* The inductive invariant.                                                *)

Answers == Value \cup {"none", "changed", "same", "EINVAL", "EROFS", "ENOENT"}

\* The key a walk has reached is in the table.
CursorThere == cursor # End => Has(arr, cursor)

IInv == TypeOK /\ KeysSorted /\ HeldEntryValid /\ CursorThere

\* Keys never leave the table.
LEMMA KeysStay ==
    ASSUME NEW a, NEW b, NEW k \in Key, NEW v \in Value, NEW x \in Key,
           a \in Seq(Entry), Sorted(a), b \in Seq(Entry), Sorted(b),
           StoreOf(b) = Changed(a, k, v), Has(a, x)
    PROVE  Has(b, x)
<1>1. StoreOf(a)[x] # Absent
  BY StoreKeys
<1>2. StoreOf(b)[x] # Absent
  <2>1. CASE x = k
    <3>1. Changed(a, k, v)[k] = v BY ChangedHere
    <3> QED BY <2>1, <3>1, KeysAndValues
  <2>2. CASE x # k BY <1>1, <2>2, ChangedElsewhere
  <2> QED BY <2>1, <2>2
<1> QED BY <1>2, StoreKeys

LEMMA CursorStays ==
    ASSUME IInv, cursor' = cursor, arr' \in Seq(Entry), Sorted(arr'),
           \/ arr' = arr
           \/ \E k \in Key, v \in Value : StoreOf(arr') = Changed(arr, k, v)
    PROVE  CursorThere'
<1>1. arr \in Seq(Entry) /\ Sorted(arr) /\ cursor \in Key \cup {End} /\ CursorThere
  BY DEF IInv, TypeOK, KeysSorted
<1>2. CASE arr' = arr
  BY <1>1, <1>2 DEF CursorThere
<1>3. ASSUME NEW k \in Key, NEW v \in Value, StoreOf(arr') = Changed(arr, k, v)
      PROVE  CursorThere'
  BY <1>1, <1>3, KeysStay DEF CursorThere
<1> QED BY <1>2, <1>3

\* Any set, whoever makes it: the array stays a sorted array, entries that were
\* found before stay where they are unless a key was added, and the map changes
\* as PropStore's does.
LEMMA SetKeeps ==
    ASSUME IInv, NEW k \in Key, NEW v \in Value \cup {TooLong}, PropSet(k, v)
    PROVE  /\ arr' \in Seq(Entry) /\ Sorted(arr') /\ gen' \in Nat /\ ret' \in Answers
           /\ Has(arr, k) =>
                 /\ gen' = gen
                 /\ Len(arr') = Len(arr)
                 /\ \A j \in 1..Len(arr) : KeyAt(arr', j) = KeyAt(arr, j)
           /\ \/ /\ v \in Value /\ (mode = "UPDATE" \/ k \in AlwaysWritable)
                 /\ StoreOf(arr') = Changed(arr, k, v)
                 /\ ret' = IF StoreOf(arr)[k] = v THEN "same" ELSE "changed"
              \/ /\ arr' = arr
                 /\ ret' \in {"EINVAL", "EROFS"}
<1>1. arr \in Seq(Entry) /\ Sorted(arr) /\ gen \in Nat
  BY DEF IInv, TypeOK, KeysSorted
<1>2. CASE ~Accepts(arr, mode, k, v)
  <2>1. arr' = arr /\ gen' = gen /\ ret' \in {"EINVAL", "EROFS"}
    BY <1>2 DEF PropSet
  <2> QED BY <1>1, <2>1 DEF Answers
<1>3. CASE Accepts(arr, mode, k, v)
  <2>1. v \in Value /\ (mode = "UPDATE" \/ k \in AlwaysWritable)
    BY <1>3 DEF Accepts
  <2>2. PICK r \in Bsearch(arr, k) : Put(r, k, v)
    BY <1>3 DEF PropSet
  <2>3. \/ r = 0 /\ ~Has(arr, k)
        \/ r \in 1..Len(arr) /\ KeyAt(arr, r) = k
    BY <1>1, BsearchFinds
  <2>4. Len(arr) \in Nat
    BY <1>1, LenProperties
  <2>5. CASE r = 0
    <3>1. ~Has(arr, k)
      BY <2>3, <2>4, <2>5
    <3>2. arr' \in Qsort(arr, <<k, v>>) /\ gen' = gen + 1 /\ ret' = "changed"
      BY <2>2, <2>5 DEF Put
    <3>3. /\ arr' \in Seq(Entry) /\ Sorted(arr')
          /\ StoreOf(arr') = Changed(arr, k, v)
      BY <1>1, <2>1, <3>1, <3>2, Added
    <3>4. StoreOf(arr)[k] # v
      BY <2>1, <3>1, StoreMiss, KeysAndValues
    <3> QED BY <1>1, <2>1, <3>1, <3>2, <3>3, <3>4 DEF Answers
  <2>6. CASE r # 0
    <3>1. r \in 1..Len(arr) /\ KeyAt(arr, r) = k
      BY <2>3, <2>6
    <3>2. StoreOf(arr)[k] = arr[r][2]
      BY <1>1, <3>1, StoreHit
    <3>3. CASE arr[r][2] = v
      <4>1. arr' = arr /\ gen' = gen /\ ret' = "same"
        BY <2>2, <2>6, <3>3 DEF Put
      <4>2. StoreOf(arr') = Changed(arr, k, v)
        <5>1. \A x \in Key : StoreOf(arr)[x] = Changed(arr, k, v)[x]
          <6>1. Changed(arr, k, v)[k] = v
            BY <2>1, ChangedHere
          <6>2. SUFFICES ASSUME NEW x \in Key
                         PROVE  StoreOf(arr)[x] = Changed(arr, k, v)[x]
            OBVIOUS
          <6>3. CASE x = k BY <3>2, <3>3, <6>1, <6>3
          <6>4. CASE x # k BY <2>1, <6>4, ChangedElsewhere
          <6> QED BY <6>3, <6>4
        <5> QED BY <4>1, <5>1 DEF StoreOf, Changed
      <4> QED BY <1>1, <2>1, <3>2, <3>3, <4>1, <4>2 DEF Answers
    <3>4. CASE arr[r][2] # v
      <4>1. arr' = [arr EXCEPT ![r] = <<k, v>>] /\ gen' = gen /\ ret' = "changed"
        BY <2>2, <2>6, <3>4 DEF Put
      <4>2. /\ arr' \in Seq(Entry) /\ Sorted(arr') /\ Len(arr') = Len(arr)
            /\ \A j \in 1..Len(arr) : KeyAt(arr', j) = KeyAt(arr, j)
            /\ StoreOf(arr') = Changed(arr, k, v)
        <5>1. v \in Value /\ arr \in Seq(Entry) /\ <<k, v>> \in Entry
          BY <1>1, <2>1 DEF Entry
        <5>2. /\ arr' \in Seq(Entry) /\ Len(arr') = Len(arr)
              /\ arr'[r] = <<k, v>>
              /\ \A j \in 1..Len(arr) : j # r => arr'[j] = arr[j]
          BY <3>1, <4>1, <5>1, ExceptSeq
        <5>3. Replaces(arr, arr', k, v)
          BY <3>1, <5>2 DEF Replaces
        <5> QED BY <1>1, <5>1, <5>3, Replaced
      <4> QED BY <1>1, <2>1, <3>2, <3>4, <4>1, <4>2 DEF Answers
    <3> QED BY <3>3, <3>4
  <2> QED BY <2>5, <2>6
<1> QED BY <1>2, <1>3

\* What a get finds, and what it then holds.
LEMMA FoundKeeps ==
    ASSUME IInv, ptr = NoPtr, NEW k \in Key, Found(k), UNCHANGED <<arr, gen>>
    PROVE  /\ ret' \in Answers
           /\ ptr' \in [gen : {-1} \cup Nat, index : Nat, updated : BOOLEAN]
           /\ ptr' # NoPtr =>
                 /\ ptr'.gen = gen
                 /\ ptr'.index \in 1..Len(arr)
                 /\ KeyAt(arr, ptr'.index) = Reading
           /\ \/ ret' = IF StoreOf(arr)[k] = Absent THEN "ENOENT" ELSE StoreOf(arr)[k]
              \/ ret' = ret
<1>1. /\ arr \in Seq(Entry) /\ Sorted(arr) /\ gen \in Nat
      /\ ptr \in [gen : {-1} \cup Nat, index : Nat, updated : BOOLEAN]
      /\ ret \in Answers
  BY DEF IInv, TypeOK, KeysSorted, Answers
<1>2. PICK r \in Bsearch(arr, k) :
        \/ r = 0 /\ ret' = "ENOENT" /\ UNCHANGED ptr
        \/ r # 0 /\ k # Reading /\ ret' = arr[r][2] /\ UNCHANGED ptr
        \/ /\ r # 0 /\ k = Reading
           /\ ptr' = [gen |-> gen, index |-> r, updated |-> FALSE]
           /\ UNCHANGED ret
  BY DEF Found
<1>3. \/ r = 0 /\ ~Has(arr, k)
      \/ r \in 1..Len(arr) /\ KeyAt(arr, r) = k
  BY <1>1, BsearchFinds
<1>4. Len(arr) \in Nat
  BY <1>1, LenProperties
<1>5. CASE r = 0
  <2>1. StoreOf(arr)[k] = Absent
    BY <1>3, <1>4, <1>5, StoreMiss
  <2> QED BY <1>1, <1>2, <1>5, <2>1 DEF Answers
<1>6. CASE r # 0
  <2>1. r \in 1..Len(arr) /\ KeyAt(arr, r) = k
    BY <1>3, <1>6
  <2>2. StoreOf(arr)[k] = arr[r][2] /\ arr[r][2] \in Value
    BY <1>1, <2>1, StoreHit
  <2>3. CASE k # Reading
    BY <1>1, <1>2, <1>6, <2>2, <2>3, KeysAndValues DEF Answers
  <2>4. CASE k = Reading
    <3>1. ptr' = [gen |-> gen, index |-> r, updated |-> FALSE] /\ ret' = ret
      BY <1>2, <1>6, <2>4
    <3>2. r \in Nat
      BY <1>4, <2>1
    <3>3. ptr' \in [gen : {-1} \cup Nat, index : Nat, updated : BOOLEAN]
      BY <1>1, <3>1, <3>2
    <3>4. ptr'.gen = gen /\ ptr'.index = r
      BY <3>1
    <3>5. ret' \in Answers
      BY <1>1, <3>1
    <3> QED BY <2>1, <2>4, <3>1, <3>3, <3>4, <3>5
  <2> QED BY <2>3, <2>4
<1> QED BY <1>5, <1>6

\* A driver's update() while a get holds the entry of the reading, or not.
LEMMA UpdateKeeps ==
    ASSUME IInv, Update
    PROVE  /\ arr' \in Seq(Entry) /\ Sorted(arr') /\ gen' \in Nat /\ ret' \in Answers
           /\ Has(arr, Reading) =>
                 /\ gen' = gen
                 /\ Len(arr') = Len(arr)
                 /\ \A j \in 1..Len(arr) : KeyAt(arr', j) = KeyAt(arr, j)
           /\ \/ \E v \in Value :
                    /\ mode = "UPDATE"
                    /\ StoreOf(arr') = Changed(arr, Reading, v)
                    /\ ret' = IF StoreOf(arr)[Reading] = v THEN "same" ELSE "changed"
              \/ arr' = arr /\ ret' \in {"EINVAL", "EROFS"}
              \/ arr' = arr /\ ret' = ret
<1>1. arr \in Seq(Entry) /\ Sorted(arr) /\ gen \in Nat /\ ret \in Answers
  BY DEF IInv, TypeOK, KeysSorted, Answers
<1>2. CASE UNCHANGED <<arr, gen, ret>>
  BY <1>1, <1>2
<1>3. ASSUME NEW m \in Meas, PropSet(Reading, m)
      PROVE  /\ arr' \in Seq(Entry) /\ Sorted(arr') /\ gen' \in Nat /\ ret' \in Answers
             /\ Has(arr, Reading) =>
                   /\ gen' = gen
                   /\ Len(arr') = Len(arr)
                   /\ \A j \in 1..Len(arr) : KeyAt(arr', j) = KeyAt(arr, j)
             /\ \/ /\ m \in Value /\ mode = "UPDATE"
                   /\ StoreOf(arr') = Changed(arr, Reading, m)
                   /\ ret' = IF StoreOf(arr)[Reading] = m THEN "same" ELSE "changed"
                \/ arr' = arr /\ ret' \in {"EINVAL", "EROFS"}
  <2>1. m \in Value /\ Reading \in Key
    BY NamedKeys DEF Value
  <2>2. Reading \notin AlwaysWritable
    BY DEF Reading, AlwaysWritable, Units, CalibrateAdd, CalibrateMult
  <2> QED BY <1>3, <2>1, <2>2, SetKeeps
<1> QED BY <1>2, <1>3 DEF Update, UpdateKeys

-----------------------------------------------------------------------------
(* Every step keeps the invariant.                                         *)

LEMMA InitInv == Init => IInv
<1> SUFFICES ASSUME Init PROVE IInv
  OBVIOUS
<1>1. arr = <<>> /\ Len(arr) = 0 /\ arr \in Seq(Entry)
  BY DEF Init
<1>2. Sorted(arr)
  BY <1>1 DEF Sorted
<1>3. step \in 0..Len(Script)
  BY ScriptType DEF Init
<1> QED BY <1>1, <1>2, <1>3
        DEF Init, IInv, TypeOK, KeysSorted, HeldEntryValid, CursorThere, NoPtr

\* The script depends on nothing that changes.
LEMMA ScriptConstant == driver' = driver => Script' = Script
BY DEF Script, Created, Attached, Validated

LEMMA LibraryCallInv == IInv /\ LibraryCall => IInv'
<1> SUFFICES ASSUME IInv, LibraryCall PROVE IInv'
  OBVIOUS
<1>1. /\ driver \in Drivers /\ step \in Nat /\ step < Len(Script)
      /\ Script \in Seq(Calls) /\ Len(Script) \in Nat
  <2>1. driver \in Drivers /\ step \in 0..Len(Script) /\ step < Len(Script)
    BY DEF IInv, TypeOK, LibraryCall
  <2> QED BY <2>1, ScriptType
<1>2. step' \in 0..Len(Script)' /\ driver' \in Drivers
  <2>1. step' = step + 1 /\ driver' = driver
    BY DEF LibraryCall
  <2> QED BY <1>1, <2>1, ScriptConstant
<1>3. mode' = mode /\ cursor' = cursor /\ ptr = NoPtr
  BY DEF LibraryCall
<1> DEFINE c == Script[step + 1]
<1>4. c \in Calls
  BY <1>1
<1>5. CASE c.op = "set" /\ PropSet(c.key, c.val) /\ UNCHANGED ptr
  <2>1. c.key \in Key /\ c.val \in Value
    BY <1>4, <1>5 DEF Calls
  <2>2. /\ arr' \in Seq(Entry) /\ Sorted(arr') /\ gen' \in Nat /\ ret' \in Answers
        /\ \/ arr' = arr
           \/ \E k \in Key, v \in Value : StoreOf(arr') = Changed(arr, k, v)
    BY <1>5, <2>1, SetKeeps
  <2>3. CursorThere'
    BY <1>3, <2>2, CursorStays
  <2> QED BY <1>2, <1>3, <1>5, <2>2, <2>3
          DEF IInv, TypeOK, KeysSorted, HeldEntryValid, Answers
<1>6. CASE c.op = "update" /\ Update /\ UNCHANGED ptr
  <2>1. /\ arr' \in Seq(Entry) /\ Sorted(arr') /\ gen' \in Nat /\ ret' \in Answers
        /\ \/ arr' = arr
           \/ \E k \in Key, v \in Value : StoreOf(arr') = Changed(arr, k, v)
    BY <1>6, UpdateKeeps, NamedKeys
  <2>2. CursorThere'
    BY <1>3, <2>1, CursorStays
  <2> QED BY <1>2, <1>3, <1>6, <2>1, <2>2
          DEF IInv, TypeOK, KeysSorted, HeldEntryValid, Answers
<1>7. CASE c.op = "get" /\ Found(c.key) /\ UNCHANGED <<arr, gen>>
  <2>1. c.key \in Key
    BY <1>4 DEF Calls
  <2>2. /\ ret' \in Answers
        /\ ptr' \in [gen : {-1} \cup Nat, index : Nat, updated : BOOLEAN]
        /\ ptr' # NoPtr =>
              /\ ptr'.gen = gen
              /\ ptr'.index \in 1..Len(arr)
              /\ KeyAt(arr, ptr'.index) = Reading
    BY <1>3, <1>7, <2>1, FoundKeeps
  <2> QED BY <1>2, <1>3, <1>7, <2>2
          DEF IInv, TypeOK, KeysSorted, HeldEntryValid, CursorThere, Answers
<1> QED BY <1>5, <1>6, <1>7 DEF LibraryCall

LEMMA GetUpdatesInv == IInv /\ GetUpdates => IInv'
<1> SUFFICES ASSUME IInv, GetUpdates PROVE IInv'
  OBVIOUS
<1>1. /\ ptr # NoPtr /\ Update /\ ptr' = [ptr EXCEPT !.updated = TRUE]
      /\ UNCHANGED <<driver, step, mode, cursor>>
  BY DEF GetUpdates
<1>2. /\ ptr.gen = gen /\ ptr.index \in 1..Len(arr)
      /\ KeyAt(arr, ptr.index) = Reading
  BY <1>1 DEF IInv, HeldEntryValid
<1>3. /\ arr' \in Seq(Entry) /\ Sorted(arr') /\ gen' \in Nat /\ ret' \in Answers
      /\ gen' = gen
      /\ Len(arr') = Len(arr)
      /\ KeyAt(arr', ptr.index) = Reading
  BY <1>1, <1>2, UpdateKeeps DEF Has
<1>4. ptr \in [gen : {-1} \cup Nat, index : Nat, updated : BOOLEAN]
  BY DEF IInv, TypeOK
<1>5. /\ ptr' \in [gen : {-1} \cup Nat, index : Nat, updated : BOOLEAN]
      /\ ptr'.gen = ptr.gen /\ ptr'.index = ptr.index
  BY <1>1, <1>4
<1>6. HeldEntryValid'
  BY <1>2, <1>3, <1>5 DEF HeldEntryValid
<1>7. TypeOK'
  BY <1>1, <1>3, <1>5, ScriptConstant DEF IInv, TypeOK, Answers
<1>8. CursorThere'
  <2>1. \/ arr' = arr
        \/ \E k \in Key, v \in Value : StoreOf(arr') = Changed(arr, k, v)
    BY <1>1, UpdateKeeps, NamedKeys
  <2> QED BY <1>1, <1>3, <2>1, CursorStays
<1> QED BY <1>3, <1>6, <1>7, <1>8 DEF IInv, KeysSorted

LEMMA GetReturnsInv == IInv /\ GetReturns => IInv'
<1> SUFFICES ASSUME IInv, GetReturns PROVE IInv'
  OBVIOUS
<1>1. /\ ptr # NoPtr /\ ptr' = NoPtr
      /\ ret' = IF ptr.gen = gen THEN arr[ptr.index][2] ELSE "wild"
      /\ UNCHANGED <<arr, gen, driver, step, mode, cursor>>
  BY DEF GetReturns
<1>2. ptr.gen = gen /\ ptr.index \in 1..Len(arr)
  BY <1>1 DEF IInv, HeldEntryValid
<1>3. arr \in Seq(Entry) /\ Sorted(arr)
  BY DEF IInv, TypeOK, KeysSorted
<1>4. ret' \in Value
  BY <1>1, <1>2, <1>3, StoreHit
<1> QED BY <1>1, <1>4, ScriptConstant
        DEF IInv, TypeOK, KeysSorted, HeldEntryValid, CursorThere, NoPtr

LEMMA OtherLibraryInv == IInv /\ (AttachFails \/ Opened) => IInv'
<1> SUFFICES ASSUME IInv, AttachFails \/ Opened PROVE IInv'
  OBVIOUS
<1>1. driver \in Drivers /\ UNCHANGED <<arr, gen, driver, ptr, cursor, ret>>
  BY DEF IInv, TypeOK, AttachFails, Opened
<1>2. step' \in {step, Len(Created)} /\ mode' \in {"UPDATE", "READ"}
  BY DEF IInv, TypeOK, AttachFails, Opened
<1>3. step' \in 0..Len(Script)'
  <2>1. Script' = Script
    BY <1>1, ScriptConstant
  <2>2. step \in 0..Len(Script) /\ Len(Created) \in 0..Len(Script)
    BY <1>1, ScriptType DEF IInv, TypeOK
  <2>3. step' \in 0..Len(Script)
    BY <1>2, <2>2
  <2> QED BY <2>1, <2>3
<1> QED BY <1>1, <1>2, <1>3 DEF IInv, TypeOK, KeysSorted, HeldEntryValid, CursorThere

LEMMA ClientSetInv ==
    ASSUME IInv, NEW k \in ClientKeys, NEW v \in ClientValues, ClientSet(k, v)
    PROVE  IInv'
<1>1. k \in Key /\ v \in Value \cup {TooLong}
  BY DEF Key, Value
<1>2. PropSet(k, v) /\ UNCHANGED <<driver, step, mode, ptr, cursor>> /\ ptr = NoPtr
  BY DEF ClientSet, Idle
<1>3. /\ arr' \in Seq(Entry) /\ Sorted(arr') /\ gen' \in Nat /\ ret' \in Answers
      /\ \/ arr' = arr
         \/ \E x \in Key, y \in Value : StoreOf(arr') = Changed(arr, x, y)
  BY <1>1, <1>2, SetKeeps
<1>4. CursorThere'
  BY <1>2, <1>3, CursorStays
<1> QED BY <1>2, <1>3, <1>4, ScriptConstant
        DEF IInv, TypeOK, KeysSorted, HeldEntryValid, Answers

LEMMA ClientGetInv ==
    ASSUME IInv, NEW k \in ClientKeys, ClientGet(k)
    PROVE  IInv'
<1>1. k \in Key
  BY DEF Key
<1>2. Found(k) /\ UNCHANGED <<arr, gen, driver, step, mode, cursor>> /\ ptr = NoPtr
  BY DEF ClientGet, PropGet, Idle
<1>3. /\ ret' \in Answers
      /\ ptr' \in [gen : {-1} \cup Nat, index : Nat, updated : BOOLEAN]
      /\ ptr' # NoPtr =>
            /\ ptr'.gen = gen
            /\ ptr'.index \in 1..Len(arr)
            /\ KeyAt(arr, ptr'.index) = Reading
  BY <1>1, <1>2, FoundKeeps
<1> QED BY <1>2, <1>3, ScriptConstant
        DEF IInv, TypeOK, KeysSorted, HeldEntryValid, CursorThere, Answers

\* Where a walk goes: a key of the table, or its end.
LEMMA KeyThere ==
    ASSUME IInv, NEW j \in 1..Len(arr)
    PROVE  KeyAt(arr, j) \in Key /\ Has(arr, KeyAt(arr, j))
BY StoreHit DEF IInv, TypeOK, KeysSorted

LEMMA WalkInv == IInv /\ (PropFirst \/ PropNext) => IInv'
<1> SUFFICES ASSUME IInv, PropFirst \/ PropNext PROVE IInv'
  OBVIOUS
<1>1. UNCHANGED <<arr, gen, driver, step, mode, ptr, ret>>
  BY DEF PropFirst, PropNext
<1>2. Len(arr) \in Nat /\ arr \in Seq(Entry) /\ Sorted(arr)
  BY LenProperties DEF IInv, TypeOK, KeysSorted
<1>3. cursor' \in Key \cup {End} /\ (cursor' # End => Has(arr, cursor'))
  <2>1. CASE PropFirst
    <3>1. CASE Len(arr) = 0 BY <2>1, <3>1 DEF PropFirst
    <3>2. CASE Len(arr) # 0
      <4>1. 1 \in 1..Len(arr) BY <1>2, <3>2
      <4> QED BY <2>1, <3>2, <4>1, KeyThere DEF PropFirst
    <3> QED BY <3>1, <3>2
  <2>2. CASE PropNext
    <3>1. PICK r \in Bsearch(arr, cursor) : cursor' = After(arr, r)
      BY <2>2 DEF PropNext
    <3>2. r \in 0..Len(arr)
      BY <1>2 DEF Bsearch
    <3>3. CASE r = 0 \/ r + 1 > Len(arr)
      BY <3>1, <3>3 DEF After
    <3>4. CASE ~(r = 0 \/ r + 1 > Len(arr))
      <4>1. r + 1 \in 1..Len(arr)
        BY <1>2, <3>2, <3>4
      <4> QED BY <3>1, <3>4, <4>1, KeyThere DEF After
    <3> QED BY <3>3, <3>4
  <2> QED BY <2>1, <2>2
<1> QED BY <1>1, <1>3, ScriptConstant
        DEF IInv, TypeOK, KeysSorted, HeldEntryValid, CursorThere

LEMMA NextInv == IInv /\ [Next]_vars => IInv'
<1> SUFFICES ASSUME IInv, [Next]_vars PROVE IInv'
  OBVIOUS
<1>1. CASE UNCHANGED vars
  BY <1>1, ScriptConstant
     DEF vars, IInv, TypeOK, KeysSorted, HeldEntryValid, CursorThere
<1>2. CASE Library
  BY <1>2, LibraryCallInv, OtherLibraryInv, GetUpdatesInv, GetReturnsInv DEF Library
<1>3. CASE Client
  BY <1>3, ClientSetInv, ClientGetInv, WalkInv DEF Client
<1> QED BY <1>1, <1>2, <1>3 DEF Next

THEOREM Invariance == Spec => []IInv
BY InitInv, NextInv, PTL DEF Spec

\* TypeOK of PropTable: in particular no value that is too long for the buffers
\* it is copied to ever enters the table.
THEOREM TypeCorrect == Spec => []TypeOK
<1>1. IInv => TypeOK BY DEF IInv
<1> QED BY <1>1, Invariance, PTL

\* KeysSorted of PropTable: bsearch() always sees a sorted array.
THEOREM AlwaysSorted == Spec => []KeysSorted
<1>1. IInv => KeysSorted BY DEF IInv
<1> QED BY <1>1, Invariance, PTL

\* HeldEntryValid of PropTable: no driver's update() moves or frees the entry
\* that usense_prop_get() holds.
THEOREM HeldIsValid == Spec => []HeldEntryValid
<1>1. IInv => HeldEntryValid BY DEF IInv
<1> QED BY <1>1, Invariance, PTL

-----------------------------------------------------------------------------
(* The array implements the map.                                           *)

LEMMA InitImplements == Init => Abstract!Init
<1> SUFFICES ASSUME Init PROVE Abstract!Init
  OBVIOUS
<1>1. \A k \in Key : ~Has(arr, k)
  BY DEF Init, Has
<1>2. StoreOf(arr) = [k \in Key |-> Absent]
  BY <1>1 DEF StoreOf
<1>3. mode = "UPDATE" /\ ret = "none" /\ cursor = End
  BY DEF Init
<1> QED BY <1>2, <1>3 DEF Abstract!Init, Absent, Abstract!Absent, End, Abstract!End

\* A set that leaves walk and mode alone is one of the abstract sets.
LEMMA SetImplements ==
    ASSUME UNCHANGED <<mode, cursor>>, NEW k \in Key, NEW v \in Value,
           mode \in {"UPDATE", "READ"},
           mode = "UPDATE" \/ k \in AlwaysWritable,
           StoreOf(arr') = Changed(arr, k, v),
           ret' = IF StoreOf(arr)[k] = v THEN "same" ELSE "changed"
    PROVE  Abstract!Next
<1>1. Abstract!Set(k, v)
  BY DEF Abstract!Set, Changed
<1> QED BY <1>1 DEF Abstract!Next

LEMMA RefuseImplements ==
    ASSUME UNCHANGED <<arr, mode, cursor>>, ret' \in {"EINVAL", "EROFS"}
    PROVE  Abstract!Next
<1>1. StoreOf(arr)' = StoreOf(arr)
  BY DEF StoreOf, Has, KeyAt
<1>2. Abstract!Refuse
  BY <1>1 DEF Abstract!Refuse
<1> QED BY <1>2 DEF Abstract!Next

LEMMA GetImplements ==
    ASSUME UNCHANGED <<arr, mode, cursor>>, NEW k \in Key,
           ret' = IF StoreOf(arr)[k] = Absent THEN "ENOENT" ELSE StoreOf(arr)[k]
    PROVE  Abstract!Next
<1>1. StoreOf(arr)' = StoreOf(arr)
  BY DEF StoreOf, Has, KeyAt
<1>2. Abstract!Get(k)
  BY <1>1 DEF Abstract!Get, Absent, Abstract!Absent
<1> QED BY <1>2 DEF Abstract!Next

LEMMA StutterImplements ==
    ASSUME UNCHANGED <<arr, mode, cursor, ret>>
    PROVE  UNCHANGED Abstract!vars
BY DEF Abstract!vars, StoreOf, Has, KeyAt

\* What a walk does, from the end of the table and from a key in it.
LEMMA AboveStart ==
    ASSUME IInv, PropFirst
    PROVE  Abstract!Next
<1>1. /\ arr \in Seq(Entry) /\ Sorted(arr) /\ Len(arr) \in Nat
      /\ UNCHANGED <<arr, mode, ret>>
  BY LenProperties DEF IInv, TypeOK, KeysSorted, PropFirst
<1>2. \A x \in Key : StoreOf(arr)[x] # Absent <=> Has(arr, x)
  BY <1>1, StoreKeys
<1>3. Abstract!Keys = {x \in Key : Has(arr, x)}
  BY <1>2 DEF Abstract!Keys, Absent, Abstract!Absent
<1>4. Abstract!Above(End)
  <2>1. CASE Len(arr) = 0
    <3>1. \A x \in Key : ~Has(arr, x)
      BY <2>1 DEF Has
    <3>2. cursor' = End
      BY <2>1 DEF PropFirst
    <3> QED BY <1>3, <3>1, <3>2 DEF Abstract!Above, End, Abstract!End
  <2>2. CASE Len(arr) # 0
    <3> DEFINE f == KeyAt(arr, 1)
    <3>1. 1 \in 1..Len(arr) /\ cursor' = f
      BY <1>1, <2>2 DEF PropFirst
    <3>2. f \in Key /\ Has(arr, f) /\ f \in Nat
      BY <1>1, <3>1, KeyThere, KeysAndValues
    <3>3. \A x \in Key : Has(arr, x) => x >= f
      <4>1. SUFFICES ASSUME NEW j \in 1..Len(arr) PROVE KeyAt(arr, j) >= f
        BY DEF Has
      <4>2. KeyAt(arr, j) \in Nat
        BY KeyThere, KeysAndValues
      <4>3. CASE j = 1 BY <3>2, <4>3
      <4>4. CASE j # 1
        <5>1. 1 < j BY <1>1, <4>4
        <5>2. KeyAt(arr, 1) < KeyAt(arr, j) BY <1>1, <3>1, <5>1 DEF Sorted
        <5> QED BY <3>2, <4>2, <5>2
      <4> QED BY <4>3, <4>4
    <3>4. f > End
      BY <3>2 DEF End
    <3> HIDE DEF f
    <3> QED BY <1>3, <3>1, <3>2, <3>3, <3>4 DEF Abstract!Above, End, Abstract!End
  <2> QED BY <2>1, <2>2
<1>5. StoreOf(arr)' = StoreOf(arr)
  BY <1>1 DEF StoreOf, Has, KeyAt
<1>6. Abstract!First
  BY <1>1, <1>4, <1>5 DEF Abstract!First, End, Abstract!End
<1> QED BY <1>6 DEF Abstract!Next

LEMMA AboveCursor ==
    ASSUME IInv, PropNext
    PROVE  Abstract!Next
<1>1. /\ arr \in Seq(Entry) /\ Sorted(arr) /\ Len(arr) \in Nat
      /\ UNCHANGED <<arr, mode, ret>>
      /\ cursor # End /\ cursor \in Key /\ cursor \in Nat /\ Has(arr, cursor)
  BY LenProperties, KeysAndValues
     DEF IInv, TypeOK, KeysSorted, CursorThere, PropNext
<1>2. \A x \in Key : StoreOf(arr)[x] # Absent <=> Has(arr, x)
  BY <1>1, StoreKeys
<1>3. Abstract!Keys = {x \in Key : Has(arr, x)}
  BY <1>2 DEF Abstract!Keys, Absent, Abstract!Absent
<1>4. PICK r \in Bsearch(arr, cursor) : cursor' = After(arr, r)
  BY DEF PropNext
<1>5. r \in 1..Len(arr) /\ KeyAt(arr, r) = cursor
  BY <1>1, <1>4, BsearchFinds
<1>6. \A j \in 1..Len(arr) : KeyAt(arr, j) \in Nat
  BY KeyThere, KeysAndValues
<1>7. Abstract!Above(cursor)
  <2>1. CASE r + 1 > Len(arr)
    <3>1. cursor' = End
      BY <1>1, <1>4, <1>5, <2>1 DEF After
    <3>2. \A x \in Key : Has(arr, x) => x <= cursor
      <4>1. SUFFICES ASSUME NEW j \in 1..Len(arr) PROVE KeyAt(arr, j) <= cursor
        BY DEF Has
      <4>2. CASE j = r BY <1>1, <1>5, <4>2
      <4>3. CASE j # r
        <5>1. j < r BY <1>1, <1>5, <2>1, <4>3
        <5>2. KeyAt(arr, j) < KeyAt(arr, r) BY <1>1, <1>5, <5>1 DEF Sorted
        <5> QED BY <1>5, <1>6, <5>2
      <4> QED BY <4>2, <4>3
    <3> QED BY <1>3, <3>1, <3>2 DEF Abstract!Above, End, Abstract!End
  <2>2. CASE ~(r + 1 > Len(arr))
    <3> DEFINE f == KeyAt(arr, r + 1)
    <3>1. r + 1 \in 1..Len(arr)
      BY <1>1, <1>5, <2>2
    <3>2. cursor' = f
      BY <1>1, <1>4, <1>5, <2>2 DEF After
    <3>3. f \in Key /\ Has(arr, f)
      BY <3>1, KeyThere
    <3>4. f > cursor
      <4>1. KeyAt(arr, r) < KeyAt(arr, r + 1)
        BY <1>1, <1>5, <3>1 DEF Sorted
      <4> QED BY <1>5, <1>6, <3>1, <4>1
    <3>5. \A x \in Key : Has(arr, x) /\ x > cursor => x >= f
      <4>1. SUFFICES ASSUME NEW j \in 1..Len(arr), KeyAt(arr, j) > cursor
                     PROVE  KeyAt(arr, j) >= f
        BY DEF Has
      <4>2. CASE j <= r
        <5>1. CASE j = r BY <1>1, <1>5, <4>1, <5>1
        <5>2. CASE j < r
          <6>1. KeyAt(arr, j) < KeyAt(arr, r) BY <1>1, <1>5, <5>2 DEF Sorted
          <6> QED BY <1>1, <1>5, <1>6, <4>1, <6>1
        <5> QED BY <1>1, <1>5, <4>2, <5>1, <5>2
      <4>3. CASE j = r + 1 BY <1>6, <3>1, <4>3
      <4>4. CASE j > r + 1
        <5>1. KeyAt(arr, r + 1) < KeyAt(arr, j) BY <1>1, <3>1, <4>4 DEF Sorted
        <5> QED BY <1>6, <3>1, <5>1
      <4> QED BY <1>1, <1>5, <4>2, <4>3, <4>4
    <3> HIDE DEF f
    <3> QED BY <1>3, <3>2, <3>3, <3>4, <3>5 DEF Abstract!Above
  <2> QED BY <2>1, <2>2
<1>8. StoreOf(arr)' = StoreOf(arr)
  BY <1>1 DEF StoreOf, Has, KeyAt
<1>9. Abstract!Walk
  BY <1>1, <1>7, <1>8 DEF Abstract!Walk, End, Abstract!End
<1> QED BY <1>9 DEF Abstract!Next

\* A get of the library or a client: it looks a key up, or keeps its entry.
LEMMA FoundImplements ==
    ASSUME IInv, ptr = NoPtr, NEW k \in Key, Found(k), UNCHANGED <<arr, gen, mode, cursor>>
    PROVE  Abstract!Next \/ UNCHANGED Abstract!vars
<1>1. \/ ret' = IF StoreOf(arr)[k] = Absent THEN "ENOENT" ELSE StoreOf(arr)[k]
      \/ ret' = ret
  BY FoundKeeps
<1> QED BY <1>1, GetImplements, StutterImplements

LEMMA PropSetImplements ==
    ASSUME IInv, NEW k \in Key, NEW v \in Value \cup {TooLong}, PropSet(k, v),
           UNCHANGED <<mode, cursor>>
    PROVE  Abstract!Next
<1>1. mode \in {"UPDATE", "READ"}
  BY DEF IInv, TypeOK
<1>2. \/ /\ v \in Value /\ (mode = "UPDATE" \/ k \in AlwaysWritable)
         /\ StoreOf(arr') = Changed(arr, k, v)
         /\ ret' = IF StoreOf(arr)[k] = v THEN "same" ELSE "changed"
      \/ arr' = arr /\ ret' \in {"EINVAL", "EROFS"}
  BY SetKeeps
<1> QED BY <1>1, <1>2, SetImplements, RefuseImplements

LEMMA UpdateImplements ==
    ASSUME IInv, Update, UNCHANGED <<mode, cursor>>
    PROVE  Abstract!Next \/ UNCHANGED Abstract!vars
<1>1. CASE UNCHANGED <<arr, gen, ret>>
  BY <1>1, StutterImplements
<1>2. ASSUME NEW m \in Meas, PropSet(Reading, m)
      PROVE  Abstract!Next
  <2>1. m \in Value \cup {TooLong} /\ Reading \in Key
    BY NamedKeys DEF Value
  <2> QED BY <1>2, <2>1, PropSetImplements
<1> QED BY <1>1, <1>2 DEF Update, UpdateKeys

LEMMA LibraryImplements ==
    ASSUME IInv, Library
    PROVE  Abstract!Next \/ UNCHANGED Abstract!vars
<1>1. CASE LibraryCall
  <2>1. Script[step + 1] \in Calls
    <3>1. driver \in Drivers /\ step \in 0..Len(Script) /\ step < Len(Script)
      BY <1>1 DEF IInv, TypeOK, LibraryCall
    <3>2. Script \in Seq(Calls) /\ Len(Script) \in Nat
      BY <3>1, ScriptType
    <3> QED BY <3>1, <3>2
  <2> DEFINE c == Script[step + 1]
  <2>2. ptr = NoPtr /\ UNCHANGED <<mode, cursor>>
    BY <1>1 DEF LibraryCall
  <2>3. CASE c.op = "set" /\ PropSet(c.key, c.val)
    <3>1. c.key \in Key /\ c.val \in Value
      BY <2>1, <2>3 DEF Calls
    <3> QED BY <2>2, <2>3, <3>1, PropSetImplements
  <2>4. CASE c.op = "update" /\ Update
    BY <2>2, <2>4, UpdateImplements
  <2>5. CASE c.op = "get" /\ Found(c.key) /\ UNCHANGED <<arr, gen>>
    <3>1. c.key \in Key
      BY <2>1 DEF Calls
    <3> QED BY <2>2, <2>5, <3>1, FoundImplements
  <2> QED BY <1>1, <2>3, <2>4, <2>5 DEF LibraryCall
<1>2. CASE AttachFails
  BY <1>2, StutterImplements DEF AttachFails
<1>3. CASE Opened
  <2>1. mode = "UPDATE" /\ mode' = "READ" /\ UNCHANGED <<arr, cursor, ret>>
    BY <1>3 DEF Opened
  <2>2. StoreOf(arr)' = StoreOf(arr)
    BY <2>1 DEF StoreOf, Has, KeyAt
  <2>3. Abstract!Hand
    BY <2>1, <2>2 DEF Abstract!Hand
  <2> QED BY <2>3 DEF Abstract!Next
<1>4. CASE GetUpdates
  <2>1. Update /\ UNCHANGED <<mode, cursor>>
    BY <1>4 DEF GetUpdates
  <2> QED BY <2>1, UpdateImplements
<1>5. CASE GetReturns
  <2>1. /\ ptr # NoPtr /\ UNCHANGED <<arr, mode, cursor>>
        /\ ret' = IF ptr.gen = gen THEN arr[ptr.index][2] ELSE "wild"
    BY <1>5 DEF GetReturns
  <2>2. /\ ptr.gen = gen /\ ptr.index \in 1..Len(arr)
        /\ KeyAt(arr, ptr.index) = Reading
    BY <2>1 DEF IInv, HeldEntryValid
  <2>3. StoreOf(arr)[Reading] = arr[ptr.index][2] /\ arr[ptr.index][2] \in Value
    BY <2>2, StoreHit DEF IInv, TypeOK, KeysSorted
  <2>4. ret' = IF StoreOf(arr)[Reading] = Absent THEN "ENOENT" ELSE StoreOf(arr)[Reading]
    BY <2>1, <2>2, <2>3, KeysAndValues
  <2>5. Reading \in Key
    BY NamedKeys
  <2> QED BY <2>1, <2>4, <2>5, GetImplements
<1> QED BY <1>1, <1>2, <1>3, <1>4, <1>5 DEF Library

LEMMA ClientImplements ==
    ASSUME IInv, Client
    PROVE  Abstract!Next \/ UNCHANGED Abstract!vars
<1>1. ASSUME NEW k \in ClientKeys, NEW v \in ClientValues, ClientSet(k, v)
      PROVE  Abstract!Next
  <2>1. k \in Key /\ v \in Value \cup {TooLong}
    BY DEF Key, Value
  <2>2. PropSet(k, v) /\ UNCHANGED <<mode, cursor>>
    BY <1>1 DEF ClientSet
  <2> QED BY <2>1, <2>2, PropSetImplements
<1>2. ASSUME NEW k \in ClientKeys, ClientGet(k)
      PROVE  Abstract!Next \/ UNCHANGED Abstract!vars
  <2>1. k \in Key
    BY DEF Key
  <2>2. ptr = NoPtr /\ Found(k) /\ UNCHANGED <<arr, gen, mode, cursor>>
    BY <1>2 DEF ClientGet, PropGet, Idle
  <2> QED BY <2>1, <2>2, FoundImplements
<1> QED BY <1>1, <1>2, AboveStart, AboveCursor DEF Client

\* ImplementsStore of PropTable: the sorted array with its binary search is the
\* map of PropStore, for any readings and whatever the clients try.
THEOREM TableImplementsStore == Spec => ImplementsStore
<1>1. IInv /\ [Next]_vars => [Abstract!Next]_(Abstract!vars)
  <2> SUFFICES ASSUME IInv, [Next]_vars
               PROVE  Abstract!Next \/ UNCHANGED Abstract!vars
    OBVIOUS
  <2>1. CASE UNCHANGED vars
    BY <2>1, StutterImplements DEF vars
  <2> QED BY <2>1, LibraryImplements, ClientImplements DEF Next
<1> QED BY <1>1, InitImplements, Invariance, PTL
        DEF Spec, ImplementsStore, Abstract!Spec
=============================================================================
