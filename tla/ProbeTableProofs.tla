-------------------------- MODULE ProbeTableProofs --------------------------
(***************************************************************************)
(* Proofs about ProbeTable, for any probes, devices and matches, where     *)
(* memcpy() copies upwards.                                                *)
(***************************************************************************)
EXTENDS ProbeTable, SequenceTheorems, WellFoundedInduction, TLAPS

\* A set of numbers that is not empty has a least one.
LEMMA Least ==
    ASSUME NEW S \in SUBSET Nat, S # {}
    PROVE  \E x \in S : \A y \in S : x <= y
<1> DEFINE Less == {ss \in Nat \X Nat : ss[1] < ss[2]}
<1>1. IsWellFoundedOn(Less, Nat)
  BY NatLessThanWellFounded DEF OpToRel
<1>2. PICK x \in S : \A y \in S : <<y, x>> \notin Less
  <2> HIDE DEF Less
  <2> QED BY <1>1, WFMin
<1>3. ASSUME NEW y \in S PROVE x <= y
  <2>1. x \in Nat /\ y \in Nat
    OBVIOUS
  <2>2. ~(y < x)
    BY <1>2, <2>1
  <2> QED BY <2>1, <2>2
<1> QED BY <1>3

-----------------------------------------------------------------------------
(* The array.                                                              *)

Entries == Probes \cup {Garbage}

LEMMA Array ==
    ASSUME NEW S, NEW m \in Nat, NEW f \in [1..m -> S]
    PROVE  f \in Seq(S) /\ Len(f) = m
OBVIOUS

\* The array with one entry more, which is written.
Extended(a, n, p) == [Grown(a, n) EXCEPT ![n + 1] = p]

LEMMA ExtendedArray ==
    ASSUME NEW a \in Seq(Entries), NEW n \in 0..Len(a), NEW p \in Probes
    PROVE  /\ Extended(a, n, p) \in Seq(Entries)
           /\ Len(Extended(a, n, p)) = n + 1
           /\ \A j \in 1..n : Extended(a, n, p)[j] = a[j]
           /\ Extended(a, n, p)[n + 1] = p
<1>1. n \in Nat /\ n + 1 \in Nat
  OBVIOUS
<1>2. Extended(a, n, p) \in [1..(n + 1) -> Entries]
  BY <1>1 DEF Extended, Grown, Entries
<1>3. Extended(a, n, p) \in Seq(Entries) /\ Len(Extended(a, n, p)) = n + 1
  BY <1>1, <1>2, Array
<1>4. \A j \in 1..n : Extended(a, n, p)[j] = a[j]
  BY <1>1 DEF Extended, Grown
<1>5. Extended(a, n, p)[n + 1] = p
  BY <1>1 DEF Extended, Grown
<1> QED BY <1>3, <1>4, <1>5

\* The entries behind the i-th move up by one.
LEMMA CopyArray ==
    ASSUME NEW a \in Seq(Entries), NEW n \in 0..Len(a), NEW i \in 1..n
    PROVE  /\ CopyUp(a, i, n - i) \in Seq(Entries)
           /\ Len(CopyUp(a, i, n - i)) = Len(a)
           /\ \A j \in 1..(i - 1) : CopyUp(a, i, n - i)[j] = a[j]
           /\ \A j \in i..(n - 1) : CopyUp(a, i, n - i)[j] = a[j + 1]
<1> DEFINE b == CopyUp(a, i, n - i)
<1>1. /\ n \in Nat /\ i \in Nat /\ Len(a) \in Nat
      /\ i >= 1 /\ i <= n /\ n <= Len(a)
  OBVIOUS
<1>2. ASSUME NEW j \in 1..Len(a)
      PROVE  (IF j \in i..(i + (n - i) - 1) THEN a[j + 1] ELSE a[j]) \in Entries
  <2>1. CASE j \in i..(i + (n - i) - 1)
    <3>1. j + 1 \in 1..Len(a)
      BY <1>1, <2>1
    <3> QED BY <2>1, <3>1, ElementOfSeq
  <2>2. CASE j \notin i..(i + (n - i) - 1)
    BY <2>2, ElementOfSeq
  <2> QED BY <2>1, <2>2
<1>3. b \in [1..Len(a) -> Entries]
  BY <1>2 DEF CopyUp
<1>4. b \in Seq(Entries) /\ Len(b) = Len(a)
  <2> HIDE DEF b
  <2> QED BY <1>1, <1>3, Array
<1> QED BY <1>1, <1>4 DEF CopyUp

\* usense_probe_usb() finds the first entry in use that matches, or none.
LEMMA FirstMatch ==
    ASSUME NEW a \in Seq(Entries), NEW n \in 0..Len(a), NEW d \in Devices,
           \A j \in 1..n : a[j] \in Probes
    PROVE  \/ /\ FoundBy(a, n, d) = Nobody
              /\ \A j \in 1..n : a[j] \notin Matches[d]
           \/ \E i \in 1..n :
                 /\ FoundBy(a, n, d) = a[i]
                 /\ a[i] \in Matches[d]
                 /\ \A j \in 1..(i - 1) : a[j] \notin Matches[d]
<1> DEFINE hits == {i \in 1..n : a[i] \in Matches[d]}
<1>1. CASE hits = {}
  <2>1. FoundBy(a, n, d) = Nobody
    BY <1>1 DEF FoundBy
  <2> QED BY <1>1, <2>1
<1>2. CASE hits # {}
  <2> DEFINE i == CHOOSE i \in hits : \A j \in hits : i <= j
  <2>1. hits \in SUBSET Nat
    OBVIOUS
  <2>2. \E x \in hits : \A j \in hits : x <= j
    <3> HIDE DEF hits
    <3> QED BY <1>2, <2>1, Least
  <2>3. i \in hits /\ \A j \in hits : i <= j
    <3> HIDE DEF hits
    <3> QED BY <2>2
  <2>4. FoundBy(a, n, d) = a[i]
    BY <1>2 DEF FoundBy
  <2> HIDE DEF i
  <2>5. ASSUME NEW j \in 1..(i - 1) PROVE a[j] \notin Matches[d]
    BY <2>3
  <2> QED BY <2>3, <2>4, <2>5
<1> QED BY <1>1, <1>2

\* So every scan gives every device a probe or none.
LEMMA ScanType ==
    ASSUME NEW a \in Seq(Entries), NEW n \in 0..Len(a),
           \A j \in 1..n : a[j] \in Probes, Scan(a, n)
    PROVE  driver' \in [Devices -> Probes \cup {Nobody}]
<1>1. ASSUME NEW d \in Devices PROVE FoundBy(a, n, d) \in Probes \cup {Nobody}
  BY FirstMatch
<1> QED BY <1>1 DEF Scan

-----------------------------------------------------------------------------
(* The invariant.                                                          *)

Inv == TypeOK /\ NoDuplicates /\ RegisteredLookedFor

LEMMA BuiltinType ==
    /\ Builtin \in Seq(Entries) /\ Len(Builtin) = 3
    /\ \A j \in 1..3 : Builtin[j] \in Drivers
    /\ \A i, j \in 1..3 : Builtin[i] = Builtin[j] => i = j
    /\ \A p \in Drivers : \E j \in 1..3 : Builtin[j] = p
BY DEF Builtin, Drivers, Entries, Probes

LEMMA InitInv == Init => Inv
<1> SUFFICES ASSUME Init PROVE Inv
  OBVIOUS
<1>1. dev_probe \in Seq(Probes \cup {Garbage}) /\ Len(dev_probe) = 0
  BY DEF Init
<1>2. TypeOK
  <2>1. dev_probes \in 0..MaxProbes /\ dev_probes <= Len(dev_probe) /\ 1..dev_probes = {}
    BY <1>1, MaxProbesAssumption DEF Init
  <2>2. driver \in [Devices -> Probes \cup {Nobody}]
    BY DEF Init
  <2>3. \A i \in 1..dev_probes : dev_probe[i] \in Probes
    BY <2>1
  <2> QED BY <1>1, <2>1, <2>2, <2>3 DEF Init, TypeOK
<1>3. NoDuplicates /\ RegisteredLookedFor
  BY DEF Init, NoDuplicates, RegisteredLookedFor
<1> QED BY <1>2, <1>3 DEF Inv

LEMMA RegisterInv ==
    ASSUME Inv, NEW p \in Own, Register(p)
    PROVE  Inv'
<1>1. CASE Known(p)
  <2>1. UNCHANGED <<dev_probe, dev_probes, running, driver>>
    BY <1>1 DEF Register
  <2>2. wanted' = wanted \cup {p} /\ ret' \in {"none", "EEXIST", "undefined"}
    BY <1>1 DEF Register
  <2>3. TypeOK'
    BY <2>1, <2>2 DEF Inv, TypeOK, Probes
  <2>4. NoDuplicates'
    BY <2>1 DEF Inv, NoDuplicates
  <2>5. RegisteredLookedFor'
    BY <1>1, <2>1, <2>2 DEF Inv, RegisteredLookedFor, InUse, Known
  <2> QED BY <2>3, <2>4, <2>5 DEF Inv
<1>2. CASE ~Known(p)
  <2>1. /\ dev_probes < MaxProbes
        /\ dev_probe' = [Grown(dev_probe, dev_probes) EXCEPT ![dev_probes + 1] = p]
        /\ dev_probes' = dev_probes + 1
        /\ ret' \in {"none", "EEXIST", "undefined"}
        /\ wanted' = wanted \cup {p}
        /\ UNCHANGED <<running, driver>>
    BY <1>2 DEF Register
  <2>2. dev_probe \in Seq(Entries) /\ dev_probes \in 0..Len(dev_probe) /\ dev_probes \in Nat /\ p \in Probes
    BY DEF Inv, TypeOK, Entries, Probes
  <2>3. /\ dev_probe' \in Seq(Entries) /\ Len(dev_probe') = dev_probes + 1
        /\ \A j \in 1..dev_probes : dev_probe'[j] = dev_probe[j]
        /\ dev_probe'[dev_probes + 1] = p
    <3>1. dev_probe' = Extended(dev_probe, dev_probes, p)
      BY <2>1 DEF Extended
    <3> QED BY <2>2, <3>1, ExtendedArray
  <2>4. TypeOK'
    <3>1. \A j \in 1..(dev_probes + 1) : dev_probe'[j] \in Probes
      BY <2>2, <2>3 DEF Inv, TypeOK
    <3> QED BY <2>1, <2>2, <2>3, <3>1, MaxProbesAssumption DEF Inv, TypeOK, Entries
  <2>5. NoDuplicates'
    <3>1. \A j \in 1..dev_probes : dev_probe[j] # p
      BY <1>2 DEF Known, InUse
    <3> QED BY <2>1, <2>2, <2>3, <3>1 DEF Inv, NoDuplicates
  <2>6. RegisteredLookedFor'
    <3>1. ASSUME NEW q \in wanted' PROVE \E j \in 1..(dev_probes + 1) : dev_probe'[j] = q
      <4>1. CASE q = p
        BY <2>2, <2>3, <4>1
      <4>2. CASE q # p
        <5>1. PICK j \in 1..dev_probes : dev_probe[j] = q
          BY <2>1, <4>2 DEF Inv, RegisteredLookedFor, InUse
        <5> QED BY <2>2, <2>3, <5>1
      <4> QED BY <4>1, <4>2
    <3> QED BY <2>1, <3>1 DEF RegisteredLookedFor, InUse
  <2> QED BY <2>4, <2>5, <2>6 DEF Inv
<1> QED BY <1>1, <1>2

\* What usense_probe_unregister() does where memcpy() copies upwards.
Removes(i) ==
    /\ dev_probe' = CopyUp(dev_probe, i, dev_probes - i)
    /\ dev_probes' = dev_probes - 1
    /\ wanted' = wanted \ {dev_probe[i]}
    /\ UNCHANGED <<running, driver, ret>>

LEMMA UnregisterRemoves ==
    ASSUME CopyOrders = {"up"}, NEW p \in Own, Unregister(p)
    PROVE  \E i \in 1..dev_probes : dev_probe[i] = p /\ Removes(i)
<1>1. PICK i \in 1..dev_probes :
          /\ dev_probe[i] = p
          /\ dev_probe' \in Copied(dev_probe, i, Behind(i))
          /\ dev_probes' = dev_probes - 1
  BY DEF Unregister
<1>2. dev_probe' = CopyUp(dev_probe, i, dev_probes - i)
  BY <1>1 DEF Copied, Behind
<1> QED BY <1>1, <1>2 DEF Removes, Unregister

LEMMA RemovesInv ==
    ASSUME Inv, NEW i \in 1..dev_probes, Removes(i)
    PROVE  Inv'
<1> DEFINE n == dev_probes
<1>1. /\ dev_probe \in Seq(Entries) /\ n \in 0..Len(dev_probe)
      /\ n \in Nat /\ i \in 1..n /\ n <= MaxProbes
  BY DEF Inv, TypeOK, Entries
<1>2. /\ dev_probe' \in Seq(Entries) /\ Len(dev_probe') = Len(dev_probe)
      /\ \A j \in 1..(i - 1) : dev_probe'[j] = dev_probe[j]
      /\ \A j \in i..(n - 1) : dev_probe'[j] = dev_probe[j + 1]
  <2>1. dev_probe' = CopyUp(dev_probe, i, n - i)
    BY DEF Removes
  <2> QED BY <1>1, <2>1, CopyArray
<1>3. TypeOK'
  <2>1. ASSUME NEW j \in 1..(n - 1) PROVE dev_probe'[j] \in Probes
    <3>1. CASE j < i
      BY <1>1, <1>2, <3>1 DEF Inv, TypeOK
    <3>2. CASE j >= i
      <4>1. j \in i..(n - 1) /\ j + 1 \in 1..n
        BY <1>1, <3>2
      <4> QED BY <1>2, <4>1 DEF Inv, TypeOK
    <3> QED BY <1>1, <3>1, <3>2
  <2> QED BY <1>1, <1>2, <2>1, MaxProbesAssumption DEF Inv, TypeOK, Removes, Entries
<1>4. NoDuplicates'
  <2>1. ASSUME NEW j \in 1..(n - 1)
        PROVE  \E k \in 1..n : /\ dev_probe'[j] = dev_probe[k]
                               /\ k = IF j < i THEN j ELSE j + 1
    BY <1>1, <1>2
  <2>2. ASSUME NEW j \in 1..(n - 1), NEW k \in 1..(n - 1), dev_probe'[j] = dev_probe'[k]
        PROVE  j = k
    BY <1>1, <2>1, <2>2 DEF Inv, NoDuplicates
  <2> QED BY <2>2 DEF NoDuplicates, Removes
<1>5. RegisteredLookedFor'
  <2>1. ASSUME NEW q \in wanted' PROVE \E j \in 1..(n - 1) : dev_probe'[j] = q
    <3>1. q \in wanted /\ q # dev_probe[i]
      BY DEF Removes
    <3>2. PICK k \in 1..n : dev_probe[k] = q
      BY <3>1 DEF Inv, RegisteredLookedFor, InUse
    <3>3. CASE k < i
      BY <1>1, <1>2, <3>2, <3>3
    <3>4. CASE k > i
      <4>1. k - 1 \in i..(n - 1) /\ k - 1 \in 1..(n - 1) /\ (k - 1) + 1 = k
        BY <1>1, <3>4
      <4> QED BY <1>2, <3>2, <4>1
    <3> QED BY <1>1, <3>1, <3>2, <3>3, <3>4
  <2> QED BY <2>1 DEF RegisteredLookedFor, InUse, Removes
<1> QED BY <1>3, <1>4, <1>5 DEF Inv

LEMMA StartInv ==
    ASSUME Inv, Start
    PROVE  Inv'
<1>1. CASE dev_probes = 0 /\ dev_probe' = Builtin /\ dev_probes' = 3 /\ wanted' = Drivers
  <2>1. driver' \in [Devices -> Probes \cup {Nobody}]
    <3>1. \A j \in 1..3 : Builtin[j] \in Probes
      BY BuiltinType DEF Probes
    <3>2. Scan(Builtin, 3)
      BY <1>1 DEF Start
    <3>3. Builtin \in Seq(Entries) /\ 3 \in 0..Len(Builtin)
      BY BuiltinType
    <3> QED BY <3>1, <3>2, <3>3, ScanType
  <2>2. TypeOK'
    BY <1>1, <2>1, BuiltinType, MaxProbesAssumption DEF Inv, TypeOK, Start, Probes, Entries
  <2>3. NoDuplicates' /\ RegisteredLookedFor'
    BY <1>1, BuiltinType DEF NoDuplicates, RegisteredLookedFor, InUse
  <2> QED BY <2>2, <2>3 DEF Inv
<1>2. CASE UNCHANGED <<dev_probe, dev_probes, wanted>>
  <2>1. Scan(dev_probe, dev_probes)
    BY <1>2 DEF Start
  <2>2. driver' \in [Devices -> Probes \cup {Nobody}]
    BY <2>1, ScanType DEF Inv, TypeOK, Entries
  <2>3. TypeOK'
    BY <1>2, <2>2 DEF Inv, TypeOK, Start
  <2>4. NoDuplicates' /\ RegisteredLookedFor'
    BY <1>2 DEF Inv, NoDuplicates, RegisteredLookedFor, InUse
  <2> QED BY <2>3, <2>4 DEF Inv
<1> QED BY <1>1, <1>2 DEF Start

LEMMA DetectInv ==
    ASSUME Inv, Detect
    PROVE  Inv'
<1>1. driver' \in [Devices -> Probes \cup {Nobody}]
  BY ScanType DEF Inv, TypeOK, Detect, Entries
<1>2. TypeOK'
  BY <1>1 DEF Inv, TypeOK, Detect
<1>3. NoDuplicates' /\ RegisteredLookedFor'
  BY DEF Inv, Detect, NoDuplicates, RegisteredLookedFor, InUse
<1> QED BY <1>2, <1>3 DEF Inv

LEMMA StopInv ==
    ASSUME Inv, Stop \/ UNCHANGED vars
    PROVE  Inv'
BY DEF Inv, TypeOK, NoDuplicates, RegisteredLookedFor, InUse, Stop, vars

\* Inv is inductive.
THEOREM Inductive ==
    ASSUME CopyOrders = {"up"}
    PROVE  Spec => []Inv
<1>1. ASSUME Inv, [Next]_vars PROVE Inv'
  <2>1. CASE \E p \in Own : Register(p)
    BY <1>1, <2>1, RegisterInv
  <2>2. CASE \E p \in Own : Unregister(p)
    <3>1. PICK i \in 1..dev_probes : Removes(i)
      BY <2>2, UnregisterRemoves
    <3> QED BY <1>1, <3>1, RemovesInv
  <2>3. CASE Start
    BY <1>1, <2>3, StartInv
  <2>4. CASE Detect
    BY <1>1, <2>4, DetectInv
  <2>5. CASE Stop \/ UNCHANGED vars
    BY <1>1, <2>5, StopInv
  <2> QED BY <1>1, <2>1, <2>2, <2>3, <2>4, <2>5 DEF Next
<1> QED BY <1>1, InitInv, PTL DEF Spec

\* The search of usense_probe_usb() never leaves the entries that were written.
THEOREM TypeCorrect ==
    ASSUME CopyOrders = {"up"}
    PROVE  Spec => []TypeOK
<1>1. Inv => TypeOK
  BY DEF Inv
<1> QED BY <1>1, Inductive, PTL

\* Whatever is registered and unregistered, no probe is in the table twice.
THEOREM NeverTwice ==
    ASSUME CopyOrders = {"up"}
    PROVE  Spec => []NoDuplicates
<1>1. Inv => NoDuplicates
  BY DEF Inv
<1> QED BY <1>1, Inductive, PTL

\* No probe is lost from the table before it is unregistered.
THEOREM NeverLost ==
    ASSUME CopyOrders = {"up"}
    PROVE  Spec => []RegisteredLookedFor
<1>1. Inv => RegisteredLookedFor
  BY DEF Inv
<1> QED BY <1>1, Inductive, PTL

-----------------------------------------------------------------------------
(* The table implements the list.                                          *)

Shown(a, n) == SubSeq(a, 1, n)

LEMMA ShownEntries ==
    ASSUME NEW a \in Seq(Entries), NEW n \in 0..Len(a)
    PROVE  /\ Shown(a, n) \in Seq(Entries)
           /\ Len(Shown(a, n)) = n
           /\ \A j \in 1..n : Shown(a, n)[j] = a[j]
<1>1. n \in Nat /\ n <= Len(a)
  OBVIOUS
<1> QED BY <1>1 DEF Shown

\* Two sequences are equal if they agree.
LEMMA SameSeq ==
    ASSUME NEW S, NEW s \in Seq(S), NEW t \in Seq(S), Len(s) = Len(t),
           \A j \in 1..Len(s) : s[j] = t[j]
    PROVE  s = t
BY SeqEqual

LEMMA ShownExtended ==
    ASSUME NEW a \in Seq(Entries), NEW n \in 0..Len(a), NEW p \in Probes
    PROVE  Shown(Extended(a, n, p), n + 1) = Append(Shown(a, n), p)
<1> DEFINE b == Extended(a, n, p)
<1>1. /\ b \in Seq(Entries) /\ Len(b) = n + 1
      /\ \A j \in 1..n : b[j] = a[j]
      /\ b[n + 1] = p
  BY ExtendedArray
<1> HIDE DEF b
<1>2. n \in Nat /\ n + 1 \in 0..Len(b) /\ p \in Entries
  BY <1>1 DEF Entries
<1>3. /\ Shown(b, n + 1) \in Seq(Entries) /\ Len(Shown(b, n + 1)) = n + 1
      /\ \A j \in 1..(n + 1) : Shown(b, n + 1)[j] = b[j]
  BY <1>1, <1>2, ShownEntries
<1>4. /\ Shown(a, n) \in Seq(Entries) /\ Len(Shown(a, n)) = n
      /\ \A j \in 1..n : Shown(a, n)[j] = a[j]
  BY ShownEntries
<1>5. /\ Append(Shown(a, n), p) \in Seq(Entries)
      /\ Len(Append(Shown(a, n), p)) = n + 1
      /\ \A j \in 1..n : Append(Shown(a, n), p)[j] = Shown(a, n)[j]
      /\ Append(Shown(a, n), p)[n + 1] = p
  BY <1>2, <1>4, AppendProperties
<1>6. \A j \in 1..(n + 1) : Shown(b, n + 1)[j] = Append(Shown(a, n), p)[j]
  BY <1>1, <1>2, <1>3, <1>4, <1>5
<1>7. Shown(b, n + 1) = Append(Shown(a, n), p)
  BY <1>3, <1>5, <1>6, SameSeq
<1> QED BY <1>7 DEF b

LEMMA ShownCopied ==
    ASSUME NEW a \in Seq(Entries), NEW n \in 0..Len(a), NEW i \in 1..n
    PROVE  LET l == Shown(a, n)
           IN  Shown(CopyUp(a, i, n - i), n - 1)
                   = SubSeq(l, 1, i - 1) \o SubSeq(l, i + 1, Len(l))
<1> DEFINE b == CopyUp(a, i, n - i)
           l == Shown(a, n)
           left == SubSeq(l, 1, i - 1)
           right == SubSeq(l, i + 1, n)
<1>1. /\ b \in Seq(Entries) /\ Len(b) = Len(a)
      /\ \A j \in 1..(i - 1) : b[j] = a[j]
      /\ \A j \in i..(n - 1) : b[j] = a[j + 1]
  BY CopyArray
<1>2. /\ l \in Seq(Entries) /\ Len(l) = n
      /\ \A j \in 1..n : l[j] = a[j]
  BY ShownEntries
<1> HIDE DEF b, l
<1>3. n \in Nat /\ i \in Nat /\ 1 <= i /\ i <= n /\ n - 1 \in 0..Len(b) /\ n - i \in Nat
  BY <1>1
<1>4. /\ Shown(b, n - 1) \in Seq(Entries) /\ Len(Shown(b, n - 1)) = n - 1
      /\ \A j \in 1..(n - 1) : Shown(b, n - 1)[j] = b[j]
  BY <1>1, <1>3, ShownEntries
<1>5. /\ left \in Seq(Entries) /\ Len(left) = i - 1
      /\ \A j \in 1..(i - 1) : left[j] = l[j]
  BY <1>2, <1>3
<1>6. /\ right \in Seq(Entries) /\ Len(right) = n - i
      /\ \A j \in 1..(n - i) : right[j] = l[i + j]
  BY <1>2, <1>3
<1> HIDE DEF left, right
<1>7. /\ left \o right \in Seq(Entries) /\ Len(left \o right) = n - 1
      /\ \A j \in 1..(n - 1) :
            (left \o right)[j] = IF j <= i - 1 THEN left[j] ELSE right[j - (i - 1)]
  <2>1. /\ left \o right \in Seq(Entries)
        /\ Len(left \o right) = Len(left) + Len(right)
        /\ \A j \in 1..(Len(left) + Len(right)) : (left \o right)[j] =
               IF j <= Len(left) THEN left[j] ELSE right[j - Len(left)]
    BY <1>5, <1>6, ConcatProperties
  <2>2. Len(left) = i - 1 /\ Len(left) + Len(right) = n - 1
    BY <1>3, <1>5, <1>6
  <2> QED BY <2>1, <2>2
<1>8. ASSUME NEW j \in 1..(n - 1)
      PROVE  Shown(b, n - 1)[j] = (left \o right)[j]
  <2>1. CASE j <= i - 1
    BY <1>1, <1>2, <1>3, <1>4, <1>5, <1>7, <2>1
  <2>2. CASE ~(j <= i - 1)
    <3>1. /\ j \in i..(n - 1) /\ j - (i - 1) \in 1..(n - i)
          /\ i + (j - (i - 1)) = j + 1 /\ j + 1 \in 1..n
      BY <1>3, <2>2
    <3>2. (left \o right)[j] = right[j - (i - 1)]
      BY <1>7, <2>2
    <3>3. right[j - (i - 1)] = l[j + 1]
      BY <1>6, <3>1
    <3> QED BY <1>1, <1>2, <1>4, <3>1, <3>2, <3>3
  <2> QED BY <2>1, <2>2
<1>9. Shown(b, n - 1) = left \o right
  BY <1>4, <1>7, <1>8, SameSeq
<1> QED BY <1>2, <1>9 DEF b, l, left, right

\* A scan of the entries in use is a scan of the list.
LEMMA ScanShown ==
    ASSUME NEW a \in Seq(Entries), NEW n \in 0..Len(a),
           \A j \in 1..n : a[j] \in Probes, Scan(a, n)
    PROVE  Abstract!Scan(Shown(a, n))
<1> DEFINE l == Shown(a, n)
<1>1. Len(l) = n /\ \A j \in 1..n : l[j] = a[j]
  BY ShownEntries
<1> HIDE DEF l
<1>2. driver' \in [Devices -> Probes \cup {Nobody}]
  BY ScanType
<1>3. ASSUME NEW d \in Devices
      PROVE  \/ Abstract!Finds(l, d, driver'[d])
             \/ driver'[d] = Nobody /\ \A j \in 1..Len(l) : l[j] \notin Matches[d]
  <2>1. driver'[d] = FoundBy(a, n, d)
    BY DEF Scan
  <2>2. CASE FoundBy(a, n, d) = Nobody /\ \A j \in 1..n : a[j] \notin Matches[d]
    BY <1>1, <2>1, <2>2
  <2>3. CASE \E i \in 1..n :
                /\ FoundBy(a, n, d) = a[i]
                /\ a[i] \in Matches[d]
                /\ \A j \in 1..(i - 1) : a[j] \notin Matches[d]
    BY <1>1, <2>1, <2>3 DEF Abstract!Finds
  <2> QED BY <2>2, <2>3, FirstMatch
<1>4. Abstract!Scan(l)
  BY <1>2, <1>3 DEF Abstract!Scan
<1> QED BY <1>4 DEF l

LEMMA InitShown == Init => Abstract!Init
<1> SUFFICES ASSUME Init PROVE Abstract!Init
  OBVIOUS
<1>1. SubSeq(dev_probe, 1, dev_probes) = <<>>
  BY DEF Init
<1> QED BY <1>1 DEF Init, Abstract!Init

LEMMA ListInUse ==
    ASSUME Inv
    PROVE  /\ dev_probe \in Seq(Entries) /\ dev_probes \in 0..Len(dev_probe)
           /\ Len(Shown(dev_probe, dev_probes)) = dev_probes
           /\ \A j \in 1..dev_probes : Shown(dev_probe, dev_probes)[j] = dev_probe[j]
           /\ Shown(dev_probe, dev_probes) \in Seq(Entries)
<1>1. dev_probe \in Seq(Entries) /\ dev_probes \in 0..Len(dev_probe)
  BY DEF Inv, TypeOK, Entries
<1> QED BY <1>1, ShownEntries

LEMMA RegisterShown ==
    ASSUME Inv, NEW p \in Own, Register(p)
    PROVE  Abstract!Add(p) \/ UNCHANGED Abstract!vars
<1>1. CASE Known(p)
  <2>1. UNCHANGED <<dev_probe, dev_probes, driver>>
    BY <1>1 DEF Register
  <2> QED BY <2>1 DEF Abstract!vars
<1>2. CASE ~Known(p)
  <2>1. /\ dev_probe' = Extended(dev_probe, dev_probes, p)
        /\ dev_probes' = dev_probes + 1
        /\ UNCHANGED driver
    BY <1>2 DEF Register, Extended
  <2>2. Shown(dev_probe, dev_probes)' = Append(Shown(dev_probe, dev_probes), p)
    BY <2>1, ListInUse, ShownExtended DEF Probes, Shown
  <2>3. \A j \in 1..Len(Shown(dev_probe, dev_probes)) :
            Shown(dev_probe, dev_probes)[j] # p
    BY <1>2, ListInUse DEF Known, InUse
  <2> QED BY <2>1, <2>2, <2>3 DEF Shown, Abstract!Add, Abstract!Listed
<1> QED BY <1>1, <1>2

LEMMA RemovesShown ==
    ASSUME Inv, NEW i \in 1..dev_probes, Removes(i)
    PROVE  Abstract!Remove(dev_probe[i])
<1> DEFINE l == Shown(dev_probe, dev_probes)
<1>1. l' = SubSeq(l, 1, i - 1) \o SubSeq(l, i + 1, Len(l))
  BY ListInUse, ShownCopied DEF Removes, Shown
<1>2. i \in 1..Len(l) /\ l[i] = dev_probe[i]
  BY ListInUse
<1> QED BY <1>1, <1>2 DEF Shown, Abstract!Remove, Removes

LEMMA StartShown ==
    ASSUME Inv, Start
    PROVE  Abstract!Start
<1>1. CASE dev_probes = 0 /\ dev_probe' = Builtin /\ dev_probes' = 3
  <2>1. Shown(dev_probe, dev_probes) = <<>>
    BY <1>1, ListInUse DEF Shown
  <2>2. Shown(Builtin, 3) = Builtin
    <3>1. Builtin \in Seq(Entries) /\ 3 \in 0..Len(Builtin) /\ Len(Builtin) = 3
      BY BuiltinType
    <3>2. /\ Shown(Builtin, 3) \in Seq(Entries) /\ Len(Shown(Builtin, 3)) = 3
          /\ \A j \in 1..3 : Shown(Builtin, 3)[j] = Builtin[j]
      BY <3>1, ShownEntries
    <3> QED BY <3>1, <3>2, SameSeq
  <2>3. Abstract!Scan(Shown(Builtin, 3))
    <3>1. Builtin \in Seq(Entries) /\ 3 \in 0..Len(Builtin)
      BY BuiltinType
    <3>2. \A j \in 1..3 : Builtin[j] \in Probes
      BY BuiltinType DEF Probes
    <3>3. Scan(Builtin, 3)
      BY <1>1 DEF Start
    <3> QED BY <3>1, <3>2, <3>3, ScanShown
  <2> QED BY <1>1, <2>1, <2>2, <2>3 DEF Shown, Abstract!Start
<1>2. CASE dev_probes # 0 /\ UNCHANGED <<dev_probe, dev_probes>>
  <2>1. Shown(dev_probe, dev_probes) # <<>>
    BY <1>2, ListInUse
  <2>2. Abstract!Scan(Shown(dev_probe, dev_probes))
    <3>1. Scan(dev_probe, dev_probes)
      BY <1>2 DEF Start
    <3> QED BY <3>1, ListInUse, ScanShown DEF Inv, TypeOK
  <2> QED BY <1>2, <2>1, <2>2 DEF Shown, Abstract!Start
<1> QED BY <1>1, <1>2 DEF Start

LEMMA DetectShown ==
    ASSUME Inv, Detect
    PROVE  Abstract!Detect
<1>1. Abstract!Scan(Shown(dev_probe, dev_probes))
  <2>1. Scan(dev_probe, dev_probes)
    BY DEF Detect
  <2> QED BY <2>1, ListInUse, ScanShown DEF Inv, TypeOK
<1> QED BY <1>1 DEF Detect, Shown, Abstract!Detect

\* The array implements the list: a device is found by the first probe, in the
\* order of registration, that was registered and not unregistered since.
THEOREM TableImplementsList ==
    ASSUME CopyOrders = {"up"}
    PROVE  Spec => ImplementsList
<1>1. ASSUME Inv, [Next]_vars PROVE [Abstract!Next]_(Abstract!vars)
  <2>1. CASE \E p \in Own : Register(p)
    BY <1>1, <2>1, RegisterShown DEF Abstract!Next
  <2>2. CASE \E p \in Own : Unregister(p)
    <3>1. PICK p \in Own : Unregister(p)
      BY <2>2
    <3>2. PICK i \in 1..dev_probes : dev_probe[i] = p /\ Removes(i)
      BY <3>1, UnregisterRemoves
    <3> QED BY <1>1, <3>2, RemovesShown DEF Abstract!Next
  <2>3. CASE Start
    BY <1>1, <2>3, StartShown DEF Abstract!Next
  <2>4. CASE Detect
    BY <1>1, <2>4, DetectShown DEF Abstract!Next
  <2>5. CASE Stop \/ UNCHANGED vars
    BY <2>5 DEF Stop, vars, Abstract!vars
  <2> QED BY <1>1, <2>1, <2>2, <2>3, <2>4, <2>5 DEF Next
<1> QED BY <1>1, InitShown, Inductive, PTL DEF Spec, ImplementsList, Abstract!Spec
=============================================================================
