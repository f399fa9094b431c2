---------------------------- MODULE TemperProofs ----------------------------
(***************************************************************************)
(* Proofs about Temper: whatever the process before was killed at, the     *)
(* reset frees the bus, and unless a control message is lost after it the  *)
(* transfer that follows does what it is for.  So the driver is the sensor *)
(* that Sensor promises.                                                   *)
(***************************************************************************)
EXTENDS Temper, I2cWireProofs

-----------------------------------------------------------------------------
(* temp_reset() operation by operation.                                    *)

After(k) ==
    /\ todo \in Seq(Ops) /\ Len(todo) = 28 - k
    /\ \A j \in 1..(28 - k) : todo[j] = ResetOps[k + j]

\* After k clocks with SDA let go: a chip that was sending is k bits on at least
\* or off, one that was listening has heard k ones.
Clocked(ch, k) ==
    \/ ch.mode = "off"
    \/ ch.mode = "send" /\ k <= ch.n
    \/ /\ ch.mode \in {"addr", "ptr", "data"} /\ k <= 7 /\ ch.n = k
       /\ ch.mode = "addr" => ch.byte = 2^k - 1
    \/ ch.mode \in {"ptr", "data"} /\ k = 8 /\ ch.n = 8
    \/ ch.mode = "data" /\ k = 9 /\ ch.n = 0

\* The same while SCL is high in the clock after that.
Clocking(ch, k) ==
    \/ ch.mode = "off"
    \/ ch.mode = "send" /\ k <= ch.n /\ ch.n <= 7
    \/ /\ ch.mode \in {"addr", "ptr", "data"} /\ k <= 7 /\ ch.n = k
       /\ ch.mode = "addr" => ch.byte = 2^(k + 1) - 1
    \/ ch.mode \in {"ptr", "data"} /\ k = 8 /\ ch.n = 8

\* The chip just heard a START, and will not acknowledge before eight bits.
Listening(ch) == ch.mode = "addr" /\ ch.n = 0 /\ ch.byte = 0

\* The lines and the chip after k operations.
Adrift(k) ==
    \/ k = 1 /\ pins.scl = 1
    \/ k = 2 /\ pins = High
    \/ k = 3 /\ pins = [sda |-> 0, scl |-> 1] /\ (Begun \/ Pulls(chip))
    \/ k = 4 /\ pins = [sda |-> 0, scl |-> 0] /\ Clocked(chip, 0)
    \/ \E n \in 0..9 : k = 2 * n + 5 /\ pins = [sda |-> 1, scl |-> 0] /\ Clocked(chip, n)
    \/ \E n \in 0..8 : k = 2 * n + 6 /\ pins = High /\ Clocking(chip, n)
    \/ /\ k = 24 /\ pins = High
       /\ chip.mode = "off" \/ (chip.mode = "data" /\ chip.n = 0)
    \/ k = 25 /\ Begun
    \/ k = 26 /\ pins = [sda |-> 0, scl |-> 0] /\ Listening(chip)
    \/ k = 27 /\ pins = [sda |-> 0, scl |-> 1] /\ Listening(chip)
    \/ k = 28 /\ Free

\* Where the reset is: it has not begun, or the adapter drives what it was told
\* and the chip is where the operations so far have brought it.
Freeing ==
    \/ After(0)
    \/ control = pins /\ \E k \in 1..28 : After(k) /\ Adrift(k)

-----------------------------------------------------------------------------
(* The operations of the reset, one by one.                                *)

\* n operations that alternate, beginning with SCL up.
Ticks(s, n) ==
    /\ s \in Seq(Ops) /\ Len(s) = n
    /\ \A j \in 1..n : s[j] = IF j % 2 = 1 THEN "scl1" ELSE "scl0"

\* Two sequences one after the other.
LEMMA Joined ==
    ASSUME NEW s \in Seq(Ops), NEW t \in Seq(Ops)
    PROVE  /\ Len(s) \in Nat /\ Len(t) \in Nat
           /\ s \o t \in Seq(Ops) /\ Len(s \o t) = Len(s) + Len(t)
           /\ \A j \in 1..Len(s) : (s \o t)[j] = s[j]
           /\ \A j \in 1..Len(t) : (s \o t)[Len(s) + j] = t[j]
<1>1. /\ s \o t \in Seq(Ops) /\ Len(s \o t) = Len(s) + Len(t)
      /\ \A j \in 1..(Len(s) + Len(t)) : (s \o t)[j] = IF j <= Len(s) THEN s[j] ELSE t[j - Len(s)]
  BY ConcatProperties
<1>2. Len(s) \in Nat /\ Len(t) \in Nat
  BY LenProperties
<1>3. ASSUME NEW j \in 1..Len(t) PROVE (s \o t)[Len(s) + j] = t[j]
  <2>1. Len(s) + j \in 1..(Len(s) + Len(t)) /\ ~(Len(s) + j <= Len(s)) /\ (Len(s) + j) - Len(s) = j
    BY <1>2
  <2> QED
    BY <1>1, <2>1
<1>4. ASSUME NEW j \in 1..Len(s) PROVE (s \o t)[j] = s[j]
  <2>1. j \in 1..(Len(s) + Len(t)) /\ j <= Len(s)
    BY <1>2
  <2> QED
    BY <1>1, <2>1
<1> QED
  BY <1>1, <1>2, <1>3, <1>4

LEMMA OneMoreTick ==
    ASSUME NEW s, NEW n \in Nat, n % 2 = 0, Ticks(s, n)
    PROVE  Ticks(s \o Clock, n + 2)
<1>1. "scl0" \in Ops /\ "scl1" \in Ops
  BY DEF Ops
<1>2. /\ Clock \in Seq(Ops) /\ Len(Clock) = 2 /\ Clock[1] = "scl1" /\ Clock[2] = "scl0"
  BY <1>1 DEF Clock
<1>3. s \in Seq(Ops) /\ Len(s) = n
  BY DEF Ticks
<1>4. /\ s \o Clock \in Seq(Ops) /\ Len(s \o Clock) = n + 2
      /\ \A j \in 1..n : (s \o Clock)[j] = s[j]
      /\ \A j \in 1..2 : (s \o Clock)[n + j] = Clock[j]
  <2>1. s \in Seq(Ops) /\ Clock \in Seq(Ops)
    BY <1>2, <1>3
  <2>2. /\ s \o Clock \in Seq(Ops) /\ Len(s \o Clock) = Len(s) + Len(Clock)
        /\ \A j \in 1..Len(s) : (s \o Clock)[j] = s[j]
        /\ \A j \in 1..Len(Clock) : (s \o Clock)[Len(s) + j] = Clock[j]
    BY <2>1, Joined
  <2> QED
    BY <1>2, <1>3, <2>2
<1>5. ASSUME NEW j \in 1..(n + 2) PROVE (s \o Clock)[j] = IF j % 2 = 1 THEN "scl1" ELSE "scl0"
  <2>1. CASE j \in 1..n
    <3>1. (s \o Clock)[j] = s[j]
      BY <1>4, <2>1
    <3> QED
      BY <2>1, <3>1 DEF Ticks
  <2>2. CASE j = n + 1
    <3>1. (n + 1) % 2 = 1 /\ 1 \in 1..2
      OBVIOUS
    <3>2. (s \o Clock)[n + 1] = Clock[1]
      BY <1>4, <3>1
    <3> QED
      BY <1>2, <2>2, <3>1, <3>2
  <2>3. CASE j = n + 2
    <3>1. (n + 2) % 2 = 0 /\ 2 \in 1..2
      OBVIOUS
    <3>2. (s \o Clock)[n + 2] = Clock[2]
      BY <1>4, <3>1
    <3> QED
      BY <1>2, <2>3, <3>1, <3>2
  <2>4. j \in 1..n \/ j = n + 1 \/ j = n + 2
    OBVIOUS
  <2> QED
    BY <2>1, <2>2, <2>3, <2>4
<1>6. s \o Clock \in Seq(Ops) /\ Len(s \o Clock) = n + 2
  BY <1>4
<1> QED
  BY <1>5, <1>6 DEF Ticks

LEMMA NineTicks == Ticks(NineClocks, 18)
<1> DEFINE n2 == Clock \o Clock
           n3 == n2 \o Clock
           n4 == n3 \o Clock
           n5 == n4 \o Clock
           n6 == n5 \o Clock
           n7 == n6 \o Clock
           n8 == n7 \o Clock
<1>1. Ticks(Clock, 2)
  <2>1. "scl0" \in Ops /\ "scl1" \in Ops
    BY DEF Ops
  <2> QED
    BY <2>1 DEF Ticks, Clock
<1>2. Ticks(n2, 4)
  <2>1. 2 + 2 = 4 /\ 2 % 2 = 0 /\ 2 \in Nat
    OBVIOUS
  <2> QED
    BY <1>1, <2>1, OneMoreTick
<1>3. ASSUME NEW s, NEW n \in Nat, n % 2 = 0, Ticks(s, n) PROVE Ticks(s \o Clock, n + 2)
  BY <1>3, OneMoreTick
<1>4. NineClocks = n8 \o Clock
  BY DEF NineClocks
<1> HIDE DEF n2
<1>5. Ticks(n3, 6)
  <2>1. 4 + 2 = 6 /\ 4 % 2 = 0 /\ 4 \in Nat
    OBVIOUS
  <2>2. Ticks(n2, 4)
    BY <1>2
  <2> HIDE DEF Ticks
  <2> QED
    BY <1>3, <2>1, <2>2
<1> HIDE DEF n3
<1>6. Ticks(n4, 8)
  <2>1. 6 + 2 = 8 /\ 6 % 2 = 0 /\ 6 \in Nat
    OBVIOUS
  <2>2. Ticks(n3, 6)
    BY <1>5
  <2> HIDE DEF Ticks
  <2> QED
    BY <1>3, <2>1, <2>2
<1> HIDE DEF n4
<1>7. Ticks(n5, 10)
  <2>1. 8 + 2 = 10 /\ 8 % 2 = 0 /\ 8 \in Nat
    OBVIOUS
  <2>2. Ticks(n4, 8)
    BY <1>6
  <2> HIDE DEF Ticks
  <2> QED
    BY <1>3, <2>1, <2>2
<1> HIDE DEF n5
<1>8. Ticks(n6, 12)
  <2>1. 10 + 2 = 12 /\ 10 % 2 = 0 /\ 10 \in Nat
    OBVIOUS
  <2>2. Ticks(n5, 10)
    BY <1>7
  <2> HIDE DEF Ticks
  <2> QED
    BY <1>3, <2>1, <2>2
<1> HIDE DEF n6
<1>9. Ticks(n7, 14)
  <2>1. 12 + 2 = 14 /\ 12 % 2 = 0 /\ 12 \in Nat
    OBVIOUS
  <2>2. Ticks(n6, 12)
    BY <1>8
  <2> HIDE DEF Ticks
  <2> QED
    BY <1>3, <2>1, <2>2
<1> HIDE DEF n7
<1>10. Ticks(n8, 16)
  <2>1. 14 + 2 = 16 /\ 14 % 2 = 0 /\ 14 \in Nat
    OBVIOUS
  <2>2. Ticks(n7, 14)
    BY <1>9
  <2> HIDE DEF Ticks
  <2> QED
    BY <1>3, <2>1, <2>2
<1> HIDE DEF n8
<1>11. Ticks(n8 \o Clock, 18)
  <2>1. 16 + 2 = 18 /\ 16 % 2 = 0 /\ 16 \in Nat
    OBVIOUS
  <2>2. Ticks(n8, 16)
    BY <1>10
  <2> HIDE DEF Ticks
  <2> QED
    BY <1>3, <2>1, <2>2
<1> QED
  BY <1>4, <1>11

LEMMA ResetOpByOp ==
    /\ ResetOps \in Seq(Ops) /\ Len(ResetOps) = 28
    /\ ResetOps[1] = "scl1" /\ ResetOps[2] = "sda1" /\ ResetOps[3] = "sda0"
    /\ ResetOps[4] = "scl0" /\ ResetOps[5] = "sda1"
    /\ \A k \in 6..23 : ResetOps[k] = IF k % 2 = 0 THEN "scl1" ELSE "scl0"
    /\ ResetOps[24] = "scl1" /\ ResetOps[25] = "sda0" /\ ResetOps[26] = "scl0"
    /\ ResetOps[27] = "scl1" /\ ResetOps[28] = "sda1"
<1> DEFINE start == <<"scl1", "sda1", "sda0", "scl0", "sda1">>
           stop  == <<"scl1", "sda0", "scl0", "scl1", "sda1">>
<1>1. "sda1" \in Ops /\ "sda0" \in Ops /\ "scl0" \in Ops /\ "scl1" \in Ops
  BY DEF Ops
<1>2. /\ start \in Seq(Ops) /\ Len(start) = 5 /\ start[1] = "scl1" /\ start[2] = "sda1"
      /\ start[3] = "sda0" /\ start[4] = "scl0" /\ start[5] = "sda1"
  BY <1>1
<1>3. /\ stop \in Seq(Ops) /\ Len(stop) = 5 /\ stop[1] = "scl1" /\ stop[2] = "sda0"
      /\ stop[3] = "scl0" /\ stop[4] = "scl1" /\ stop[5] = "sda1"
  BY <1>1
<1>4. ResetOps = (start \o NineClocks) \o stop
  BY DEF ResetOps
<1> HIDE DEF start, stop
<1>5. /\ NineClocks \in Seq(Ops) /\ Len(NineClocks) = 18
      /\ \A j \in 1..18 : NineClocks[j] = IF j % 2 = 1 THEN "scl1" ELSE "scl0"
  BY NineTicks DEF Ticks
<1> DEFINE most == start \o NineClocks
<1>6. /\ most \in Seq(Ops) /\ Len(most) = 23
      /\ \A j \in 1..5 : most[j] = start[j]
      /\ \A j \in 1..18 : most[5 + j] = NineClocks[j]
  <2>1. start \in Seq(Ops) /\ NineClocks \in Seq(Ops)
    BY <1>2, <1>5
  <2>2. /\ start \o NineClocks \in Seq(Ops) /\ Len(start \o NineClocks) = Len(start) + Len(NineClocks)
        /\ \A j \in 1..Len(start) : (start \o NineClocks)[j] = start[j]
        /\ \A j \in 1..Len(NineClocks) : (start \o NineClocks)[Len(start) + j] = NineClocks[j]
    BY <2>1, Joined
  <2>3. Len(start) = 5 /\ Len(NineClocks) = 18 /\ most = start \o NineClocks
    BY <1>2, <1>5
  <2> HIDE DEF most
  <2>4. most \in Seq(Ops) /\ Len(most) = 23
    BY <2>2, <2>3
  <2>5. \A j \in 1..5 : most[j] = start[j]
    BY <2>2, <2>3
  <2>6. \A j \in 1..18 : most[5 + j] = NineClocks[j]
    BY <2>2, <2>3
  <2> QED
    BY <2>4, <2>5, <2>6
<1> HIDE DEF most
<1>7. /\ most \o stop \in Seq(Ops) /\ Len(most \o stop) = 28
      /\ \A j \in 1..23 : (most \o stop)[j] = most[j]
      /\ \A j \in 1..5 : (most \o stop)[23 + j] = stop[j]
  <2>1. most \in Seq(Ops) /\ stop \in Seq(Ops)
    BY <1>3, <1>6
  <2>2. /\ most \o stop \in Seq(Ops) /\ Len(most \o stop) = Len(most) + Len(stop)
        /\ \A j \in 1..Len(most) : (most \o stop)[j] = most[j]
        /\ \A j \in 1..Len(stop) : (most \o stop)[Len(most) + j] = stop[j]
    BY <2>1, Joined
  <2>3. Len(most) = 23 /\ Len(stop) = 5
    BY <1>3, <1>6
  <2>4. most \o stop \in Seq(Ops) /\ Len(most \o stop) = 28
    BY <2>2, <2>3
  <2>5. \A j \in 1..23 : (most \o stop)[j] = most[j]
    BY <2>2, <2>3
  <2>6. \A j \in 1..5 : (most \o stop)[23 + j] = stop[j]
    BY <2>2, <2>3
  <2> QED
    BY <2>4, <2>5, <2>6
<1>8. ResetOps = most \o stop
  BY <1>4 DEF most
<1>9. ASSUME NEW k \in 6..23 PROVE ResetOps[k] = IF k % 2 = 0 THEN "scl1" ELSE "scl0"
  <2>1. PICK j \in 1..18 : k = 5 + j
    <3>1. k - 5 \in 1..18 /\ k = 5 + (k - 5)
      OBVIOUS
    <3> QED
      BY <3>1
  <2>2. 5 + j \in 1..23 /\ (j % 2 = 1 <=> k % 2 = 0)
    BY <2>1
  <2>3. ResetOps[k] = NineClocks[j]
    BY <1>6, <1>7, <1>8, <2>1, <2>2
  <2> QED
    BY <1>5, <2>2, <2>3
<1>10. \A j \in 1..5 : ResetOps[j] = start[j]
  <2>1. \A j \in 1..5 : j \in 1..23
    OBVIOUS
  <2> QED
    BY <1>6, <1>7, <1>8, <2>1
<1>11. \A j \in 1..5 : ResetOps[23 + j] = stop[j]
  BY <1>7, <1>8
<1>12. /\ ResetOps[1] = start[1] /\ ResetOps[2] = start[2] /\ ResetOps[3] = start[3]
       /\ ResetOps[4] = start[4] /\ ResetOps[5] = start[5]
  BY <1>10
<1>13. /\ ResetOps[24] = stop[1] /\ ResetOps[25] = stop[2] /\ ResetOps[26] = stop[3]
       /\ ResetOps[27] = stop[4] /\ ResetOps[28] = stop[5]
  <2>1. 24 = 23 + 1 /\ 25 = 23 + 2 /\ 26 = 23 + 3 /\ 27 = 23 + 4 /\ 28 = 23 + 5
    OBVIOUS
  <2>2. {1, 2, 3, 4, 5} \subseteq 1..5
    OBVIOUS
  <2> QED
    BY <1>11, <2>1, <2>2
<1>14. ResetOps \in Seq(Ops) /\ Len(ResetOps) = 28
  BY <1>7, <1>8
<1> QED
  BY <1>2, <1>3, <1>9, <1>12, <1>13, <1>14

\* What is left after k operations begins with the next one.
LEMMA Places ==
    ASSUME NEW k \in 0..27, After(k)
    PROVE  /\ Tail(todo) \in Seq(Ops) /\ todo = <<ResetOps[k + 1]>> \o Tail(todo)
           /\ Head(todo) = ResetOps[k + 1] /\ ResetOps[k + 1] \in Ops
           /\ todo' = Tail(todo) => After(k + 1)'
<1>1. todo \in Seq(Ops) /\ Len(todo) = 28 - k /\ todo # <<>>
  <2>1. todo \in Seq(Ops) /\ Len(todo) = 28 - k
    BY DEF After
  <2> QED
    BY <2>1
<1>2. /\ Head(todo) = todo[1] /\ Head(todo) \in Ops
      /\ Tail(todo) \in Seq(Ops) /\ Len(Tail(todo)) = 28 - (k + 1)
      /\ \A j \in 1..(28 - (k + 1)) : Tail(todo)[j] = todo[j + 1]
  BY <1>1, HeadTailProperties
<1>3. todo[1] = ResetOps[k + 1]
  BY DEF After
<1>4. <<Head(todo)>> \o Tail(todo) = todo
  BY <1>1, <1>2, HeadTailProperties
<1>5. ASSUME todo' = Tail(todo) PROVE After(k + 1)'
  <2>1. ASSUME NEW j \in 1..(28 - (k + 1)) PROVE todo'[j] = ResetOps[(k + 1) + j]
    <3>1. j + 1 \in 1..(28 - k) /\ k + (j + 1) = (k + 1) + j
      OBVIOUS
    <3>2. todo[j + 1] = ResetOps[k + (j + 1)]
      BY <3>1 DEF After
    <3> QED
      BY <1>2, <1>5, <3>1, <3>2
  <2> QED
    BY <1>2, <1>5, <2>1 DEF After
<1> QED
  BY <1>2, <1>3, <1>4, <1>5

LEMMA Ends ==
    /\ todo = ResetOps => After(0)
    /\ After(28) => todo = <<>>
<1>1. ASSUME todo = ResetOps PROVE After(0)
  BY <1>1, ResetOpByOp DEF After
<1>2. ASSUME After(28) PROVE todo = <<>>
  BY <1>2 DEF After
<1> QED
  BY <1>1, <1>2

-----------------------------------------------------------------------------
(* What the chip makes of it, wherever it was.                             *)

LEMMA FirstFall ==
    ASSUME NEW ch \in Chip, NEW t \in Word,
           (ch.mode = "addr" /\ ch.n = -1 /\ ch.byte = 0) \/ Pulls(ch)
    PROVE  Clocked(Lowered(ch, t), 0)
<1>1. 2^0 - 1 = 0
  BY Powers
<1>2. CASE ch.mode = "addr" /\ ch.n = -1 /\ ch.byte = 0
  <2>1. Lowered(ch, t) = [ch EXCEPT !.n = @ + 1]
    BY <1>2 DEF Lowered
  <2>2. Lowered(ch, t).mode = "addr" /\ Lowered(ch, t).n = 0 /\ Lowered(ch, t).byte = 0
    BY <1>2, <2>1 DEF Chip
  <2> QED
    BY <1>1, <2>2 DEF Clocked
<1>3. CASE ch.mode \in {"addr", "ptr", "data"} /\ ch.n = 8
  <2>1. Lowered(ch, t) = NextByte(ch, t)
    BY <1>3 DEF Lowered
  <2>2. /\ NextByte(ch, t).mode \in {"ptr", "data", "send"} /\ NextByte(ch, t).n = 0
    BY <1>3 DEF NextByte, Chip
  <2> QED
    BY <2>1, <2>2 DEF Clocked
<1>4. CASE ch.mode = "send" /\ ch.n \in 0..7
  <2>1. CASE ch.n < 7
    <3>1. Lowered(ch, t) = [ch EXCEPT !.n = @ + 1]
      BY <1>4, <2>1 DEF Lowered
    <3>2. Lowered(ch, t).mode = "send" /\ Lowered(ch, t).n = ch.n + 1
      BY <1>4, <3>1 DEF Chip
    <3> QED
      BY <1>4, <3>2 DEF Clocked
  <2>2. CASE ch.n = 7
    <3>1. Lowered(ch, t) = [ch EXCEPT !.n = 8]
      BY <1>4, <2>2 DEF Lowered, ByteIn
    <3>2. Lowered(ch, t).mode = "send" /\ Lowered(ch, t).n = 8
      BY <1>4, <3>1 DEF Chip
    <3> QED
      BY <3>2 DEF Clocked
  <2> QED
    BY <1>4, <2>1, <2>2
<1> QED
  BY <1>2, <1>3, <1>4 DEF Pulls

LEMMA ClockRises ==
    ASSUME NEW ch \in Chip, NEW k \in 0..8, Clocked(ch, k)
    PROVE  Clocking(Raised(ch, SdaOf(1, ch)), k)
<1> DEFINE up == Raised(ch, SdaOf(1, ch))
<1>0. ch.n \in -1..8 /\ ch.byte \in 0..255
  BY ChipFields
<1>1. CASE ch.mode = "off"
  BY <1>1 DEF Raised, Clocking
<1>2. CASE ch.mode = "send" /\ k <= ch.n
  <2>1. CASE ch.n = 8
    <3>1. SdaOf(1, ch) = 1
      BY <1>2, <2>1 DEF SdaOf, Pulls
    <3>2. up = Off(ch)
      BY <1>2, <2>1, <3>1 DEF Raised
    <3>3. up.mode = "off"
      BY <3>2 DEF Off, Chip
    <3> QED
      BY <3>3 DEF Clocking
  <2>2. CASE ch.n # 8
    <3>1. up = ch /\ ch.n <= 7
      BY <1>0, <1>2, <2>2 DEF Raised
    <3> QED
      BY <1>2, <3>1 DEF Clocking
  <2> QED
    BY <2>1, <2>2
<1>3. CASE /\ ch.mode \in {"addr", "ptr", "data"} /\ k <= 7 /\ ch.n = k
           /\ ch.mode = "addr" => ch.byte = 2^k - 1
  <2>1. SdaOf(1, ch) = 1 /\ ch.n \in 0..7
    BY <1>3 DEF SdaOf, Pulls
  <2>2. up = [ch EXCEPT !.byte = (2 * ch.byte + 1) % 256]
    BY <1>3, <2>1 DEF Raised
  <2>3. up.mode = ch.mode /\ up.n = k /\ up.byte = (2 * ch.byte + 1) % 256
    BY <1>3, <2>2 DEF Chip
  <2>4. ch.mode = "addr" => (2 * ch.byte + 1) % 256 = 2^(k + 1) - 1
    <3>1. k + 1 \in 0..8 /\ k < 8
      BY <1>3
    <3>2. PICK p \in 1..256 : p = 2^k
      BY Doubles
    <3>3. 2^(k + 1) = 2 * p /\ 2^(k + 1) \in 1..256
      BY <3>1, <3>2, Doubles
    <3>4. ch.mode = "addr" => ch.byte = p - 1
      BY <1>3, <3>2
    <3> QED
      BY <3>3, <3>4
  <2> QED
    BY <1>3, <2>3, <2>4 DEF Clocking
<1>4. CASE ch.mode \in {"ptr", "data"} /\ k = 8 /\ ch.n = 8
  BY <1>4 DEF Raised, Clocking
<1> QED
  BY <1>1, <1>2, <1>3, <1>4 DEF Clocked

LEMMA ClockFalls ==
    ASSUME NEW ch \in Chip, NEW t \in Word, NEW k \in 0..8, Clocking(ch, k)
    PROVE  Clocked(Lowered(ch, t), k + 1)
<1> DEFINE low == Lowered(ch, t)
<1>1. CASE ch.mode = "off"
  BY <1>1 DEF Lowered, Clocked
<1>2. CASE ch.mode \in {"send", "addr", "ptr", "data"} /\ ch.n \in 0..6 /\ k <= ch.n
           /\ (ch.mode # "send" => ch.n = k)
           /\ (ch.mode = "addr" => ch.byte = 2^(k + 1) - 1)
  <2>1. low = [ch EXCEPT !.n = @ + 1]
    BY <1>2 DEF Lowered
  <2>2. low.mode = ch.mode /\ low.n = ch.n + 1 /\ low.byte = ch.byte
    BY <2>1 DEF Chip
  <2> QED
    BY <1>2, <2>2 DEF Clocked
<1>3. CASE ch.mode \in {"send", "ptr", "data"} /\ ch.n = 7 /\ k <= 7 /\ (ch.mode # "send" => k = 7)
  <2>1. low = ByteIn(ch)
    BY <1>3 DEF Lowered
  <2>2. low.mode = ch.mode /\ low.n = 8
    BY <1>3, <2>1 DEF ByteIn, Chip
  <2> QED
    BY <1>3, <2>2 DEF Clocked
<1>4. CASE ch.mode = "addr" /\ ch.n = 7 /\ k = 7 /\ ch.byte = 2^(k + 1) - 1
  <2>1. ch.byte = 255
    BY <1>4, Powers
  <2>2. low = Off(ch)
    BY <1>4, <2>1 DEF Lowered, ByteIn, WriteAddress, ReadingAddress
  <2>3. low.mode = "off"
    BY <2>2 DEF Off, Chip
  <2> QED
    BY <2>3 DEF Clocked
<1>5. CASE ch.mode \in {"ptr", "data"} /\ k = 8 /\ ch.n = 8
  <2>1. low = [ch EXCEPT !.mode = "data", !.n = 0, !.byte = 0]
    BY <1>5 DEF Lowered, NextByte
  <2>2. low.mode = "data" /\ low.n = 0
    BY <2>1 DEF Chip
  <2> QED
    BY <1>5, <2>2 DEF Clocked
<1>6. ch.n \in -1..8
  BY ChipFields
<1>7. CASE ch.mode = "send" /\ k <= ch.n /\ ch.n <= 7
  <2>1. ch.n = 7 \/ ch.n \in 0..6
    BY <1>6, <1>7
  <2> QED
    BY <1>2, <1>3, <1>7, <2>1
<1>8. CASE /\ ch.mode \in {"addr", "ptr", "data"} /\ k <= 7 /\ ch.n = k
           /\ ch.mode = "addr" => ch.byte = 2^(k + 1) - 1
  <2>1. k = 7 \/ k \in 0..6
    BY <1>8
  <2> QED
    BY <1>2, <1>3, <1>4, <1>8, <2>1
<1> QED
  BY <1>1, <1>5, <1>7, <1>8 DEF Clocking

\* After nine clocks the chip is off, or waits for its next byte with SDA let go.
LEMMA NinthClock ==
    ASSUME NEW ch \in Chip, Clocked(ch, 9)
    PROVE  LET up == Raised(ch, SdaOf(1, ch))
           IN  up.mode = "off" \/ (up.mode = "data" /\ up.n = 0)
<1>0. ch.n \in -1..8
  BY ChipFields
<1>1. ch.mode = "off" \/ (ch.mode = "data" /\ ch.n = 0)
  BY <1>0 DEF Clocked
<1> QED
  BY <1>1 DEF Raised, Chip

LEMMA StopRises ==
    ASSUME NEW ch \in Chip, Listening(ch)
    PROVE  Listening(Raised(ch, 0))
<1>1. ch.byte = 0
  BY DEF Listening
<1>2. Raised(ch, 0) = [ch EXCEPT !.byte = 0]
  BY <1>1 DEF Raised, Listening
<1>3. Raised(ch, 0).mode = "addr" /\ Raised(ch, 0).n = 0 /\ Raised(ch, 0).byte = 0
  BY <1>2 DEF Listening, Chip
<1> QED
  BY <1>3 DEF Listening

-----------------------------------------------------------------------------
(* The reset frees the bus.                                                *)

\* One operation of the reset; the first may find the lines not as they were
\* set.
LEMMA ResetFirst ==
    ASSUME LinesOK, Undisturbed, LineOp, After(0), hold = FALSE
    PROVE  /\ After(1)' /\ control' = pins' /\ pins'.scl = 1
           /\ UNCHANGED <<vars, hold, temp, rx, err>>
<1>1. 0 \in 0..27 /\ 0 + 1 = 1
  OBVIOUS
<1>2. ResetOps[0 + 1] = "scl1"
  BY ResetOpByOp
<1>3. Head(todo) = "scl1" /\ (todo' = Tail(todo) => After(1)')
  BY <1>1, <1>2, Places, Zenon
<1>4. /\ SetLines([control EXCEPT !.scl = 1])
      /\ todo' = Tail(todo) /\ UNCHANGED <<vars, temp, rx, err>>
  BY <1>3 DEF LineOp
<1>5. PICK p : p = [control EXCEPT !.scl = 1]
  OBVIOUS
<1>6. control' = p /\ Drive(p) /\ hold' = hold
  BY <1>4, <1>5, Arrives
<1>7. p.scl = 1
  BY <1>5 DEF LinesOK, Lines
<1> QED
  BY <1>3, <1>4, <1>6, <1>7 DEF Drive

LEMMA ResetScl ==
    ASSUME LinesOK, Steady, Undisturbed, LineOp, NEW k \in 0..27, After(k), NEW b \in Level,
           ResetOps[k + 1] = IF b = 1 THEN "scl1" ELSE "scl0"
    PROVE  /\ After(k + 1)' /\ UNCHANGED <<vars, hold, temp, rx, err>>
           /\ control' = pins' /\ pins' = [sda |-> pins.sda, scl |-> b]
           /\ chip' = SclMoved(pins, chip, b)
<1>1. PICK x \in {"scl0", "scl1"} : x = ResetOps[k + 1] /\ b = (IF x = "scl1" THEN 1 ELSE 0)
  BY DEF Level
<1>2. /\ Tail(todo) \in Seq(Ops) /\ todo = <<x>> \o Tail(todo)
      /\ todo' = Tail(todo) => After(k + 1)'
  BY <1>1, Places
<1>3. PICK z \in Seq(Ops) : z = Tail(todo)
  BY <1>2
<1>4. /\ UNCHANGED <<vars, hold, temp, rx, err>> /\ todo' = z
      /\ control' = pins' /\ pins' = [sda |-> pins.sda, scl |-> b]
      /\ chip' = SclMoved(pins, chip, b)
  BY <1>1, <1>2, <1>3, SclStep
<1> QED
  BY <1>2, <1>3, <1>4

LEMMA ResetSda ==
    ASSUME LinesOK, Steady, Undisturbed, LineOp, NEW k \in 0..27, After(k), NEW b \in Level,
           ResetOps[k + 1] = SetSda(b)
    PROVE  /\ After(k + 1)' /\ UNCHANGED <<vars, hold, temp, rx, err>>
           /\ control' = pins' /\ pins' = [sda |-> b, scl |-> pins.scl]
           /\ chip' = SdaMoved(pins, chip, b)
<1>2. /\ Tail(todo) \in Seq(Ops) /\ todo = <<SetSda(b)>> \o Tail(todo)
      /\ todo' = Tail(todo) => After(k + 1)'
  BY Places
<1>3. PICK z \in Seq(Ops) : z = Tail(todo)
  BY <1>2
<1>4. /\ UNCHANGED <<vars, hold, temp, rx, err>> /\ todo' = z
      /\ control' = pins' /\ pins' = [sda |-> b, scl |-> pins.scl]
      /\ chip' = SdaMoved(pins, chip, b)
  BY <1>2, <1>3, SdaStep
<1> QED
  BY <1>2, <1>3, <1>4

LEMMA FreeingStep ==
    ASSUME LinesOK, Undisturbed, LineOp, Freeing, hold = FALSE, err = FALSE
    PROVE  Freeing' /\ UNCHANGED <<vars, hold, err>>
<1>0. chip \in Chip /\ temp \in Word /\ pins.sda \in Level /\ pins.scl \in Level
  BY Types DEF LinesOK
<1>1. CASE After(0)
  <2>1. After(1)' /\ control' = pins' /\ pins'.scl = 1 /\ UNCHANGED <<vars, hold, err>>
    BY <1>1, ResetFirst
  <2>2. Adrift(1)'
    BY <2>1 DEF Adrift
  <2>3. 1 \in 1..28
    OBVIOUS
  <2> QED
    BY <2>1, <2>2, <2>3 DEF Freeing
<1>2. ASSUME NEW k \in 1..28, After(k), control = pins, Adrift(k)
      PROVE  Freeing' /\ UNCHANGED <<vars, hold, err>>
  <2>0. Steady
    BY <1>2 DEF Steady
  <2>1. ASSUME NEW m, m = k + 1, k < 28, After(m)', control' = pins', Adrift(m)',
               UNCHANGED <<vars, hold, err>>
        PROVE  Freeing' /\ UNCHANGED <<vars, hold, err>>
    <3>1. m \in 1..28
      BY <2>1
    <3> QED
      BY <2>1, <3>1 DEF Freeing
  <2>2. ASSUME NEW b \in Level, k < 28, ResetOps[k + 1] = IF b = 1 THEN "scl1" ELSE "scl0"
        PROVE  /\ After(k + 1)' /\ UNCHANGED <<vars, hold, err>>
               /\ control' = pins' /\ pins' = [sda |-> pins.sda, scl |-> b]
               /\ chip' = SclMoved(pins, chip, b)
    <3>1. k \in 0..27
      BY <2>2
    <3> QED
      BY <1>2, <2>0, <2>2, <3>1, ResetScl
  <2>3. ASSUME NEW b \in Level, k < 28, ResetOps[k + 1] = SetSda(b)
        PROVE  /\ After(k + 1)' /\ UNCHANGED <<vars, hold, err>>
               /\ control' = pins' /\ pins' = [sda |-> b, scl |-> pins.scl]
               /\ chip' = SdaMoved(pins, chip, b)
    <3>1. k \in 0..27
      BY <2>3
    <3> QED
      BY <1>2, <2>0, <2>3, <3>1, ResetSda
  <2>4. 0 \in Level /\ 1 \in Level /\ SetSda(0) = "sda0" /\ SetSda(1) = "sda1"
    BY DEF Level, SetSda
  <2>5. CASE k = 1 /\ pins.scl = 1
    <3>1. /\ After(2)' /\ UNCHANGED <<vars, hold, err>>
          /\ control' = pins' /\ pins' = [sda |-> 1, scl |-> 1]
      BY <2>3, <2>4, <2>5, ResetOpByOp
    <3>2. Adrift(2)'
      BY <3>1 DEF Adrift, High
    <3> QED
      BY <2>1, <2>5, <3>1, <3>2
  <2>6. CASE k = 2 /\ pins = High
    <3>1. /\ After(3)' /\ UNCHANGED <<vars, hold, err>>
          /\ control' = pins' /\ pins' = [sda |-> 0, scl |-> 1]
          /\ chip' = SdaMoved(pins, chip, 0)
      BY <2>3, <2>4, <2>6, ResetOpByOp DEF High
    <3>2. CASE Pulls(chip)
      <4>1. chip' = chip
        BY <2>6, <3>1, <3>2 DEF SdaMoved, SdaOf, High
      <4> QED
        BY <2>1, <2>6, <3>1, <3>2, <4>1 DEF Adrift
    <3>3. CASE ~Pulls(chip)
      <4>1. chip' = Started(chip)
        BY <1>2, <2>6, <3>1, <3>3 DEF SdaMoved, SdaOf, High
      <4>2. /\ Started(chip).mode = "addr" /\ Started(chip).n = -1 /\ Started(chip).byte = 0
            /\ Started(chip).busy
        BY <1>0 DEF Started, Off, Chip
      <4>3. Begun'
        BY <3>1, <4>1, <4>2 DEF Begun
      <4> QED
        BY <2>1, <2>6, <3>1, <4>3 DEF Adrift
    <3> QED
      BY <3>2, <3>3
  <2>7. CASE k = 3 /\ pins = [sda |-> 0, scl |-> 1] /\ (Begun \/ Pulls(chip))
    <3>1. /\ After(4)' /\ UNCHANGED <<vars, hold, err>>
          /\ control' = pins' /\ pins' = [sda |-> 0, scl |-> 0]
          /\ chip' = SclMoved(pins, chip, 0)
      <4>1. k + 1 = 4 /\ k < 28 /\ ResetOps[k + 1] = "scl0"
        BY <2>7, ResetOpByOp
      <4> QED
        BY <2>2, <2>4, <2>7, <4>1
    <3>2. chip' = Lowered(chip, temp)
      BY <2>7, <3>1 DEF SclMoved
    <3>3. Clocked(chip', 0)
      BY <1>0, <2>7, <3>2, FirstFall DEF Begun
    <3> QED
      BY <2>1, <2>7, <3>1, <3>3 DEF Adrift
  <2>8. CASE k = 4 /\ pins = [sda |-> 0, scl |-> 0] /\ Clocked(chip, 0)
    <3>1. /\ After(5)' /\ UNCHANGED <<vars, hold, err>>
          /\ control' = pins' /\ pins' = [sda |-> 1, scl |-> 0]
          /\ chip' = SdaMoved(pins, chip, 1)
      BY <2>3, <2>4, <2>8, ResetOpByOp
    <3>2. Clocked(chip', 0) /\ 5 = 2 * 0 + 5 /\ 0 \in 0..9
      BY <2>8, <3>1 DEF SdaMoved
    <3> QED
      BY <2>1, <2>8, <3>1, <3>2 DEF Adrift
  <2>9. ASSUME NEW n \in 0..8, k = 2 * n + 5, pins = [sda |-> 1, scl |-> 0], Clocked(chip, n)
        PROVE  Freeing' /\ UNCHANGED <<vars, hold, err>>
    <3>1. k + 1 = 2 * n + 6 /\ k < 28 /\ k + 1 \in 6..23 /\ (k + 1) % 2 = 0
      BY <2>9
    <3>2. /\ After(k + 1)' /\ UNCHANGED <<vars, hold, err>>
          /\ control' = pins' /\ pins' = [sda |-> 1, scl |-> 1]
          /\ chip' = SclMoved(pins, chip, 1)
      BY <2>2, <2>4, <2>9, <3>1, ResetOpByOp
    <3>3. chip' = Raised(chip, SdaOf(1, chip))
      BY <1>2, <2>9, <3>2 DEF SclMoved
    <3>4. Clocking(chip', n)
      BY <1>0, <2>9, <3>3, ClockRises
    <3>5. Adrift(k + 1)'
      BY <3>1, <3>2, <3>4 DEF Adrift, High
    <3> QED
      BY <2>1, <3>1, <3>2, <3>5
  <2>10. ASSUME NEW n \in 0..8, k = 2 * n + 6, pins = High, Clocking(chip, n)
         PROVE  Freeing' /\ UNCHANGED <<vars, hold, err>>
    <3>1. k + 1 = 2 * (n + 1) + 5 /\ k < 28 /\ k + 1 \in 6..23 /\ (k + 1) % 2 = 1 /\ n + 1 \in 0..9
      BY <2>10
    <3>2. /\ After(k + 1)' /\ UNCHANGED <<vars, hold, err>>
          /\ control' = pins' /\ pins' = [sda |-> 1, scl |-> 0]
          /\ chip' = SclMoved(pins, chip, 0)
      BY <2>2, <2>4, <2>10, <3>1, ResetOpByOp DEF High
    <3>3. chip' = Lowered(chip, temp)
      BY <1>2, <2>10, <3>2 DEF SclMoved, High
    <3>4. Clocked(chip', n + 1)
      BY <1>0, <2>10, <3>3, ClockFalls
    <3>5. Adrift(k + 1)'
      BY <3>1, <3>2, <3>4 DEF Adrift
    <3> QED
      BY <2>1, <3>1, <3>2, <3>5
  <2>11. CASE k = 23 /\ pins = [sda |-> 1, scl |-> 0] /\ Clocked(chip, 9)
    <3>1. /\ After(24)' /\ UNCHANGED <<vars, hold, err>>
          /\ control' = pins' /\ pins' = [sda |-> 1, scl |-> 1]
          /\ chip' = SclMoved(pins, chip, 1)
      BY <2>2, <2>4, <2>11, ResetOpByOp
    <3>2. chip' = Raised(chip, SdaOf(1, chip))
      BY <1>2, <2>11, <3>1 DEF SclMoved
    <3>3. chip'.mode = "off" \/ (chip'.mode = "data" /\ chip'.n = 0)
      BY <1>0, <2>11, <3>2, NinthClock
    <3>4. Adrift(24)'
      BY <3>1, <3>3 DEF Adrift, High
    <3> QED
      BY <2>1, <2>11, <3>1, <3>4
  <2>12. CASE /\ k = 24 /\ pins = High
              /\ chip.mode = "off" \/ (chip.mode = "data" /\ chip.n = 0)
    <3>1. /\ After(25)' /\ UNCHANGED <<vars, hold, err>>
          /\ control' = pins' /\ pins' = [sda |-> 0, scl |-> 1]
          /\ chip' = SdaMoved(pins, chip, 0)
      BY <2>3, <2>4, <2>12, ResetOpByOp DEF High
    <3>2. ~Pulls(chip)
      BY <2>12 DEF Pulls
    <3>3. chip' = Started(chip)
      BY <1>2, <2>12, <3>1, <3>2 DEF SdaMoved, SdaOf, High
    <3>4. /\ Started(chip).mode = "addr" /\ Started(chip).n = -1 /\ Started(chip).byte = 0
          /\ Started(chip).busy
      BY <1>0 DEF Started, Off, Chip
    <3>5. Begun'
      BY <3>1, <3>3, <3>4 DEF Begun
    <3> QED
      BY <2>1, <2>12, <3>1, <3>5 DEF Adrift
  <2>13. CASE k = 25 /\ Begun
    <3>1. /\ After(26)' /\ UNCHANGED <<vars, hold, err>>
          /\ control' = pins' /\ pins' = [sda |-> 0, scl |-> 0]
          /\ chip' = SclMoved(pins, chip, 0)
      <4>1. k + 1 = 26 /\ k < 28 /\ ResetOps[k + 1] = "scl0"
        BY <2>13, ResetOpByOp
      <4> QED
        BY <2>2, <2>4, <2>13, <4>1 DEF Begun
    <3>2. chip' = [chip EXCEPT !.n = @ + 1]
      BY <2>13, <3>1 DEF SclMoved, Lowered, Begun
    <3>3. Listening(chip')
      BY <1>0, <2>13, <3>2 DEF Listening, Begun, Chip
    <3> QED
      BY <2>1, <2>13, <3>1, <3>3 DEF Adrift
  <2>14. CASE k = 26 /\ pins = [sda |-> 0, scl |-> 0] /\ Listening(chip)
    <3>1. /\ After(27)' /\ UNCHANGED <<vars, hold, err>>
          /\ control' = pins' /\ pins' = [sda |-> 0, scl |-> 1]
          /\ chip' = SclMoved(pins, chip, 1)
      BY <2>2, <2>4, <2>14, ResetOpByOp
    <3>2. chip' = Raised(chip, 0)
      BY <1>2, <2>14, <3>1 DEF SclMoved, SdaOf
    <3>3. Listening(chip')
      BY <1>0, <2>14, <3>2, StopRises
    <3> QED
      BY <2>1, <2>14, <3>1, <3>3 DEF Adrift
  <2>15. CASE k = 27 /\ pins = [sda |-> 0, scl |-> 1] /\ Listening(chip)
    <3>1. /\ After(28)' /\ UNCHANGED <<vars, hold, err>>
          /\ control' = pins' /\ pins' = [sda |-> 1, scl |-> 1]
          /\ chip' = SdaMoved(pins, chip, 1)
      BY <2>3, <2>4, <2>15, ResetOpByOp
    <3>2. ~Pulls(chip)
      BY <2>15 DEF Pulls, Listening
    <3>3. chip' = Stopped(chip)
      BY <1>2, <2>15, <3>1, <3>2 DEF SdaMoved, SdaOf
    <3>4. Stopped(chip).mode = "off" /\ ~Stopped(chip).busy
      BY <1>0 DEF Stopped, Off, Chip
    <3>5. Free'
      BY <3>1, <3>3, <3>4 DEF Free, High
    <3> QED
      BY <2>1, <2>15, <3>1, <3>5 DEF Adrift
  <2>16. CASE k = 28
    BY <1>2, <2>16, Ends DEF LineOp
  <2>17. ASSUME NEW n \in 0..9, k = 2 * n + 5, pins = [sda |-> 1, scl |-> 0], Clocked(chip, n)
         PROVE  Freeing' /\ UNCHANGED <<vars, hold, err>>
    <3>1. n = 9 \/ n \in 0..8
      OBVIOUS
    <3>2. n = 9 => k = 23 /\ Clocked(chip, 9)
      BY <2>17
    <3> QED
      BY <2>9, <2>11, <2>17, <3>1, <3>2
  <2> QED
    BY <1>2, <2>5, <2>6, <2>7, <2>8, <2>10, <2>12, <2>13, <2>14, <2>15, <2>16, <2>17 DEF Adrift
<1> QED
  BY <1>1, <1>2 DEF Freeing

-----------------------------------------------------------------------------
(* What the driver is at, whatever happens to it.                          *)

Resets  == {"attach_reset", "reset"}
Calling == {"cfg_read", "cfg_write", "temp_read"}

\* Between the driver's calls nothing is on its way; a reset has done so many of
\* its operations; no chip of this adapter holds SCL.
Flow ==
    /\ hold = FALSE /\ err = FALSE
    /\ drv \in {"closed", "ready"} \cup Resets \cup Calling
    /\ mark \in Nat /\ mark <= lost
    /\ drv \in {"closed", "ready"} => pc = "idle" /\ todo = <<>>
    /\ drv \in Resets => pc = "idle" /\ \E k \in 0..28 : After(k)

\* The transfer, its bits and the lines, whatever is lost and whenever the
\* process is killed.
Sound == LinesOK /\ IInv /\ Ordered /\ BitsLeft /\ Flow

Scripts == {CfgRead, CfgWrite, TempRead}

LEMMA MessageOK ==
    ASSUME NEW rd \in BOOLEAN, NEW bytes \in Seq(0..255), Len(bytes) \in 1..2
    PROVE  /\ Message(rd, bytes) \in Msg
           /\ \A m : m = Message(rd, bytes) =>
                /\ ~m.rev /\ ~m.noRdAck /\ ~m.nostart /\ ~m.ignNak /\ ~m.recvLen /\ ~m.ten
                /\ m.len = Len(bytes) /\ m.buf = bytes /\ m.rd = rd /\ m.addr = 79
<1> DEFINE B == Seq(0..255)
           A == 0..1023
           L == 0..MaxLen
<1>1. 79 \in A /\ Len(bytes) \in L /\ bytes \in B
  <2>1. PICK top \in Nat : top = MaxLen /\ top >= 2
    BY DEF MaxLen, BlockMax
  <2>2. PICK n \in 1..2 : n = Len(bytes)
    OBVIOUS
  <2>3. n \in 0..top
    BY <2>1
  <2> QED
    BY <2>1, <2>2, <2>3
<1>2. Msg = [addr : A, rd : BOOLEAN, ten : BOOLEAN, nostart : BOOLEAN, ignNak : BOOLEAN,
             noRdAck : BOOLEAN, recvLen : BOOLEAN, rev : BOOLEAN, len : L, buf : B]
  BY DEF Msg
<1> HIDE DEF A, B, L
<1>3. Message(rd, bytes) \in Msg
  BY <1>1, <1>2 DEF Message
<1>4. \A m : m = Message(rd, bytes) =>
         /\ ~m.rev /\ ~m.noRdAck /\ ~m.nostart /\ ~m.ignNak /\ ~m.recvLen /\ ~m.ten
         /\ m.len = Len(bytes) /\ m.buf = bytes /\ m.rd = rd /\ m.addr = 79
  BY DEF Message
<1> QED
  BY <1>3, <1>4

\* The driver's transfers: each message has its START, a read asks for one byte
\* or two and a write has them.
LEMMA ScriptsOK ==
    ASSUME NEW ms \in Scripts
    PROVE  ms \in Seq(Msg) /\ Orderly(ms)
<1>1. /\ <<RegConfig>> \in Seq(0..255) /\ Len(<<RegConfig>>) \in 1..2
      /\ <<RegTemp>> \in Seq(0..255) /\ Len(<<RegTemp>>) \in 1..2
      /\ <<RegConfig, FullResolution>> \in Seq(0..255) /\ Len(<<RegConfig, FullResolution>>) \in 1..2
      /\ <<0>> \in Seq(0..255) /\ Len(<<0>>) \in 1..2
      /\ <<0, 0>> \in Seq(0..255) /\ Len(<<0, 0>>) \in 1..2
  BY DEF RegConfig, RegTemp, FullResolution
<1> DEFINE Good(m) ==
             /\ m \in Msg /\ ~m.rev /\ ~m.noRdAck /\ ~m.nostart
             /\ m.len \in 1..2 /\ m.len = Len(m.buf)
<1>2. ASSUME NEW rd \in BOOLEAN, NEW bytes \in Seq(0..255), Len(bytes) \in 1..2
      PROVE  Good(Message(rd, bytes))
  <2>1. PICK m : m = Message(rd, bytes)
    OBVIOUS
  <2>2. m \in Msg
    BY <1>2, <2>1, MessageOK
  <2>3. ~m.rev /\ ~m.noRdAck /\ ~m.nostart /\ m.len = Len(bytes) /\ m.buf = bytes
    BY <1>2, <2>1, MessageOK
  <2>4. Good(m)
    BY <1>2, <2>2, <2>3
  <2> QED
    BY <2>1, <2>4
<1>3. PICK m1, m2, m3, m4, m5 :
         /\ m1 = Message(FALSE, <<RegConfig>>) /\ m2 = Message(TRUE, <<0>>)
         /\ m3 = Message(FALSE, <<RegConfig, FullResolution>>)
         /\ m4 = Message(FALSE, <<RegTemp>>) /\ m5 = Message(TRUE, <<0, 0>>)
  OBVIOUS
<1>4. Good(m1) /\ Good(m2) /\ Good(m3) /\ Good(m4) /\ Good(m5)
  <2> HIDE DEF Good
  <2>1. Good(m1)
    BY <1>1, <1>2, <1>3
  <2>2. Good(m2)
    BY <1>1, <1>2, <1>3
  <2>3. Good(m3)
    BY <1>1, <1>2, <1>3
  <2>4. Good(m4)
    BY <1>1, <1>2, <1>3
  <2>5. Good(m5)
    BY <1>1, <1>2, <1>3
  <2> QED
    BY <2>1, <2>2, <2>3, <2>4, <2>5
<1>5. ms \in {<<m1, m2>>, <<m3>>, <<m4, m5>>}
  BY <1>3 DEF Scripts, CfgRead, CfgWrite, TempRead
<1>6. ASSUME NEW a, NEW b, Good(a), Good(b)
      PROVE  /\ <<a, b>> \in Seq(Msg) /\ Orderly(<<a, b>>)
             /\ <<a>> \in Seq(Msg) /\ Orderly(<<a>>)
  <2>1. a \in Msg /\ b \in Msg
    BY <1>6
  <2>2. /\ <<a, b>> \in Seq(Msg) /\ Len(<<a, b>>) = 2
        /\ <<a>> \in Seq(Msg) /\ Len(<<a>>) = 1
    BY <2>1
  <2>3. <<a, b>>[1] = a /\ <<a, b>>[2] = b /\ <<a>>[1] = a
    OBVIOUS
  <2>4. ASSUME NEW m, Good(m)
        PROVE  ~m.rev /\ ~m.noRdAck /\ m.len > 0 /\ m.len = Len(m.buf) /\ ~m.nostart
    BY <2>4
  <2> HIDE DEF Good
  <2>5. Orderly(<<a, b>>)
    <3> SUFFICES ASSUME NEW k \in 1..2
                 PROVE  /\ ~<<a, b>>[k].rev /\ ~<<a, b>>[k].noRdAck
                        /\ <<a, b>>[k].rd => <<a, b>>[k].len > 0
                        /\ ~<<a, b>>[k].rd => <<a, b>>[k].len = Len(<<a, b>>[k].buf)
                        /\ ~<<a, b>>[k].nostart
      BY <2>2 DEF Orderly
    <3>1. k = 1 \/ k = 2
      OBVIOUS
    <3> QED
      BY <1>6, <2>3, <2>4, <3>1
  <2>6. Orderly(<<a>>)
    <3> SUFFICES ASSUME NEW k \in 1..1
                 PROVE  /\ ~<<a>>[k].rev /\ ~<<a>>[k].noRdAck
                        /\ <<a>>[k].rd => <<a>>[k].len > 0
                        /\ ~<<a>>[k].rd => <<a>>[k].len = Len(<<a>>[k].buf)
                        /\ ~<<a>>[k].nostart
      BY <2>2 DEF Orderly
    <3>1. k = 1
      OBVIOUS
    <3> QED
      BY <1>6, <2>3, <2>4, <3>1
  <2> QED
    BY <2>2, <2>5, <2>6
<1> HIDE DEF Good
<1> QED
  BY <1>4, <1>5, <1>6

\* What a step of the driver does to the transfer and to what a call has left.
LEMMA StepKinds ==
    ASSUME Flow, [TemperNext]_tvars
    PROVE  \/ UNCHANGED <<vars, todo, rx, err, hold>>
           \/ /\ pc = "idle" /\ todo = <<>> /\ todo' = ResetOps
              /\ UNCHANGED <<vars, rx, err, hold>>
           \/ \E ms \in Scripts : Call(ms)
           \/ LineOp
           \/ CallReturns
           \/ Kill
<1>1. CASE Open
  BY <1>1 DEF Open, BeginReset, Flow
<1>2. CASE AttachReadsConfig \/ AttachWritesConfig \/ UpdateReads
  BY <1>2 DEF AttachReadsConfig, AttachWritesConfig, UpdateReads, Scripts
<1>3. CASE AttachUpdates
  BY <1>3 DEF AttachUpdates, Returned, wire
<1>4. CASE AttachFails
  BY <1>4 DEF AttachFails, CloseLines
<1>5. CASE UpdateDone
  BY <1>5 DEF UpdateDone, wvars
<1>6. CASE OnWire
  BY <1>6 DEF OnWire, Wire
<1>7. CASE Update
  BY <1>7 DEF Update, BeginReset, wire, Flow
<1>8. CASE Replug
  BY <1>8 DEF Replug
<1>9. CASE Warms
  BY <1>9 DEF Warms, Measure, wire
<1>10. CASE UNCHANGED tvars
  BY <1>10 DEF tvars, wvars
<1> QED
  BY <1>1, <1>2, <1>3, <1>4, <1>5, <1>6, <1>7, <1>8, <1>9, <1>10 DEF TemperNext, Driver

LEMMA DriveOK ==
    ASSUME LinesOK, NEW p \in Lines, Drive(p)
    PROVE  pins' \in Lines /\ chip' \in Chip
<1>1. temp \in Word
  BY Types
<1>2. /\ [pins EXCEPT !.sda = p.sda] \in Lines /\ [pins EXCEPT !.scl = p.scl] \in Lines
      /\ p.sda \in Level /\ p.scl \in Level
  BY DEF LinesOK, Lines
<1>3. SdaMoved(pins, chip, p.sda) \in Chip /\ SclMoved(pins, chip, p.scl) \in Chip
  BY <1>1, <1>2, LinesMove DEF LinesOK
<1> QED
  BY <1>1, <1>2, <1>3, LinesMove DEF Drive

LEMMA TemperLines == LinesOK /\ [TemperNext]_tvars => LinesOK'
<1> SUFFICES ASSUME LinesOK, [TemperNext]_tvars PROVE LinesOK'
  OBVIOUS
<1>0. High \in Lines /\ [sda |-> 0, scl |-> 0] \in Lines
  BY DEF High, Lines, Level
<1>1. CASE Open
  <2>1. pins' \in Lines /\ chip' \in Chip
    BY <1>0, <1>1, DriveOK DEF Open
  <2> QED
    BY <1>0, <1>1, <2>1 DEF Open, LinesOK
<1>2. CASE AttachFails
  <2>1. pins' \in Lines /\ chip' \in Chip
    BY <1>0, <1>2, DriveOK DEF AttachFails, CloseLines
  <2> QED
    BY <1>0, <1>2, <2>1 DEF AttachFails, CloseLines, LinesOK
<1>3. CASE OnWire
  BY <1>3, LinesNext DEF OnWire, WireNext
<1>4. CASE Kill
  BY <1>0, <1>4 DEF Kill, LinesOK
<1>5. CASE Replug
  <2>1. PoweredUp \in Chip
    <3>1. 0 \in Word
      BY DEF Word
    <3> QED
      BY <3>1 DEF PoweredUp, Chip
  <2> QED
    BY <1>5, <2>1 DEF Replug, LinesOK
<1>6. CASE Warms
  BY <1>6 DEF Warms, Measure, wire, LinesOK
<1>7. CASE AttachReadsConfig \/ AttachWritesConfig \/ UpdateReads \/ AttachUpdates \/ Update
  BY <1>7 DEF AttachReadsConfig, AttachWritesConfig, UpdateReads, AttachUpdates, Update, Call, wire, LinesOK
<1>8. CASE UpdateDone \/ UNCHANGED tvars
  BY <1>8 DEF UpdateDone, tvars, wvars, LinesOK
<1> QED
  BY <1>1, <1>2, <1>3, <1>4, <1>5, <1>6, <1>7, <1>8 DEF TemperNext, Driver

LEMMA KillsAll ==
    ASSUME Kill
    PROVE  Init' /\ todo' = <<>> /\ rx' = 0 /\ err' = FALSE /\ hold' = hold
BY DEF Kill, Init

LEMMA InitOrdered == Init => Ordered
<1> SUFFICES ASSUME Init PROVE Ordered
  OBVIOUS
<1>1. pc = "idle" /\ msgs = <<>>
  BY DEF Init
<1>2. Len(msgs) = 0
  BY <1>1, EmptySeq
<1> QED
  BY <1>1, <1>2 DEF Ordered, Orderly

LEMMA TemperXfer ==
    ASSUME IInv, Ordered, BitsLeft, Flow, [TemperNext]_tvars
    PROVE  IInv' /\ Ordered'
<1>1. CASE UNCHANGED vars
  <2>1. IInv'
    BY <1>1, IInvNext
  <2> QED
    BY <1>1, <2>1 DEF vars, Ordered
<1>2. ASSUME NEW ms \in Scripts, Call(ms) PROVE IInv' /\ Ordered'
  <2>1. Xfer(ms) /\ ms \in Seq(Msg) /\ Orderly(ms)
    BY <1>2, ScriptsOK DEF Call
  <2>2. IInv'
    BY <2>1, XferIInv
  <2> QED
    BY <2>1, <2>2, XferOrdered
<1>3. CASE CallReturns
  <2>1. Master
    BY <1>3, ReturnIsStep
  <2>2. IInv'
    BY <2>1, IInvNext DEF Next
  <2> QED
    BY <2>1, <2>2, MasterOrdered
<1>4. CASE Kill
  <2>1. Init'
    BY <1>4, KillsAll
  <2>2. (Init => IInv /\ Ordered)'
    BY IInvInit, InitOrdered, PTL
  <2> QED
    BY <2>1, <2>2
<1>5. LineOp => UNCHANGED vars
  BY DEF LineOp
<1> QED
  BY <1>1, <1>2, <1>3, <1>4, <1>5, StepKinds

LEMMA ResetNoGet == NoGet(ResetOps) /\ ResetOps \in Seq(Ops)
<1>1. ASSUME NEW k \in 1..28 PROVE ResetOps[k] # "get"
  <2>1. \/ k \in {1, 2, 3, 4, 5} \/ k \in 6..23 \/ k \in {24, 25, 26, 27, 28}
    OBVIOUS
  <2> QED
    BY <2>1, ResetOpByOp
<1> QED
  BY <1>1, ResetOpByOp DEF NoGet

LEMMA TemperBits ==
    ASSUME BitsLeft, Flow, [TemperNext]_tvars
    PROVE  BitsLeft'
<1>1. CASE UNCHANGED <<vars, todo, rx, err, hold>>
  <2>1. Outs' = Outs /\ Ins' = Ins /\ OutByte' = OutByte /\ CallOps' = CallOps
    BY <1>1, CallsKept
  <2> QED
    BY <1>1, <2>1 DEF BitsLeft, OutLeft, InLeft
<1>2. ASSUME pc' = "idle", rx' = 0, err' = FALSE, hold' = FALSE, todo' \in Seq(Ops), NoGet(todo')
      PROVE  BitsLeft'
  <2>1. ~Outs' /\ ~Ins'
    BY <1>2 DEF Outs, Ins
  <2>2. rx' \in 0..255
    BY <1>2
  <2> QED
    BY <1>2, <2>1, <2>2, Zenon DEF BitsLeft
<1>3. CASE /\ pc = "idle" /\ todo = <<>> /\ todo' = ResetOps
           /\ UNCHANGED <<vars, rx, err, hold>>
  <2>1. rx = 0 /\ err = FALSE /\ hold = FALSE
    <3>1. ~Outs /\ ~Ins
      BY <1>3 DEF Outs, Ins
    <3> QED
      BY <3>1 DEF BitsLeft, Flow
  <2> QED
    BY <1>2, <1>3, <2>1, ResetNoGet DEF vars
<1>4. ASSUME NEW ms, Call(ms) PROVE BitsLeft'
  BY <1>4, BitsCall DEF Call, wire
<1>5. CASE CallReturns
  BY <1>5, BitsCall DEF CallReturns, wire
<1>6. CASE LineOp
  BY <1>6, BitsLineOp
<1>7. CASE Kill
  <2>1. pc' = "idle" /\ hold' = FALSE
    BY <1>7 DEF Kill, Flow
  <2>2. <<>> \in Seq(Ops) /\ NoGet(<<>>)
    BY ShortCalls, ShortNoGet
  <2> QED
    BY <1>2, <1>7, <2>1, <2>2, KillsAll
<1> QED
  BY <1>1, <1>3, <1>4, <1>5, <1>6, <1>7, StepKinds

\* A line operation of an adapter that is not held up.
LEMMA PlainOp ==
    ASSUME hold = FALSE, err = FALSE, LineOp, LinesOK
    PROVE  /\ hold' = FALSE /\ err' = FALSE /\ todo' = Tail(todo) /\ todo # <<>>
           /\ UNCHANGED <<vars, held>> /\ lost' \in {lost, lost + 1}
<1>1. CASE Head(todo) \in {"wait", "wait_or_fail"}
  BY <1>1 DEF LineOp
<1>2. ASSUME NEW p, SetLines(p), todo' = Tail(todo), UNCHANGED err
      PROVE  /\ hold' = FALSE /\ err' = FALSE /\ todo' = Tail(todo)
             /\ UNCHANGED held /\ lost' \in {lost, lost + 1}
  BY <1>2 DEF SetLines
<1> QED
  BY <1>1, <1>2 DEF LineOp

LEMMA FlowNext ==
    ASSUME LinesOK, Flow, [TemperNext]_tvars
    PROVE  Flow'
<1>0. lost \in Nat /\ held \in Nat /\ hold = FALSE /\ err = FALSE
  BY Types DEF Flow
<1> DEFINE Plain == hold' = FALSE /\ err' = FALSE
<1>1. CASE Open \/ Update
  <2>1. todo' = ResetOps /\ drv' \in Resets /\ mark' = lost /\ lost' = lost /\ pc' = "idle" /\ Plain
    BY <1>1 DEF Open, Update, BeginReset, Flow, wire, vars, Resets
  <2>2. After(0)' /\ 0 \in 0..28
    <3>1. (todo = ResetOps => After(0))'
      BY Ends, PTL
    <3> QED
      BY <2>1, <3>1
  <2>3. (\E k \in 0..28 : After(k))'
    BY <2>2
  <2>4. mark' \in Nat /\ mark' <= lost'
    BY <1>0, <2>1
  <2>5. drv' \notin {"closed", "ready"} /\ drv' \in {"closed", "ready"} \cup Resets \cup Calling
    BY <2>1 DEF Resets
  <2> QED
    BY <2>1, <2>3, <2>4, <2>5 DEF Flow
<1>2. CASE AttachUpdates
  <2>1. todo' = ResetOps /\ drv' = "reset" /\ mark' = mark /\ lost' = lost /\ pc' = "idle" /\ Plain
    BY <1>2 DEF AttachUpdates, Returned, Flow, wire, vars, Resets
  <2>2. After(0)' /\ 0 \in 0..28
    <3>1. (todo = ResetOps => After(0))'
      BY Ends, PTL
    <3> QED
      BY <2>1, <3>1
  <2>3. (\E k \in 0..28 : After(k))'
    BY <2>2
  <2> QED
    BY <1>0, <2>1, <2>3 DEF Flow, Resets
<1>3. CASE AttachReadsConfig \/ AttachWritesConfig \/ UpdateReads
  <2>1. drv' \in Calling /\ mark' = mark /\ lost' = lost /\ Plain
    BY <1>3 DEF AttachReadsConfig, AttachWritesConfig, UpdateReads, Call, Flow, wire, Calling
  <2> QED
    BY <1>0, <2>1 DEF Flow, Calling, Resets
<1>4. CASE AttachFails \/ UpdateDone \/ Kill \/ Replug \/ Warms \/ UNCHANGED tvars
  <2>1. CASE AttachFails
    BY <2>1 DEF AttachFails, CloseLines, Flow, Returned, vars, Resets, Calling
  <2>2. CASE UpdateDone
    BY <2>2 DEF UpdateDone, Flow, Returned, wvars, vars, Resets, Calling
  <2>3. CASE Kill
    BY <2>3 DEF Kill, Flow, Resets, Calling
  <2>4. CASE Replug
    BY <2>4 DEF Replug, Flow, vars, Resets, Calling
  <2>5. CASE Warms \/ UNCHANGED tvars
    <3>1. UNCHANGED <<vars, todo, hold, err, drv, mark, lost>>
      BY <2>5 DEF Warms, Measure, wire, tvars, wvars
    <3> QED
      BY <3>1 DEF Flow, After, vars
  <2> QED
    BY <1>4, <2>1, <2>2, <2>3, <2>4, <2>5
<1>5. CASE OnWire
  <2>1. UNCHANGED <<drv, mark>> /\ (LineOp \/ CallReturns)
    BY <1>5 DEF OnWire, Wire
  <2>2. CASE CallReturns
    <3>1. drv \in Calling
      BY <2>2 DEF CallReturns, Flow
    <3>2. lost' = lost /\ Plain
      BY <1>0, <2>2 DEF CallReturns, wire
    <3> QED
      BY <2>1, <3>1, <3>2 DEF Flow, Calling, Resets
  <2>3. CASE LineOp
    <3>1. Plain /\ todo' = Tail(todo) /\ todo # <<>> /\ UNCHANGED vars /\ lost' \in {lost, lost + 1}
      BY <1>0, <2>3, PlainOp
    <3>2. mark' \in Nat /\ mark' <= lost'
      BY <1>0, <2>1, <3>1 DEF Flow
    <3>3. ASSUME drv \in Resets PROVE (\E k \in 0..28 : After(k))'
      <4>1. PICK k \in 0..28 : After(k)
        BY <3>3 DEF Flow
      <4>2. k # 28
        BY <3>1, <4>1, Ends
      <4>3. k \in 0..27
        BY <4>2
      <4>4. After(k + 1)'
        BY <3>1, <4>1, <4>3, Places
      <4>5. k + 1 \in 0..28
        BY <4>3
      <4> QED
        BY <4>4, <4>5
    <3>4. drv \notin {"closed", "ready"}
      BY <3>1 DEF Flow
    <3>5. pc' = pc
      BY <3>1 DEF vars
    <3> QED
      BY <2>1, <3>1, <3>2, <3>3, <3>4, <3>5 DEF Flow
  <2> QED
    BY <2>1, <2>2, <2>3
<1> QED
  BY <1>1, <1>2, <1>3, <1>4, <1>5 DEF TemperNext, Driver

LEMMA SoundInit == TemperInit => Sound
<1> SUFFICES ASSUME TemperInit PROVE Sound
  OBVIOUS
<1>1. WireInit /\ drv = "closed" /\ mark = 0
  BY DEF TemperInit
<1>2. Init /\ todo = <<>> /\ err = FALSE /\ hold = FALSE /\ lost = 0
  BY <1>1 DEF WireInit
<1>3. LinesOK /\ BitsLeft /\ IInv /\ Ordered
  BY <1>1, <1>2, LinesInit, BitsInit, IInvInit, InitOrdered
<1>4. pc = "idle"
  BY <1>2 DEF Init
<1>5. Flow
  BY <1>1, <1>2, <1>4 DEF Flow, Resets
<1> QED
  BY <1>3, <1>5 DEF Sound

LEMMA SoundNext == Sound /\ [TemperNext]_tvars => Sound'
<1> SUFFICES ASSUME Sound, [TemperNext]_tvars PROVE Sound'
  OBVIOUS
<1>1. LinesOK /\ IInv /\ Ordered /\ BitsLeft /\ Flow
  BY DEF Sound
<1> QED
  BY <1>1, TemperLines, TemperXfer, TemperBits, FlowNext DEF Sound

\* A reset that no message was lost in since its attach or update began is where
\* it should be.
Undone == drv \in Resets /\ lost = mark => Freeing

LEMMA UndoneNext == Sound /\ Undone /\ [TemperNext]_tvars => Undone'
<1> SUFFICES ASSUME Sound, Undone, [TemperNext]_tvars, drv' \in Resets, lost' = mark' PROVE Freeing'
  BY DEF Undone
<1>0. LinesOK /\ Flow /\ lost \in Nat /\ mark \in Nat /\ mark <= lost /\ hold = FALSE /\ err = FALSE
  BY Types DEF Sound, Flow
<1>1. CASE Open \/ Update \/ AttachUpdates
  <2>1. todo' = ResetOps
    BY <1>1 DEF Open, Update, AttachUpdates, BeginReset
  <2>2. (todo = ResetOps => After(0))'
    BY Ends, PTL
  <2> QED
    BY <2>1, <2>2 DEF Freeing
<1>2. CASE \/ AttachReadsConfig \/ AttachWritesConfig \/ UpdateReads \/ AttachFails \/ UpdateDone
           \/ Kill \/ Replug
  <2>1. drv' \notin Resets
    BY <1>2 DEF AttachReadsConfig, AttachWritesConfig, UpdateReads, AttachFails, CloseLines, UpdateDone,
                Kill, Replug, Resets
  <2> QED
    BY <2>1
<1>3. CASE Warms \/ UNCHANGED tvars
  <2>1. UNCHANGED <<todo, control, pins, hold, chip, lost, drv, mark>>
    BY <1>3 DEF Warms, Measure, wire, tvars, wvars
  <2>2. Freeing
    BY <2>1 DEF Undone
  <2> QED
    BY <2>1, <2>2 DEF Freeing, After, Adrift, Begun, Free
<1>4. CASE OnWire
  <2>1. UNCHANGED <<drv, mark>> /\ (LineOp \/ CallReturns)
    BY <1>4 DEF OnWire, Wire
  <2>2. LineOp
    BY <1>0, <2>1 DEF CallReturns, Flow
  <2>3. lost' \in {lost, lost + 1} /\ held' = held
    BY <1>0, <2>2, PlainOp
  <2>4. lost' = lost
    BY <1>0, <2>1, <2>3
  <2>5. Undisturbed
    BY <2>3, <2>4 DEF Undisturbed
  <2>6. Freeing
    BY <2>1, <2>4 DEF Undone
  <2> QED
    BY <1>0, <2>2, <2>5, <2>6, FreeingStep
<1> QED
  BY <1>1, <1>2, <1>3, <1>4 DEF TemperNext, Driver

LEMMA UndoneInvariant == TemperSpec => [](Sound /\ Undone)
<1>1. TemperInit => Undone
  BY DEF TemperInit, Undone, Resets
<1> QED
  BY <1>1, SoundInit, SoundNext, UndoneNext, PTL DEF TemperSpec

\* What a reset that lost nothing leaves.
LEMMA ResetEnds ==
    ASSUME Sound, Undone, drv \in Resets, todo = <<>>, lost = mark
    PROVE  Free /\ Steady
<1>1. Freeing /\ hold = FALSE /\ err = FALSE
  BY DEF Undone, Sound, Flow
<1>2. ASSUME NEW k \in 0..27 PROVE ~After(k)
  <2>1. After(k) => Len(todo) = 28 - k
    BY DEF After
  <2> QED
    BY <2>1
<1>3. PICK k \in 1..28 : After(k) /\ Adrift(k) /\ control = pins
  <2>1. 0 \in 0..27
    OBVIOUS
  <2> QED
    BY <1>1, <1>2, <2>1 DEF Freeing
<1>4. k = 28
  <2>1. k \in 0..27 \/ k = 28
    OBVIOUS
  <2> QED
    BY <1>2, <1>3, <2>1
<1> QED
  BY <1>1, <1>3, <1>4 DEF Adrift, Steady

\* TEMPer.c:83-91: wherever the process before was killed, whatever it lost and
\* whatever the chip was doing, a reset that loses no message of its own leaves
\* the bus free.
THEOREM ResetsFree == TemperSpec => []ResetFrees
<1>1. ASSUME Sound, Undone PROVE ResetFrees
  <2> SUFFICES ASSUME drv \in Resets, todo = <<>>, lost = mark
               PROVE  chip.mode = "off" /\ ~chip.busy /\ WireSda = 1 /\ WireScl = 1
    BY DEF ResetFrees, Returned, Resets
  <2>1. pins.sda = 1 /\ pins.scl = 1 /\ ~hold /\ chip.mode = "off" /\ ~chip.busy
    BY <1>1, ResetEnds DEF Free, High
  <2> QED
    BY <2>1 DEF WireSda, WireScl, SdaOf, Pulls
<1>2. Sound /\ Undone => ResetFrees
  BY <1>1
<1> QED
  BY <1>2, UndoneInvariant, PTL

-----------------------------------------------------------------------------
(* The chip's registers.                                                   *)

SameRegisters(x, ch) == x.ptr = ch.ptr /\ x.cfg = ch.cfg /\ x.latch = ch.latch

\* The byte is of the register pointed to, the second half of the temperature if
\* the first comes next.
Tells(ch) ==
    /\ ch.ptr = RegConfig => ch.byte = ch.cfg
    /\ ch.ptr = RegTemp => ch.byte = IF ch.high THEN ch.latch % 256 ELSE ch.latch \div 256

\* The other half comes next.
Flips(x, ch) == x.high <=> ~ch.high

\* What a chip has acknowledged it has taken, and it sends the register it
\* points to.
Consistent(ch) ==
    /\ ch.mode = "ptr" /\ ch.n = 8 => ch.ptr = ch.byte % 4
    /\ ch.mode = "data" /\ ch.n = 8 /\ ch.ptr = RegConfig => ch.cfg = ch.byte
    /\ ch.mode = "send" => Tells(ch)

\* Only a falling SCL makes a chip store something.
LEMMA NothingFalls ==
    ASSUME NEW ch \in Chip
    PROVE  /\ \A x \in {Off(ch), Started(ch), Stopped(ch)} :
                 SameRegisters(x, ch) /\ x.mode \in {"off", "addr"} /\ x.n = -1
           /\ \A b \in Level :
                 /\ SameRegisters(Raised(ch, b), ch)
                 /\ \/ Raised(ch, b).mode = ch.mode /\ Raised(ch, b).n = ch.n
                    \/ ch.mode = "send" /\ ch.n = 8 /\ b = 1 /\ Raised(ch, b).mode = "off"
                 /\ ch.mode = "send" => Raised(ch, b) = ch \/ Raised(ch, b) = Off(ch)
                 /\ ch.n = 8 => Raised(ch, b) = ch \/ Raised(ch, b) = Off(ch)
                 /\ Raised(ch, b).mode # "off" => Raised(ch, b).high = ch.high
<1>1. /\ Off(ch).mode = "off" /\ Off(ch).n = -1 /\ SameRegisters(Off(ch), ch) /\ Off(ch) \in Chip
  <2>1. Off(ch) \in Chip
    BY ChipMoves
  <2> QED
    BY <2>1 DEF Off, SameRegisters, Chip
<1>2. /\ Started(ch).mode = "addr" /\ Started(ch).n = -1 /\ SameRegisters(Started(ch), ch)
      /\ Stopped(ch).mode = "off" /\ Stopped(ch).n = -1 /\ SameRegisters(Stopped(ch), ch)
  BY <1>1 DEF Started, Stopped, SameRegisters, Chip
<1>3. ASSUME NEW b \in Level
      PROVE  /\ SameRegisters(Raised(ch, b), ch)
             /\ \/ Raised(ch, b).mode = ch.mode /\ Raised(ch, b).n = ch.n
                \/ ch.mode = "send" /\ ch.n = 8 /\ b = 1 /\ Raised(ch, b).mode = "off"
             /\ ch.mode = "send" => Raised(ch, b) = ch \/ Raised(ch, b) = Off(ch)
             /\ ch.n = 8 => Raised(ch, b) = ch \/ Raised(ch, b) = Off(ch)
             /\ Raised(ch, b).mode # "off" => Raised(ch, b).high = ch.high
  <2> DEFINE up == Raised(ch, b)
  <2>1. CASE ch.mode \in {"addr", "ptr", "data"} /\ ch.n \in 0..7
    <3>1. up = [ch EXCEPT !.byte = (2 * @ + b) % 256]
      BY <2>1 DEF Raised
    <3>2. up.mode = ch.mode /\ up.n = ch.n /\ up.high = ch.high /\ SameRegisters(up, ch)
      BY <3>1 DEF SameRegisters, Chip
    <3> HIDE DEF up
    <3>3. ch.mode # "send" /\ ch.n # 8
      BY <2>1
    <3> QED
      BY <3>2, <3>3 DEF up
  <2>2. CASE ch.mode = "send" /\ ch.n = 8 /\ b = 1
    <3>1. up = Off(ch)
      BY <2>2 DEF Raised
    <3> QED
      BY <1>1, <2>2, <3>1
  <2>3. CASE ~(ch.mode \in {"addr", "ptr", "data"} /\ ch.n \in 0..7)
              /\ ~(ch.mode = "send" /\ ch.n = 8 /\ b = 1)
    <3>1. up = ch
      BY <2>3 DEF Raised
    <3> QED
      BY <3>1 DEF SameRegisters
  <2> QED
    BY <2>1, <2>2, <2>3
<1> QED
  BY <1>1, <1>2, <1>3

\* What a falling SCL does before the last bit, at it and at the acknowledge.
LEMMA FallsEarly ==
    ASSUME NEW ch \in Chip, NEW t \in Word, NEW low, low = Lowered(ch, t), ch.mode # "off",
           ch.n < 7
    PROVE  /\ SameRegisters(low, ch) /\ low.mode = ch.mode /\ low.n = ch.n + 1
           /\ low.byte = ch.byte /\ low.high = ch.high
<1>1. low = [ch EXCEPT !.n = @ + 1]
  BY DEF Lowered
<1>2. /\ low.mode = ch.mode /\ low.n = ch.n + 1 /\ low.byte = ch.byte /\ low.high = ch.high
      /\ low.ptr = ch.ptr /\ low.cfg = ch.cfg /\ low.latch = ch.latch
  BY <1>1 DEF Chip
<1>3. ch.n # 7 /\ ch.n # 8
  OBVIOUS
<1> QED
  BY <1>2, <1>3 DEF SameRegisters

LEMMA FallsLast ==
    ASSUME NEW ch \in Chip, NEW t \in Word, NEW low, low = Lowered(ch, t), ch.mode # "off",
           ch.n = 7
    PROVE  \/ ch.mode = "addr" /\ low = Off(ch) /\ low.mode = "off"
           \/ /\ low.mode = ch.mode /\ low.n = 8 /\ low.byte = ch.byte /\ low.high = ch.high
              /\ low.latch = ch.latch
              /\ low.ptr = IF ch.mode = "ptr" THEN ch.byte % 4 ELSE ch.ptr
              /\ low.cfg = IF ch.mode = "data" /\ ch.ptr = RegConfig THEN ch.byte ELSE ch.cfg
<1>1. low = ByteIn(ch) /\ ~(ch.n < 7) /\ ch.n # 8
  BY DEF Lowered
<1>2. CASE ch.mode = "addr" /\ ch.byte \notin {WriteAddress, ReadingAddress}
  <2>1. low = Off(ch)
    BY <1>1, <1>2 DEF ByteIn
  <2>2. Off(ch).mode = "off"
    BY DEF Off, Chip
  <2> QED
    BY <1>1, <1>2, <2>1, <2>2
<1>3. CASE ~(ch.mode = "addr" /\ ch.byte \notin {WriteAddress, ReadingAddress})
  <2>1. /\ low.mode = ch.mode /\ low.n = 8 /\ low.byte = ch.byte /\ low.high = ch.high
        /\ low.latch = ch.latch
        /\ low.ptr = IF ch.mode = "ptr" THEN ch.byte % 4 ELSE ch.ptr
        /\ low.cfg = IF ch.mode = "data" /\ ch.ptr = RegConfig THEN ch.byte ELSE ch.cfg
    BY <1>1, <1>3 DEF ByteIn, Chip
  <2> QED
    BY <1>1, <2>1
<1> QED
  BY <1>2, <1>3

LEMMA FallsAfter ==
    ASSUME NEW ch \in Chip, NEW t \in Word, NEW low, low = Lowered(ch, t), ch.mode # "off",
           ch.n = 8
    PROVE  /\ low.n = 0 /\ low.ptr = ch.ptr /\ low.cfg = ch.cfg
           /\ \/ /\ ch.mode = "addr" /\ ch.byte = ReadingAddress
                 /\ low.mode = "send" /\ low.latch = t /\ ~low.high
              \/ ch.mode = "addr" /\ ch.byte = WriteAddress /\ low.mode = "ptr" /\ low.latch = ch.latch
              \/ /\ ch.mode = "send" /\ low.mode = "send" /\ low.latch = ch.latch
                 /\ Flips(low, ch)
              \/ /\ \/ ch.mode \in {"ptr", "data"}
                    \/ (ch.mode = "addr" /\ ch.byte \notin {WriteAddress, ReadingAddress})
                 /\ low.mode = "data" /\ low.latch = ch.latch
           /\ low.mode = "send" => Tells(low)
<1>1. low = NextByte(ch, t) /\ ~(ch.n < 7) /\ ch.n # 7
  BY DEF Lowered
<1>2. CASE ch.mode = "addr" /\ ch.byte = ReadingAddress
  <2> DEFINE r == Register(ch, t, TRUE)
  <2>1. low = [ch EXCEPT !.mode = "send", !.n = 0, !.latch = t, !.byte = r, !.high = FALSE]
    <3>1. ~(ch.mode = "addr" /\ ch.byte = WriteAddress) /\ ch.mode # "send"
      BY <1>2 DEF WriteAddress, ReadingAddress
    <3> QED
      BY <1>1, <1>2, <3>1, Zenon DEF NextByte
  <2> HIDE DEF r
  <2>2. /\ low.n = 0 /\ low.ptr = ch.ptr /\ low.cfg = ch.cfg
        /\ low.mode = "send" /\ low.latch = t /\ low.high = FALSE
        /\ low.byte = r
    BY <2>1 DEF Chip
  <2>3. ch.byte # WriteAddress
    BY <1>2 DEF WriteAddress, ReadingAddress
  <2>4. /\ ch.ptr = RegConfig => r = ch.cfg
        /\ ch.ptr = RegTemp => r = t \div 256
    BY DEF r, Register, RegConfig, RegTemp
  <2>5. Tells(low)
    BY <2>2, <2>4 DEF Tells
  <2> QED
    BY <1>1, <1>2, <2>2, <2>3, <2>5
<1>3. CASE ch.mode = "addr" /\ ch.byte = WriteAddress
  <2>0. ch.byte # ReadingAddress
    BY <1>3 DEF WriteAddress, ReadingAddress
  <2>1. low = [ch EXCEPT !.mode = "ptr", !.n = 0, !.byte = 0]
    BY <1>1, <1>3, <2>0 DEF NextByte
  <2>2. /\ low.n = 0 /\ low.ptr = ch.ptr /\ low.cfg = ch.cfg
        /\ low.mode = "ptr" /\ low.latch = ch.latch
    BY <2>1 DEF Chip
  <2> QED
    BY <1>1, <1>3, <2>0, <2>2
<1>4. CASE ch.mode = "send"
  <2> DEFINE r == Register(ch, ch.latch, ch.high)
  <2>1. low = [ch EXCEPT !.n = 0, !.byte = r, !.high = ~@]
    BY <1>1, <1>4 DEF NextByte
  <2> HIDE DEF r
  <2>2. /\ low.n = 0 /\ low.ptr = ch.ptr /\ low.cfg = ch.cfg
        /\ low.mode = "send" /\ low.latch = ch.latch /\ low.high = ~ch.high
        /\ low.byte = r
    BY <1>4, <2>1 DEF Chip
  <2>3. /\ ch.ptr = RegConfig => r = ch.cfg
        /\ ch.ptr = RegTemp => r = IF ch.high THEN ch.latch \div 256 ELSE ch.latch % 256
    BY DEF r, Register, RegConfig, RegTemp
  <2>4. low.high <=> ~ch.high
    BY <2>2
  <2>5. Tells(low)
    BY <2>2, <2>3, <2>4 DEF Tells
  <2>6. Flips(low, ch)
    BY <2>4 DEF Flips
  <2> QED
    BY <1>1, <1>4, <2>2, <2>5, <2>6
<1>5. CASE /\ ~(ch.mode = "addr" /\ ch.byte = ReadingAddress)
           /\ ~(ch.mode = "addr" /\ ch.byte = WriteAddress)
           /\ ch.mode # "send"
  <2>1. low = [ch EXCEPT !.mode = "data", !.n = 0, !.byte = 0]
    BY <1>1, <1>5 DEF NextByte
  <2>2. /\ low.n = 0 /\ low.ptr = ch.ptr /\ low.cfg = ch.cfg
        /\ low.mode = "data" /\ low.latch = ch.latch
    BY <2>1 DEF Chip
  <2>3. \/ ch.mode \in {"ptr", "data"}
        \/ ch.mode = "addr" /\ ch.byte \notin {WriteAddress, ReadingAddress}
    BY <1>5 DEF Chip
  <2>4. low.mode # "send"
    BY <2>2
  <2> QED
    BY <2>2, <2>3, <2>4, Zenon
<1>6. \/ ch.mode = "addr" /\ ch.byte = ReadingAddress
      \/ ch.mode = "addr" /\ ch.byte = WriteAddress
      \/ ch.mode = "send"
      \/ /\ ~(ch.mode = "addr" /\ ch.byte = ReadingAddress)
         /\ ~(ch.mode = "addr" /\ ch.byte = WriteAddress)
         /\ ch.mode # "send"
  OBVIOUS
<1> QED
  BY ONLY <1>2, <1>3, <1>4, <1>5, <1>6, Zenon

LEMMA StaysConsistent ==
    ASSUME NEW ch \in Chip, Consistent(ch)
    PROVE  /\ Consistent(Off(ch)) /\ Consistent(Started(ch)) /\ Consistent(Stopped(ch))
           /\ \A b \in Level : Consistent(Raised(ch, b))
           /\ \A t \in Word : Consistent(Lowered(ch, t))
<1>1. \A x \in {Off(ch), Started(ch), Stopped(ch)} : Consistent(x)
  <2>1. \A x \in {Off(ch), Started(ch), Stopped(ch)} : x.mode \in {"off", "addr"}
    BY NothingFalls
  <2> QED
    BY <2>1 DEF Consistent
<1>2. ASSUME NEW b \in Level PROVE Consistent(Raised(ch, b))
  <2> DEFINE up == Raised(ch, b)
  <2>1. CASE up = ch \/ up = Off(ch)
    BY <1>1, <2>1
  <2>2. CASE up # ch /\ up # Off(ch)
    <3>1. /\ \/ up.mode = ch.mode /\ up.n = ch.n
             \/ ch.mode = "send" /\ ch.n = 8 /\ b = 1 /\ up.mode = "off"
          /\ ch.mode = "send" => up = ch \/ up = Off(ch)
          /\ ch.n = 8 => up = ch \/ up = Off(ch)
      BY NothingFalls
    <3> HIDE DEF up
    <3>2. up.mode = ch.mode /\ up.n = ch.n /\ ch.mode # "send" /\ ch.n # 8
      BY <2>2, <3>1
    <3> QED
      BY <3>2 DEF Consistent, up
  <2> QED
    BY <2>1, <2>2
<1>3. ASSUME NEW t \in Word PROVE Consistent(Lowered(ch, t))
  <2> DEFINE low == Lowered(ch, t)
  <2>1. CASE ch.mode = "off"
    BY <2>1 DEF Lowered
  <2>2. CASE ch.mode # "off"
    <3>1. CASE ch.n < 7
      <4>1. /\ SameRegisters(low, ch) /\ low.mode = ch.mode /\ low.n = ch.n + 1
            /\ low.byte = ch.byte /\ low.high = ch.high
        BY <2>2, <3>1, FallsEarly
      <4>2. low.n # 8
        <5>1. ch.n \in -1..8
          BY ChipFields
        <5> QED
          BY <3>1, <4>1, <5>1
      <4> HIDE DEF low
      <4>3. ch.mode = "send" => Tells(low)
        BY <4>1 DEF Tells, SameRegisters, Consistent
      <4> QED
        BY <4>1, <4>2, <4>3 DEF Consistent, low
    <3>2. CASE ch.n = 7
      <4>1. CASE low.mode = "off"
        BY <4>1 DEF Consistent
      <4>2. CASE low.mode # "off"
        <5>1. /\ low.mode = ch.mode /\ low.n = 8 /\ low.byte = ch.byte /\ low.high = ch.high
              /\ low.latch = ch.latch
              /\ low.ptr = IF ch.mode = "ptr" THEN ch.byte % 4 ELSE ch.ptr
              /\ low.cfg = IF ch.mode = "data" /\ ch.ptr = RegConfig THEN ch.byte ELSE ch.cfg
          BY <2>2, <3>2, <4>2, FallsLast
        <5> HIDE DEF low
        <5>2. ch.mode = "send" => Tells(low)
          BY <5>1 DEF Tells, Consistent
        <5>3. ch.mode = "ptr" => low.ptr = low.byte % 4
          BY <5>1
        <5>4. ch.mode = "data" /\ low.ptr = RegConfig => low.cfg = low.byte
          BY <5>1
        <5> QED
          BY <5>1, <5>2, <5>3, <5>4 DEF Consistent, low
      <4> QED
        BY <4>1, <4>2
    <3>3. CASE ch.n = 8
      <4>1. PICK l : l = Lowered(ch, t)
        OBVIOUS
      <4>2. l.n = 0
        BY ONLY <2>2, <3>3, <4>1, ch \in Chip, t \in Word, FallsAfter
      <4>3. l.mode = "send" => Tells(l)
        BY ONLY <2>2, <3>3, <4>1, ch \in Chip, t \in Word, FallsAfter
      <4> HIDE DEF low
      <4> QED
        BY <4>1, <4>2, <4>3 DEF Consistent, low
    <3>4. ch.n < 7 \/ ch.n = 7 \/ ch.n = 8
      BY DEF Chip
    <3> QED
      BY <3>1, <3>2, <3>3, <3>4
  <2> QED
    BY <2>1, <2>2
<1> QED
  BY <1>1, <1>2, <1>3

LEMMA MoveConsistent ==
    ASSUME NEW p \in Lines, NEW ch \in Chip, NEW b \in Level, temp \in Word, Consistent(ch)
    PROVE  Consistent(SdaMoved(p, ch, b)) /\ Consistent(SclMoved(p, ch, b))
<1>1. SdaMoved(p, ch, b) \in {ch, Started(ch), Stopped(ch)}
  BY DEF SdaMoved
<1>2. SdaOf(p.sda, ch) \in Level
  BY DEF SdaOf, Level
<1>3. SclMoved(p, ch, b) \in {ch, Raised(ch, SdaOf(p.sda, ch)), Lowered(ch, temp)}
  BY DEF SclMoved
<1> QED
  BY <1>1, <1>2, <1>3, StaysConsistent

LEMMA DriveConsistent ==
    ASSUME LinesOK, Consistent(chip), NEW p \in Lines, Drive(p)
    PROVE  Consistent(chip')
<1>1. temp \in Word /\ pins \in Lines /\ chip \in Chip
  BY Types DEF LinesOK
<1>2. /\ [pins EXCEPT !.sda = p.sda] \in Lines /\ [pins EXCEPT !.scl = p.scl] \in Lines
      /\ p.sda \in Level /\ p.scl \in Level
  BY DEF LinesOK, Lines
<1>3. /\ SdaMoved(pins, chip, p.sda) \in Chip /\ Consistent(SdaMoved(pins, chip, p.sda))
      /\ SclMoved(pins, chip, p.scl) \in Chip /\ Consistent(SclMoved(pins, chip, p.scl))
  BY <1>1, <1>2, LinesMove, MoveConsistent
<1> QED
  BY <1>1, <1>2, <1>3, MoveConsistent DEF Drive

LEMMA ConsistentNext ==
    ASSUME LinesOK, Flow, Consistent(chip), [TemperNext]_tvars
    PROVE  Consistent(chip')
<1>0. High \in Lines /\ [sda |-> 0, scl |-> 0] \in Lines
  BY DEF High, Lines, Level
<1>1. CASE Open \/ AttachFails
  BY <1>0, <1>1, DriveConsistent DEF Open, AttachFails, CloseLines
<1>2. CASE LineOp
  <2>1. ASSUME NEW p \in Lines, SetLines(p) PROVE Consistent(chip')
    BY <2>1, DriveConsistent DEF SetLines
  <2>2. ASSUME NEW b \in Level
        PROVE  [control EXCEPT !.sda = b] \in Lines /\ [control EXCEPT !.scl = b] \in Lines
    BY DEF LinesOK, Lines
  <2>3. 0 \in Level /\ 1 \in Level
    BY DEF Level
  <2>4. CASE Head(todo) \in {"sda0", "sda1", "get"}
    <3>1. \E b \in Level : SetLines([control EXCEPT !.sda = b])
      BY <1>2, <2>3, <2>4 DEF LineOp
    <3> QED
      BY <2>1, <2>2, <3>1
  <2>5. CASE Head(todo) \in {"scl0", "scl1"}
    <3>1. \E b \in Level : SetLines([control EXCEPT !.scl = b])
      BY <1>2, <2>3, <2>5 DEF LineOp
    <3> QED
      BY <2>1, <2>2, <3>1
  <2>6. CASE Head(todo) \in {"wait", "wait_or_fail"}
    BY <1>2, <2>6 DEF LineOp
  <2> QED
    BY <1>2, <2>4, <2>5, <2>6 DEF LineOp
<1>3. CASE Replug
  BY <1>3 DEF Replug, Consistent, PoweredUp
<1>4. CASE UNCHANGED chip
  BY <1>4
<1> QED
  BY <1>1, <1>2, <1>3, <1>4
     DEF TemperNext, Driver, AttachReadsConfig, AttachWritesConfig, AttachUpdates, UpdateReads, UpdateDone,
         OnWire, Wire, CallReturns, Update, Kill, Warms, Measure, Call, wire, wvars, tvars

\* What one line operation of an adapter that is not held up does to the chip.
LEMMA ChipOp ==
    ASSUME LinesOK, hold = FALSE, err = FALSE, control = pins, lost' = lost, LineOp
    PROVE  /\ UNCHANGED <<vars, temp, hold, err, got>> /\ control' = pins' /\ todo' = Tail(todo)
           /\ Head(todo) # "get" => rx' = rx
           /\ \/ chip' = chip
              \/ /\ Head(todo) = "scl0" /\ pins.scl = 1
                 /\ chip' = Lowered(chip, temp) /\ pins'.scl = 0
              \/ /\ Head(todo) = "scl1" /\ pins.scl = 0
                 /\ \E b \in Level : chip' = Raised(chip, b)
              \/ /\ Head(todo) \in {"sda0", "sda1", "get"} /\ pins.scl = 1
                 /\ chip' \in {Started(chip), Stopped(chip)}
           /\ Head(todo) = "scl0" /\ pins.scl = 1 => chip' = Lowered(chip, temp)
           /\ Head(todo) = "get" /\ pins.sda = 1 => chip' = chip
<1>1. pins.sda \in Level /\ pins.scl \in Level /\ pins = [sda |-> pins.sda, scl |-> pins.scl]
      /\ lost \in Nat
  BY Types
<1>2. ASSUME NEW b \in Level, SetLines([control EXCEPT !.sda = b])
      PROVE  /\ control' = pins' /\ hold' = hold
             /\ chip' = SdaMoved(pins, chip, b)
  <2>1. PICK p : p = [control EXCEPT !.sda = b]
    OBVIOUS
  <2>2. p.sda = b /\ p.scl = pins.scl
    BY <1>1, <2>1
  <2>3. control' = p /\ Drive(p) /\ hold' = hold
    BY <1>1, <1>2, <2>1 DEF SetLines
  <2>4. /\ \A x : SclMoved([pins EXCEPT !.sda = p.sda], x, p.scl) = x
        /\ SclMoved(pins, chip, p.scl) = chip
    BY <1>1, <2>2 DEF SclMoved
  <2>5. [pins EXCEPT !.scl = p.scl] = pins
    BY <1>1, <2>2
  <2> QED
    BY <2>2, <2>3, <2>4, <2>5 DEF Drive
<1>3. ASSUME NEW b \in Level, SetLines([control EXCEPT !.scl = b])
      PROVE  /\ control' = pins' /\ hold' = hold /\ pins'.scl = b
             /\ chip' = SclMoved(pins, chip, b)
  <2>1. PICK p : p = [control EXCEPT !.scl = b]
    OBVIOUS
  <2>2. p.scl = b /\ p.sda = pins.sda
    BY <1>1, <2>1
  <2>3. control' = p /\ Drive(p) /\ hold' = hold
    BY <1>1, <1>3, <2>1 DEF SetLines
  <2>4. /\ \A x : SdaMoved([pins EXCEPT !.scl = p.scl], x, p.sda) = x
        /\ SdaMoved(pins, chip, p.sda) = chip
    <3>1. [pins EXCEPT !.scl = p.scl].sda = pins.sda
      BY <1>1
    <3> QED
      BY <1>1, <2>2, <3>1 DEF SdaMoved
  <2>5. [pins EXCEPT !.sda = p.sda] = pins
    BY <1>1, <2>2
  <2> QED
    BY <2>2, <2>3, <2>4, <2>5 DEF Drive
<1>4. 0 \in Level /\ 1 \in Level
  BY DEF Level
<1>5. CASE Head(todo) \in {"sda0", "sda1", "get"}
  <2>1. PICK b \in Level : SetLines([control EXCEPT !.sda = b]) /\ (Head(todo) = "get" => b = 1)
    BY <1>4, <1>5 DEF LineOp
  <2>2. /\ control' = pins' /\ hold' = hold /\ chip' = SdaMoved(pins, chip, b)
    BY <1>2, <2>1
  <2>3. chip' = chip \/ (pins.scl = 1 /\ chip' \in {Started(chip), Stopped(chip)})
    BY <1>1, <2>2 DEF SdaMoved, Level
  <2>4. UNCHANGED <<vars, temp, err, got>> /\ todo' = Tail(todo) /\ (Head(todo) # "get" => rx' = rx)
    BY <1>5 DEF LineOp
  <2>5. Head(todo) = "get" /\ pins.sda = 1 => chip' = chip
    BY <2>1, <2>2 DEF SdaMoved
  <2> QED
    BY <1>5, <2>2, <2>3, <2>4, <2>5
<1>6. CASE Head(todo) = "scl0"
  <2>1. SetLines([control EXCEPT !.scl = 0]) /\ UNCHANGED <<vars, temp, err, got, rx>> /\ todo' = Tail(todo)
    BY <1>6 DEF LineOp
  <2>2. control' = pins' /\ hold' = hold /\ pins'.scl = 0 /\ chip' = SclMoved(pins, chip, 0)
    BY <1>3, <1>4, <2>1
  <2>3. (pins.scl = 0 /\ chip' = chip) \/ (pins.scl = 1 /\ chip' = Lowered(chip, temp))
    BY <1>1, <2>2 DEF SclMoved, Level
  <2> QED
    BY <1>6, <2>1, <2>2, <2>3
<1>7. CASE Head(todo) = "scl1"
  <2>1. SetLines([control EXCEPT !.scl = 1]) /\ UNCHANGED <<vars, temp, err, got, rx>> /\ todo' = Tail(todo)
    BY <1>7 DEF LineOp
  <2>2. control' = pins' /\ hold' = hold /\ chip' = SclMoved(pins, chip, 1)
    BY <1>3, <1>4, <2>1
  <2>3. SdaOf(pins.sda, chip) \in Level
    BY DEF SdaOf, Level
  <2>4. chip' = chip \/ (pins.scl = 0 /\ \E b \in Level : chip' = Raised(chip, b))
    BY <1>1, <2>2, <2>3 DEF SclMoved, Level
  <2> QED
    BY <1>7, <2>1, <2>2, <2>4
<1>8. CASE Head(todo) \in {"wait", "wait_or_fail"}
  BY <1>8 DEF LineOp
<1> QED
  BY <1>5, <1>6, <1>7, <1>8 DEF LineOp

-----------------------------------------------------------------------------
(* Where in a call SCL falls, and what the chip is at there.                *)

\* What follows the first operation.
LEMMA Tails ==
    ASSUME NEW z \in Seq(Ops), NEW w \in {"wait", "wait_or_fail"}, NEW b
    PROVE  /\ Tail(<<w>> \o z) = z /\ Tail(PulseOps(w, z)) = WaitThen(w, z)
           /\ Tail(SclThen(z)) = z /\ Tail(GetThen(z)) = SclThen(z)
           /\ Tail(<<"sda0">> \o z) = z /\ Tail(<<"sda1">> \o z) = z
           /\ Tail(<<SetSda(b)>> \o z) = z
<1>1. {"sda0", "sda1", "scl0", "scl1", "get"} \subseteq Ops /\ w \in Ops /\ SetSda(b) \in Ops
  BY DEF Ops, SetSda
<1>2. WaitThen(w, z) \in Seq(Ops) /\ SclThen(z) \in Seq(Ops)
  BY Pulses, ThenOps
<1> QED
  BY <1>1, <1>2, Cons DEF PulseOps, SclThen, GetThen

LEMMA PulseOp ==
    ASSUME NEW cell, NEW d, NEW w \in {"wait", "wait_or_fail"}, NEW z \in Seq(Ops), z # <<>>,
           Pulse(cell, d, w, z), hold = FALSE
    PROVE  /\ todo # <<>>
           /\ \/ Head(todo) = "scl1" /\ Tail(todo) # <<>> /\ chip = cell /\ pins.scl = 0
              \/ Head(todo) = w /\ Tail(todo) # <<>> /\ chip = Raised(cell, SdaOf(d, cell))
              \/ /\ todo = z /\ pins = [sda |-> d, scl |-> 1] /\ pins.sda = d
                 /\ chip = Raised(cell, SdaOf(d, cell))
<1>1. CASE todo = PulseOps(w, z) /\ Down(cell, d)
  <2>1. Head(todo) = "scl1" /\ Tail(todo) = WaitThen(w, z) /\ todo # <<>>
    BY <1>1, Heads, Tails, NotEmpty
  <2>2. WaitThen(w, z) # <<>>
    BY NotEmpty DEF WaitThen
  <2> QED
    BY <1>1, <2>1, <2>2 DEF Down
<1>2. CASE todo = <<w>> \o z /\ Rising(cell, d)
  <2>1. Head(todo) = w /\ Tail(todo) = z /\ todo # <<>>
    BY <1>2, Heads, Tails, NotEmpty
  <2> QED
    BY <1>2, <2>1 DEF Rising
<1>3. CASE todo = z /\ Up(cell, d)
  BY <1>3 DEF Up, Rising
<1> QED
  BY <1>1, <1>2, <1>3 DEF Pulse

\* In i2c_outb() SCL falls after each bit, last after the acknowledge.
LEMMA OutFalls ==
    ASSUME NEW c \in 0..255, AtOut(c), Outs, todo # <<>>, hold = FALSE
    PROVE  /\ chip.mode # "send"
           /\ chip.mode # "off" => Listener(chip)
           /\ chip.mode = "off" => (pc = "addr" => phase = "x2" \/ c \notin {WriteAddress, ReadingAddress})
           /\ \/ /\ Tail(todo) # <<>>
                 /\ Head(todo) = "scl0" => chip.mode = "off" \/ chip.n \in 0..7
              \/ Tail(todo) = <<>> /\ Head(todo) = "scl0" /\ pins.scl = 1 /\ Answers(chip, c)
           /\ Head(todo) \in {"sda0", "sda1"} => pins.scl = 0
           /\ Head(todo) = "get" => pins.sda = 1
<1> DEFINE fall == SclThen(<<>>)
           take == GetThen(<<>>)
<1>1. /\ fall \in Seq(Ops) /\ fall # <<>> /\ Head(fall) = "scl0" /\ Tail(fall) = <<>>
      /\ take \in Seq(Ops) /\ take # <<>> /\ Head(take) = "get" /\ Tail(take) = fall
  BY FallHead, TakeHead, ShortCalls, Tails
<1>2. /\ AckOps # <<>> /\ Head(AckOps) = "sda1" /\ Tail(AckOps) # <<>>
  <2>1. /\ <<>> \in Seq(Ops) /\ ReadBit \in Seq(Ops) /\ AckOps = <<"sda1">> \o ReadBit
        /\ ReadBit = PulseOps("wait_or_fail", take)
    BY ShortCalls
  <2>2. Tail(AckOps) = ReadBit /\ ReadBit # <<>>
    BY <1>1, <2>1, Tails, NotEmpty
  <2> QED
    BY <2>2, FirstOps
<1> HIDE DEF fall, take
<1>3. 0 \in Level /\ 1 \in Level
  BY DEF Level
<1>4. ASSUME NEW cell \in Chip, NEW b \in Level, cell.mode # "send"
      PROVE  Raised(cell, b).mode = cell.mode /\ Raised(cell, b).n = cell.n
  BY <1>4, NothingFalls
<1>5. ASSUME NEW n \in 0..7, AtOutBit(c, n)
      PROVE  /\ chip.mode # "send" /\ (chip.mode # "off" => Listener(chip))
             /\ chip.mode = "off" => (pc = "addr" => phase = "x2")
             /\ Tail(todo) # <<>> /\ (chip.mode = "off" \/ chip.n \in 0..7)
             /\ Head(todo) \in {"sda0", "sda1"} => pins.scl = 0
             /\ Head(todo) = "get" => pins.sda = 1
  <2> DEFINE r == OutRest(c)[n + 2]
             z == SclThen(r)
  <2>1. /\ OutRest(c)[n + 1] \in Seq(Ops) /\ r \in Seq(Ops) /\ r # <<>>
        /\ z \in Seq(Ops) /\ z # <<>> /\ Head(z) = "scl0" /\ Tail(z) = r
    BY OutParts, NotEmpty, Heads, Tails
  <2>2. PulseOps("wait_or_fail", z) \in Seq(Ops) /\ PulseOps("wait_or_fail", z) # <<>>
    BY <2>1, Pulses, NotEmpty
  <2>3. Tail(OutRest(c)[n + 1]) # <<>>
    <3> DEFINE p == PulseOps("wait_or_fail", z)
    <3>1. OutRest(c)[n + 1] = <<SetSda(BitOf(c, n))>> \o p
      BY OutOps
    <3>2. PICK b : b = BitOf(c, n)
      OBVIOUS
    <3>3. "wait" \in {"wait", "wait_or_fail"}
      OBVIOUS
    <3> HIDE DEF p
    <3>4. p \in Seq(Ops) /\ p # <<>>
      BY <2>2 DEF p
    <3>5. Tail(<<SetSda(b)>> \o p) = p
      BY <3>3, <3>4, Tails
    <3> QED
      BY <3>1, <3>2, <3>4, <3>5
  <2>4. BitOf(c, n) \in Level
    BY Bit
  <2>5. PICK cell \in Chip :
           /\ Listens(cell, n, c \div 2^(8 - n))
           /\ \/ todo = OutRest(c)[n + 1] /\ \E d \in Level : Down(cell, d)
              \/ Pulse(cell, BitOf(c, n), "wait_or_fail", z)
    BY <1>5 DEF AtOutBit
  <2> HIDE DEF r, z
  <2>6. /\ cell.mode # "send" /\ (cell.mode # "off" => Listener(cell) /\ cell.n = n)
        /\ cell.mode = "off" => (pc = "addr" => phase = "x2")
    BY <2>5 DEF Listens, Listener
  <2>7. ASSUME chip.mode = cell.mode, chip.n = cell.n
        PROVE  /\ chip.mode # "send" /\ (chip.mode # "off" => Listener(chip))
               /\ chip.mode = "off" => (pc = "addr" => phase = "x2")
               /\ chip.mode = "off" \/ chip.n \in 0..7
    BY <2>6, <2>7 DEF Listener
  <2>8. CASE todo = OutRest(c)[n + 1] /\ \E d \in Level : Down(cell, d)
    <3>1. Head(OutRest(c)[n + 1]) \in {"sda0", "sda1"}
      BY OutParts
    <3> QED
      BY <2>3, <2>7, <2>8, <3>1 DEF Down
  <2>9. CASE Pulse(cell, BitOf(c, n), "wait_or_fail", z)
    <3>1. SdaOf(BitOf(c, n), cell) \in Level
      BY <1>3 DEF SdaOf
    <3>2. /\ \/ Tail(todo) # <<>> /\ chip = cell
             \/ Tail(todo) # <<>> /\ chip = Raised(cell, SdaOf(BitOf(c, n), cell))
             \/ todo = z /\ chip = Raised(cell, SdaOf(BitOf(c, n), cell))
          /\ Head(todo) \in {"scl1", "wait_or_fail", "scl0"}
      BY <2>1, <2>9, PulseOp
    <3>3. chip.mode = cell.mode /\ chip.n = cell.n
      BY <1>4, <2>6, <3>1, <3>2
    <3> QED
      BY <2>1, <2>7, <3>2, <3>3
  <2> QED
    BY <2>5, <2>8, <2>9
<1>6. ASSUME AtOutAck(c)
      PROVE  /\ chip.mode # "send" /\ (chip.mode # "off" => Listener(chip))
             /\ chip.mode = "off" => Deaf(chip, c)
             /\ \/ Tail(todo) # <<>> /\ Head(todo) # "scl0"
                \/ Tail(todo) = <<>> /\ Head(todo) = "scl0" /\ pins.scl = 1 /\ Answers(chip, c)
             /\ Head(todo) \in {"sda0", "sda1"} => pins.scl = 0
             /\ Head(todo) = "get" => pins.sda = 1
  <2>1. PICK cell \in Chip :
           /\ Answers(cell, c)
           /\ \/ todo = AckOps /\ \E d \in Level : Down(cell, d)
              \/ Pulse(cell, 1, "wait_or_fail", take)
              \/ todo = fall /\ Up(cell, 1)
    BY <1>6 DEF AtOutAck, fall, take
  <2>2. /\ cell.mode # "send" /\ (cell.mode # "off" => Listener(cell))
        /\ cell.mode = "off" => Deaf(cell, c)
        /\ cell.mode = "off" \/ cell.n = 8
    BY <2>1 DEF Answers, Listener, Deaf
  <2>3. SdaOf(1, cell) \in Level
    BY <1>3 DEF SdaOf
  <2>4. Raised(cell, SdaOf(1, cell)) = cell
    BY <2>2 DEF Raised
  <2>5. CASE todo = AckOps /\ \E d \in Level : Down(cell, d)
    BY <1>2, <2>2, <2>5 DEF Down
  <2>6. CASE Pulse(cell, 1, "wait_or_fail", take)
    <3>1. /\ chip = cell
          /\ \/ Head(todo) = "scl1" /\ Tail(todo) # <<>>
             \/ Head(todo) = "wait_or_fail" /\ Tail(todo) # <<>>
             \/ todo = take /\ pins.sda = 1
      <4>1. PICK d : d = 1
        OBVIOUS
      <4>2. Pulse(cell, d, "wait_or_fail", take) /\ Raised(cell, SdaOf(d, cell)) = cell
        BY <2>4, <2>6, <4>1
      <4>3. \/ Head(todo) = "scl1" /\ Tail(todo) # <<>> /\ chip = cell
            \/ Head(todo) = "wait_or_fail" /\ Tail(todo) # <<>> /\ chip = cell
            \/ todo = take /\ pins.sda = d /\ chip = cell
        BY <1>1, <4>2, PulseOp
      <4> QED
        BY <4>1, <4>3
    <3>2. /\ Tail(todo) # <<>> /\ Head(todo) \notin {"scl0", "sda0", "sda1"}
          /\ Head(todo) = "get" => pins.sda = 1
      BY <1>1, <3>1
    <3> QED
      BY <2>2, <3>1, <3>2
  <2>7. CASE todo = fall /\ Up(cell, 1)
    <3>1. chip = cell /\ pins.scl = 1
      BY <2>4, <2>7 DEF Up, Rising
    <3> QED
      BY <1>1, <2>1, <2>2, <2>7, <3>1
  <2> QED
    BY <2>1, <2>5, <2>6, <2>7
<1>7. CASE \E n \in 0..7 : AtOutBit(c, n)
  BY <1>5, <1>7
<1>8. CASE AtOutAck(c)
  <2>1. chip.mode = "off" => (pc = "addr" => phase = "x2" \/ c \notin {WriteAddress, ReadingAddress})
    BY <1>6, <1>8 DEF Deaf
  <2> QED
    BY <1>6, <1>8, <2>1
<1> QED
  BY <1>7, <1>8 DEF AtOut

\* In i2c_inb() SCL falls after each bit of a byte.
LEMMA InFalls ==
    ASSUME AtIn, todo # <<>>, hold = FALSE, Head(todo) = "scl0"
    PROVE  chip.mode = "off" \/ (chip.mode = "send" /\ chip.n \in 0..7)
<1>1. Head(InbOps) = "sda1"
  BY FirstOps
<1>2. PICK n \in 0..7, cell \in Chip :
         /\ Sends(cell, n)
         /\ \/ Pulse(cell, 1, "wait_or_fail", GetThen(InRest[n + 2]))
            \/ Up(cell, 1)
  BY <1>1 DEF AtIn
<1>3. ~Pulse(cell, 1, "wait_or_fail", GetThen(InRest[n + 2]))
  <2> DEFINE z == GetThen(InRest[n + 2])
  <2>1. z \in Seq(Ops) /\ z # <<>> /\ Head(z) = "get"
    BY InParts, NotEmpty, Heads
  <2> HIDE DEF z
  <2>2. ASSUME Pulse(cell, 1, "wait_or_fail", z) PROVE FALSE
    BY <2>1, <2>2, PulseOp
  <2> QED
    BY <2>2 DEF z
<1>4. Raised(cell, SdaOf(1, cell)) = cell
  BY <1>2 DEF Sends, Raised
<1> QED
  BY <1>2, <1>3, <1>4 DEF Up, Rising, Sends

\* In acknak() it falls once, at the end.
LEMMA AckFalls ==
    ASSUME AtAck, todo # <<>>, hold = FALSE
    PROVE  /\ chip.mode \in {"off", "send"}
           /\ \/ Tail(todo) # <<>> /\ Head(todo) # "scl0"
              \/ /\ Tail(todo) = <<>> /\ Head(todo) = "scl0" /\ pins.scl = 1
                 /\ chip.mode = "off" \/ (AckLevel = 0 /\ chip.mode = "send" /\ chip.n = 8)
<1> DEFINE fall == SclThen(<<>>)
           p == PulseOps("wait_or_fail", fall)
<1>1. fall \in Seq(Ops) /\ fall # <<>> /\ Head(fall) = "scl0" /\ Tail(fall) = <<>>
  BY FallHead, ShortCalls, Tails
<1>2. p \in Seq(Ops) /\ p # <<>>
  BY <1>1, Pulses, NotEmpty
<1> HIDE DEF fall, p
<1>3. Tail(<<"sda0">> \o p) = p /\ Head(<<"sda0">> \o p) = "sda0"
  BY <1>2, Tails, Heads
<1>4. PICK cell \in Chip :
         /\ Sends(cell, 8)
         /\ \/ Down(cell, 1) /\ todo = <<"sda0">> \o p
            \/ Pulse(cell, AckLevel, "wait_or_fail", fall)
  BY DEF AtAck, fall, p
<1>5. cell.mode \in {"off", "send"} /\ (cell.mode = "send" => cell.n = 8)
  BY <1>4 DEF Sends
<1>6. AckLevel \in {0, 1}
  BY DEF AckLevel
<1>7. CASE Down(cell, 1) /\ todo = <<"sda0">> \o p
  BY <1>2, <1>3, <1>5, <1>7 DEF Down
<1>8. CASE Pulse(cell, AckLevel, "wait_or_fail", fall)
  <2> DEFINE up == Raised(cell, SdaOf(AckLevel, cell))
  <2>1. /\ AckLevel = 0 => up = cell
        /\ AckLevel = 1 /\ cell.mode = "send" => up = Off(cell)
        /\ cell.mode = "off" => up = cell
    BY <1>5 DEF Raised, SdaOf, Pulls
  <2>2. Off(cell).mode = "off"
    BY DEF Off, Chip
  <2> HIDE DEF up
  <2>3. up.mode = "off" \/ (AckLevel = 0 /\ up.mode = "send" /\ up.n = 8)
    BY <1>5, <1>6, <2>1, <2>2
  <2>4. \/ Head(todo) = "scl1" /\ Tail(todo) # <<>> /\ chip = cell
        \/ Head(todo) = "wait_or_fail" /\ Tail(todo) # <<>> /\ chip = up
        \/ todo = fall /\ pins = [sda |-> AckLevel, scl |-> 1] /\ chip = up
    BY <1>1, <1>8, PulseOp DEF up
  <2> QED
    BY <1>1, <1>5, <2>3, <2>4
<1> QED
  BY <1>4, <1>7, <1>8

\* A START lets SCL fall once, a STOP does not.
LEMMA ConditionFalls ==
    ASSUME AtStart \/ AtRep \/ AtStop, todo # <<>>, hold = FALSE, Head(todo) = "scl0"
    PROVE  Begun
<1> DEFINE fall == SclThen(<<>>)
           tail == <<"sda0">> \o fall
<1>1. fall \in Seq(Ops) /\ CallOps \in Seq(Ops) /\ <<"sda1">> \in Seq(Ops) /\ <<"sda1">> # <<>>
  BY FallHead, CallOpsSeq, ShortCalls
<1>2. tail \in Seq(Ops) /\ tail # <<>> /\ Head(tail) = "sda0" /\ Head(<<"sda1">>) = "sda1"
  <2>1. "sda0" \in Ops
    BY DEF Ops
  <2> QED
    BY <1>1, <2>1, Cons
<1>3. Head(RepStartOps) = "sda1" /\ Head(StopOps) = "sda0"
  BY FirstOps
<1>4. Head(StartOps \o CallOps) = "sda0"
  <2>1. StartOps \o CallOps = <<"sda0">> \o SclThen(CallOps) /\ SclThen(CallOps) \in Seq(Ops)
    BY <1>1, Starting
  <2>2. "sda0" \in Ops
    BY DEF Ops
  <2> QED
    BY <2>1, <2>2, Cons
<1> HIDE DEF fall, tail
<1>5. ASSUME NEW cell, NEW d, NEW z \in Seq(Ops), z # <<>>, Pulse(cell, d, "wait", z), Head(z) # "scl0"
      PROVE  FALSE
  BY <1>5, PulseOp
<1>6. ASSUME NEW cell, Pulse(cell, 1, "wait", tail) PROVE FALSE
  BY <1>2, <1>5, <1>6
<1>7. ASSUME NEW cell, Pulse(cell, 0, "wait", <<"sda1">>) PROVE FALSE
  BY <1>1, <1>2, <1>5, <1>7
<1>8. CASE AtStart
  BY <1>4, <1>8 DEF AtStart
<1>9. CASE AtRep
  BY <1>3, <1>6, <1>9 DEF AtRep, tail, fall
<1>10. CASE AtStop
  BY <1>3, <1>7, <1>10 DEF AtStop
<1> QED
  BY <1>8, <1>9, <1>10

\* What a line operation of a transfer does to the chip while nothing is lost:
\* nothing but to its bits, or the last bit of a byte completes it, or the
\* acknowledge is over and the call with it.
Shifts ==
    /\ SameRegisters(chip', chip)
    /\ pc \in {"send", "ack"} /\ todo' = <<>> => chip.mode = "off"
    /\ \/ chip'.mode = chip.mode /\ chip'.high = chip.high
       \/ chip'.mode \in {"off", "addr"} /\ pc # "send"

Takes ==
    /\ pc = "send" /\ todo' # <<>>
    /\ chip.mode \in {"ptr", "data"} /\ chip'.mode = chip.mode
    /\ chip'.high = chip.high /\ chip'.latch = chip.latch
    /\ chip.mode = "ptr" => chip'.cfg = chip.cfg
    /\ chip.mode = "data" => chip'.ptr = chip.ptr

GoesOn ==
    /\ todo' = <<>> /\ chip.n = 8 /\ chip'.ptr = chip.ptr /\ chip'.cfg = chip.cfg
    /\ \/ /\ pc = "addr" /\ chip.byte = OutByte
          /\ \/ OutByte = WriteAddress /\ chip'.mode = "ptr" /\ chip'.latch = chip.latch
             \/ OutByte = ReadingAddress /\ chip'.mode = "send" /\ chip'.latch = temp /\ ~chip'.high
       \/ /\ pc = "send" /\ chip.mode \in {"ptr", "data"} /\ chip.byte = OutByte
          /\ chip'.mode = "data" /\ chip'.latch = chip.latch
       \/ /\ pc = "ack" /\ AckLevel = 0 /\ chip.mode = "send" /\ chip'.mode = "send"
          /\ Flips(chip', chip) /\ chip'.latch = chip.latch

LEMMA Falls ==
    ASSUME chip \in Chip, temp \in Word, chip' = Lowered(chip, temp), chip.mode # "off"
    PROVE  /\ chip.n < 7 => SameRegisters(chip', chip) /\ chip'.mode = chip.mode /\ chip'.high = chip.high
           /\ chip.n = 7 /\ chip'.mode # "off" =>
                 /\ chip'.mode = chip.mode /\ chip'.high = chip.high /\ chip'.latch = chip.latch
                 /\ chip'.ptr = IF chip.mode = "ptr" THEN chip.byte % 4 ELSE chip.ptr
                 /\ chip'.cfg = IF chip.mode = "data" /\ chip.ptr = RegConfig THEN chip.byte ELSE chip.cfg
           /\ chip.n = 7 /\ chip'.mode = "off" => chip.mode = "addr" /\ SameRegisters(chip', chip)
           /\ chip.n = 8 =>
                 /\ chip'.ptr = chip.ptr /\ chip'.cfg = chip.cfg
                 /\ chip.mode = "addr" /\ chip.byte = ReadingAddress =>
                       chip'.mode = "send" /\ chip'.latch = temp /\ ~chip'.high
                 /\ chip.mode = "addr" /\ chip.byte = WriteAddress =>
                       chip'.mode = "ptr" /\ chip'.latch = chip.latch
                 /\ chip.mode = "send" =>
                       chip'.mode = "send" /\ chip'.latch = chip.latch /\ Flips(chip', chip)
                 /\ chip.mode \in {"ptr", "data"} => chip'.mode = "data" /\ chip'.latch = chip.latch
<1>1. PICK ch \in Chip : ch = chip
  OBVIOUS
<1>2. PICK t \in Word : t = temp
  OBVIOUS
<1>3. PICK low : low = chip'
  OBVIOUS
<1>4. low = Lowered(ch, t) /\ ch.mode # "off"
  BY <1>1, <1>2, <1>3
<1>5. CASE ch.n < 7
  <2>1. SameRegisters(low, ch) /\ low.mode = ch.mode /\ low.high = ch.high
    BY <1>4, <1>5, FallsEarly
  <2>2. ch.n # 7 /\ ch.n # 8
    BY <1>5
  <2> QED
    BY <1>1, <1>3, <2>1, <2>2
<1>6. CASE ch.n = 7
  <2>1. \/ ch.mode = "addr" /\ low = Off(ch) /\ low.mode = "off"
        \/ /\ low.mode = ch.mode /\ low.high = ch.high /\ low.latch = ch.latch
           /\ low.ptr = IF ch.mode = "ptr" THEN ch.byte % 4 ELSE ch.ptr
           /\ low.cfg = IF ch.mode = "data" /\ ch.ptr = RegConfig THEN ch.byte ELSE ch.cfg
    BY <1>4, <1>6, FallsLast
  <2>2. SameRegisters(Off(ch), ch)
    BY NothingFalls
  <2>3. ~(ch.n < 7) /\ ch.n # 8
    BY <1>6
  <2> QED
    BY <1>1, <1>3, <1>4, <1>6, <2>1, <2>2, <2>3
<1>7. CASE ch.n = 8
  <2>1. /\ low.ptr = ch.ptr /\ low.cfg = ch.cfg
        /\ \/ /\ ch.mode = "addr" /\ ch.byte = ReadingAddress
              /\ low.mode = "send" /\ low.latch = t /\ ~low.high
           \/ ch.mode = "addr" /\ ch.byte = WriteAddress /\ low.mode = "ptr" /\ low.latch = ch.latch
           \/ /\ ch.mode = "send" /\ low.mode = "send" /\ low.latch = ch.latch
              /\ Flips(low, ch)
           \/ /\ \/ ch.mode \in {"ptr", "data"}
                 \/ (ch.mode = "addr" /\ ch.byte \notin {WriteAddress, ReadingAddress})
              /\ low.mode = "data" /\ low.latch = ch.latch
    BY <1>4, <1>7, FallsAfter
  <2>2. ReadingAddress # WriteAddress
    BY DEF WriteAddress, ReadingAddress
  <2>3. ~(ch.n < 7) /\ ch.n # 7
    BY <1>7
  <2>4. Flips(low, ch) => Flips(chip', chip)
    BY <1>1, <1>3
  <2>5. CASE Flips(low, ch) /\ ch.mode = "send"
    BY <1>1, <1>2, <1>3, <1>7, <2>1, <2>2, <2>3, <2>4, <2>5
  <2>6. CASE ch.mode # "send"
    BY <1>1, <1>2, <1>3, <1>7, <2>1, <2>2, <2>3, <2>6
  <2> QED
    BY <2>1, <2>5, <2>6
<1>8. ch.n < 7 \/ ch.n = 7 \/ ch.n = 8
  BY DEF Chip
<1> QED
  BY <1>5, <1>6, <1>7, <1>8

LEMMA ChipSteps ==
    ASSUME LinesOK, InStep, hold = FALSE, lost' = lost, LineOp, Outs => OutByte \in 0..255,
           pc \in {"rep", "addr", "send", "read", "ack", "stop"}, phase # "x2"
    PROVE  Shifts \/ Takes \/ GoesOn
<1>1. err = FALSE /\ control = pins /\ todo # <<>> /\ chip \in Chip /\ temp \in Word
  BY Types DEF InStep, Steady, LineOp, LinesOK
<1>2. /\ todo' = Tail(todo)
      /\ \/ chip' = chip
         \/ /\ Head(todo) = "scl0" /\ pins.scl = 1
            /\ chip' = Lowered(chip, temp) /\ pins'.scl = 0
         \/ /\ Head(todo) = "scl1" /\ pins.scl = 0
            /\ \E b \in Level : chip' = Raised(chip, b)
         \/ /\ Head(todo) \in {"sda0", "sda1", "get"} /\ pins.scl = 1
            /\ chip' \in {Started(chip), Stopped(chip)}
      /\ Head(todo) = "scl0" /\ pins.scl = 1 => chip' = Lowered(chip, temp)
      /\ Head(todo) = "get" /\ pins.sda = 1 => chip' = chip
  BY <1>1, ChipOp
\* The calls in which SCL falls at a bit or at an acknowledge.
<1>3. ASSUME pc = "send"
      PROVE  /\ Outs /\ chip.mode \in {"off", "ptr", "data"}
             /\ \/ /\ Tail(todo) # <<>>
                   /\ Head(todo) = "scl0" => chip.mode = "off" \/ chip.n \in 0..7
                \/ /\ Tail(todo) = <<>> /\ Head(todo) = "scl0" /\ pins.scl = 1
                   /\ Answers(chip, OutByte)
             /\ Head(todo) \in {"sda0", "sda1"} => pins.scl = 0
             /\ Head(todo) = "get" => pins.sda = 1
  <2>1. PICK c : c = OutByte
    OBVIOUS
  <2>2. Outs /\ AtOut(c) /\ c \in 0..255
    BY <1>1, <1>3, <2>1, Kinds DEF InStep, AtStart, Place, Rests, AtRest, Outs
  <2>3. /\ chip.mode # "send" /\ (chip.mode # "off" => Listener(chip))
        /\ \/ /\ Tail(todo) # <<>>
              /\ Head(todo) = "scl0" => chip.mode = "off" \/ chip.n \in 0..7
           \/ Tail(todo) = <<>> /\ Head(todo) = "scl0" /\ pins.scl = 1 /\ Answers(chip, c)
        /\ Head(todo) \in {"sda0", "sda1"} => pins.scl = 0
        /\ Head(todo) = "get" => pins.sda = 1
    BY <1>1, <2>2, OutFalls
  <2>4. chip.mode \in {"off", "ptr", "data"}
    BY <1>3, <2>3 DEF Listener
  <2> QED
    BY <2>1, <2>2, <2>3, <2>4
<1>4. ASSUME pc = "ack"
      PROVE  /\ chip.mode \in {"off", "send"}
             /\ \/ Tail(todo) # <<>> /\ Head(todo) # "scl0"
                \/ /\ Tail(todo) = <<>> /\ Head(todo) = "scl0" /\ pins.scl = 1
                   /\ chip.mode = "off" \/ (AckLevel = 0 /\ chip.mode = "send" /\ chip.n = 8)
  <2>1. AtAck
    BY <1>4, Kinds DEF InStep, AtStart, Place
  <2> QED
    BY <1>1, <2>1, AckFalls
\* SCL does not fall.
<1>5. CASE chip' = chip /\ (pc \in {"send", "ack"} => Head(todo) # "scl0" \/ pins.scl # 1)
  BY <1>2, <1>3, <1>4, <1>5 DEF Shifts, SameRegisters
<1>6. ASSUME NEW b \in Level, chip' = Raised(chip, b), Head(todo) = "scl1" PROVE Shifts
  <2>1. SameRegisters(chip', chip) /\ (pc \in {"send", "ack"} => todo' # <<>>)
    BY <1>1, <1>2, <1>3, <1>4, <1>6, NothingFalls
  <2>2. CASE chip'.mode = "off" /\ chip.mode # "off"
    <3>1. chip.mode = "send"
      BY <1>1, <1>6, <2>2, NothingFalls
    <3> QED
      BY <1>3, <2>1, <2>2, <3>1 DEF Shifts
  <2>3. CASE chip.mode = "off"
    <3>1. chip' = chip
      BY <1>6, <2>3 DEF Raised
    <3> QED
      BY <2>1, <3>1 DEF Shifts
  <2>4. CASE chip'.mode # "off" /\ chip.mode # "off"
    <3>1. chip'.mode = chip.mode /\ chip'.high = chip.high
      BY <1>1, <1>6, <2>4, NothingFalls
    <3> QED
      BY <2>1, <3>1 DEF Shifts
  <2> QED
    BY <2>2, <2>3, <2>4
<1>7. CASE chip' # chip /\ Head(todo) \in {"sda0", "sda1", "get"}
          /\ chip' \in {Started(chip), Stopped(chip)} /\ pins.scl = 1
  <2>1. SameRegisters(chip', chip) /\ chip'.mode \in {"off", "addr"}
    BY <1>1, <1>7, NothingFalls
  <2>2. pc # "send"
    BY <1>2, <1>3, <1>7
  <2>3. pc = "ack" => todo' # <<>>
    BY <1>2, <1>4, <1>7
  <2> QED
    BY <2>1, <2>2, <2>3 DEF Shifts
\* SCL falls.
<1>8. CASE Head(todo) = "scl0" /\ chip' = Lowered(chip, temp)
  <2>1. CASE chip.mode = "off"
    <3>1. chip' = chip
      BY <1>8, <2>1 DEF Lowered
    <3> QED
      BY <2>1, <3>1 DEF Shifts, SameRegisters
  <2>2. CASE pc = "send" /\ chip.mode # "off"
    <3>1. chip.mode \in {"ptr", "data"} /\ Outs
      BY <1>3, <2>2
    <3>2. CASE Tail(todo) # <<>>
      <4>1. chip.n \in 0..7
        BY <1>3, <1>8, <2>2, <3>2
      <4>2. CASE chip.n < 7
        <5>1. SameRegisters(chip', chip) /\ chip'.mode = chip.mode /\ chip'.high = chip.high
          BY <1>1, <1>8, <2>2, <4>2, Falls
        <5> QED
          BY <1>2, <2>2, <3>2, <5>1 DEF Shifts
      <4>3. CASE chip.n = 7
        <5>1. chip'.mode # "off"
          BY <1>1, <1>8, <2>2, <3>1, <4>3, Falls
        <5>2. /\ chip'.mode = chip.mode /\ chip'.high = chip.high /\ chip'.latch = chip.latch
              /\ chip'.ptr = IF chip.mode = "ptr" THEN chip.byte % 4 ELSE chip.ptr
              /\ chip'.cfg = IF chip.mode = "data" /\ chip.ptr = RegConfig THEN chip.byte ELSE chip.cfg
          BY <1>1, <1>8, <2>2, <4>3, <5>1, Falls
        <5> QED
          BY <1>2, <2>2, <3>1, <3>2, <5>2 DEF Takes
      <4> QED
        BY <4>1, <4>2, <4>3
    <3>3. CASE Tail(todo) = <<>>
      <4>1. chip.n = 8 /\ chip.byte = OutByte
        BY <1>3, <2>2, <3>3 DEF Answers, Deaf
      <4>2. chip'.ptr = chip.ptr /\ chip'.cfg = chip.cfg /\ chip'.mode = "data" /\ chip'.latch = chip.latch
        BY <1>1, <1>8, <2>2, <3>1, <4>1, Falls
      <4> QED
        BY <1>2, <2>2, <3>1, <3>3, <4>1, <4>2 DEF GoesOn
    <3> QED
      BY <3>2, <3>3
  <2>3. CASE pc = "ack" /\ chip.mode # "off"
    <3>1. AckLevel = 0 /\ chip.mode = "send" /\ chip.n = 8 /\ Tail(todo) = <<>>
      BY <1>4, <1>8, <2>3
    <3>2. /\ chip'.ptr = chip.ptr /\ chip'.cfg = chip.cfg
          /\ chip'.mode = "send" /\ chip'.latch = chip.latch /\ Flips(chip', chip)
      BY <1>1, <1>8, <3>1, Falls
    <3> QED
      BY <1>2, <2>3, <3>1, <3>2 DEF GoesOn
  <2>4. CASE pc = "addr" /\ chip.mode # "off"
    <3>1. PICK c : c = OutByte
      OBVIOUS
    <3>2. CASE AtOut(c)
      <4>1. Outs /\ c \in 0..255
        BY <2>4, <3>1 DEF Outs
      <4>2. /\ chip.mode = "addr"
            /\ \/ chip.n \in 0..7
               \/ Tail(todo) = <<>> /\ Answers(chip, c)
        <5>1. /\ Listener(chip)
              /\ \/ /\ Tail(todo) # <<>>
                    /\ Head(todo) = "scl0" => chip.mode = "off" \/ chip.n \in 0..7
                 \/ Tail(todo) = <<>> /\ Head(todo) = "scl0" /\ pins.scl = 1 /\ Answers(chip, c)
          BY <1>1, <1>8, <2>4, <3>2, <4>1, OutFalls
        <5> QED
          BY <1>8, <2>4, <5>1 DEF Listener
      <4>3. CASE chip.n < 7
        <5>1. SameRegisters(chip', chip) /\ chip'.mode = chip.mode /\ chip'.high = chip.high
          BY <1>1, <1>8, <2>4, <4>3, Falls
        <5> QED
          BY <2>4, <5>1 DEF Shifts
      <4>4. CASE chip.n = 7
        <5>1. CASE chip'.mode = "off"
          <6>1. SameRegisters(chip', chip)
            BY <1>1, <1>8, <2>4, <4>4, <5>1, Falls
          <6> QED
            BY <2>4, <5>1, <6>1 DEF Shifts
        <5>2. CASE chip'.mode # "off"
          <6>1. /\ chip'.mode = chip.mode /\ chip'.high = chip.high /\ chip'.latch = chip.latch
                /\ chip'.ptr = chip.ptr /\ chip'.cfg = chip.cfg
            BY <1>1, <1>8, <2>4, <4>2, <4>4, <5>2, Falls
          <6> QED
            BY <2>4, <6>1 DEF Shifts, SameRegisters
        <5> QED
          BY <5>1, <5>2
      <4>5. CASE chip.n \notin 0..7
        <5>1. chip.n = 8 /\ chip.byte = c /\ c \in {WriteAddress, ReadingAddress} /\ Tail(todo) = <<>>
          BY <2>4, <4>2, <4>5 DEF Answers, Deaf
        <5>2. /\ chip'.ptr = chip.ptr /\ chip'.cfg = chip.cfg
              /\ chip.byte = ReadingAddress =>
                    chip'.mode = "send" /\ chip'.latch = temp /\ ~chip'.high
              /\ chip.byte = WriteAddress => chip'.mode = "ptr" /\ chip'.latch = chip.latch
          BY <1>1, <1>8, <2>4, <4>2, <5>1, Falls
        <5> QED
          BY <1>2, <2>4, <3>1, <5>1, <5>2 DEF GoesOn
      <4> QED
        BY <4>2, <4>3, <4>4, <4>5
    <3>3. CASE AtStart
      <4>0. Begun
        BY <1>1, <1>8, <3>3, ConditionFalls
      <4>1. chip.mode = "addr" /\ chip.n < 7
        BY <4>0 DEF Begun
      <4>2. SameRegisters(chip', chip) /\ chip'.mode = chip.mode /\ chip'.high = chip.high
        BY <1>1, <1>8, <4>1, Falls
      <4> QED
        BY <2>4, <4>2 DEF Shifts
    <3> QED
      BY <2>4, <3>1, <3>2, <3>3, Kinds DEF InStep, Place
  <2>5. CASE pc \in {"rep", "stop"} /\ chip.mode # "off"
    <3>1. AtStart \/ AtRep \/ AtStop
      BY <2>5, Kinds DEF InStep, Place
    <3>0. Begun
      BY <1>1, <1>8, <3>1, ConditionFalls
    <3>2. chip.mode = "addr" /\ chip.n < 7
      BY <3>0 DEF Begun
    <3>3. SameRegisters(chip', chip) /\ chip'.mode = chip.mode /\ chip'.high = chip.high
      BY <1>1, <1>8, <3>2, Falls
    <3> QED
      BY <2>5, <3>3 DEF Shifts
  <2>6. CASE pc = "read" /\ chip.mode # "off"
    <3>1. AtIn
      BY <1>1, <2>6, Kinds DEF InStep, AtStart, Place, AtRest
    <3>2. chip.mode = "send" /\ chip.n \in 0..7
      BY <1>1, <1>8, <2>6, <3>1, InFalls
    <3>3. CASE chip.n < 7
      <4>1. SameRegisters(chip', chip) /\ chip'.mode = chip.mode /\ chip'.high = chip.high
        BY <1>1, <1>8, <2>6, <3>3, Falls
      <4> QED
        BY <2>6, <4>1 DEF Shifts
    <3>4. CASE chip.n = 7
      <4>1. chip'.mode # "off"
        BY <1>1, <1>8, <2>6, <3>2, <3>4, Falls
      <4>2. /\ chip'.mode = chip.mode /\ chip'.high = chip.high /\ chip'.latch = chip.latch
            /\ chip'.ptr = chip.ptr /\ chip'.cfg = chip.cfg
        BY <1>1, <1>8, <2>6, <3>2, <3>4, <4>1, Falls
      <4> QED
        BY <2>6, <4>2 DEF Shifts, SameRegisters
    <3> QED
      BY <3>2, <3>3, <3>4
  <2> QED
    BY <2>1, <2>2, <2>3, <2>4, <2>5, <2>6
<1>9. CASE Head(todo) = "scl0"
  <2>1. chip' = chip \/ chip' = Lowered(chip, temp)
    BY <1>2, <1>9
  <2>2. pins.scl # 1 \/ chip' = Lowered(chip, temp)
    BY <1>2, <1>9
  <2> QED
    BY <1>5, <1>8, <1>9, <2>1, <2>2, <1>3, <1>4
<1>10. CASE Head(todo) # "scl0"
  <2>1. \/ chip' = chip
        \/ Head(todo) = "scl1" /\ \E b \in Level : chip' = Raised(chip, b)
        \/ /\ Head(todo) \in {"sda0", "sda1", "get"} /\ pins.scl = 1
           /\ chip' \in {Started(chip), Stopped(chip)}
    BY <1>2, <1>10
  <2> QED
    BY <1>5, <1>6, <1>7, <1>10, <2>1
<1> QED
  BY <1>9, <1>10

-----------------------------------------------------------------------------
(* The calls of the driver, one by one.                                    *)

\* What the driver at this place has called i2c_xfer() with.
Script ==
    IF drv = "cfg_read" THEN CfgRead ELSE IF drv = "cfg_write" THEN CfgWrite ELSE TempRead

\* The register it speaks of.
Target == IF drv = "temp_read" THEN RegTemp ELSE RegConfig

Plain(m) ==
    /\ m.addr = 79
    /\ ~m.ten /\ ~m.nostart /\ ~m.ignNak /\ ~m.noRdAck /\ ~m.recvLen /\ ~m.rev

\* Each message asks for a byte or two, the first writes the register's number.
LEMMA ScriptIs ==
    ASSUME drv \in Calling, msgs = Script
    PROVE  /\ Len(msgs) = IF drv = "cfg_write" THEN 1 ELSE 2
           /\ \A k \in 1..Len(msgs) : Plain(msgs[k])
           /\ ~msgs[1].rd /\ msgs[1].buf[1] = Target
           /\ msgs[1].len = IF drv = "cfg_write" THEN 2 ELSE 1
           /\ drv = "cfg_write" => msgs[1].buf[2] = FullResolution
           /\ drv # "cfg_write" =>
                 msgs[2].rd /\ msgs[2].len = IF drv = "cfg_read" THEN 1 ELSE 2
<1>1. PICK b1, b2, b3, b4, b5 :
         /\ b1 = <<RegConfig>> /\ b2 = <<0>> /\ b3 = <<RegConfig, FullResolution>>
         /\ b4 = <<RegTemp>> /\ b5 = <<0, 0>>
  OBVIOUS
<1>2. /\ b1 \in Seq(0..255) /\ Len(b1) = 1 /\ b2 \in Seq(0..255) /\ Len(b2) = 1
      /\ b3 \in Seq(0..255) /\ Len(b3) = 2 /\ b4 \in Seq(0..255) /\ Len(b4) = 1
      /\ b5 \in Seq(0..255) /\ Len(b5) = 2
  BY <1>1 DEF RegConfig, RegTemp, FullResolution
<1>3. PICK m1, m2, m3, m4, m5 :
         /\ m1 = Message(FALSE, b1) /\ m2 = Message(TRUE, b2) /\ m3 = Message(FALSE, b3)
         /\ m4 = Message(FALSE, b4) /\ m5 = Message(TRUE, b5)
  OBVIOUS
<1>4. ASSUME NEW bytes \in Seq(0..255), Len(bytes) \in 1..2, NEW m
      PROVE  /\ m = Message(FALSE, bytes) => Plain(m) /\ ~m.rd /\ m.len = Len(bytes) /\ m.buf = bytes
             /\ m = Message(TRUE, bytes) => Plain(m) /\ m.rd /\ m.len = Len(bytes)
  <2>1. ASSUME NEW rd \in BOOLEAN, m = Message(rd, bytes)
        PROVE  Plain(m) /\ m.rd = rd /\ m.len = Len(bytes) /\ m.buf = bytes
    BY <1>4, <2>1, MessageOK DEF Plain
  <2> QED
    BY <2>1
<1> HIDE DEF Plain
<1>5. Plain(m1) /\ ~m1.rd /\ m1.len = 1 /\ m1.buf = b1
  <2>1. b1 \in Seq(0..255) /\ Len(b1) \in 1..2
    BY <1>2
  <2> QED
    BY <1>2, <1>3, <1>4, <2>1
<1>6. Plain(m2) /\ m2.rd /\ m2.len = 1
  <2>1. b2 \in Seq(0..255) /\ Len(b2) \in 1..2
    BY <1>2
  <2> QED
    BY <1>2, <1>3, <1>4, <2>1
<1>7. Plain(m3) /\ ~m3.rd /\ m3.len = 2 /\ m3.buf = b3
  <2>1. b3 \in Seq(0..255) /\ Len(b3) \in 1..2
    BY <1>2
  <2> QED
    BY <1>2, <1>3, <1>4, <2>1
<1>8. Plain(m4) /\ ~m4.rd /\ m4.len = 1 /\ m4.buf = b4
  <2>1. b4 \in Seq(0..255) /\ Len(b4) \in 1..2
    BY <1>2
  <2> QED
    BY <1>2, <1>3, <1>4, <2>1
<1>9. Plain(m5) /\ m5.rd /\ m5.len = 2
  <2>1. b5 \in Seq(0..255) /\ Len(b5) \in 1..2
    BY <1>2
  <2> QED
    BY <1>2, <1>3, <1>4, <2>1
<1>10. ASSUME NEW a, NEW b, Plain(a), Plain(b)
       PROVE  /\ \A k \in 1..Len(<<a, b>>) : Plain(<<a, b>>[k])
              /\ \A k \in 1..Len(<<a>>) : Plain(<<a>>[k])
              /\ Len(<<a, b>>) = 2 /\ Len(<<a>>) = 1
              /\ <<a, b>>[1] = a /\ <<a, b>>[2] = b /\ <<a>>[1] = a
  BY <1>10
<1>11. CASE drv = "cfg_read"
  <2>1. msgs = <<m1, m2>>
    BY <1>1, <1>3, <1>11 DEF Script, CfgRead
  <2> QED
    BY <1>1, <1>5, <1>6, <1>10, <1>11, <2>1 DEF Target
<1>12. CASE drv = "cfg_write"
  <2>1. msgs = <<m3>>
    BY <1>1, <1>3, <1>12 DEF Script, CfgWrite
  <2> QED
    BY <1>1, <1>7, <1>10, <1>12, <2>1 DEF Target
<1>13. CASE drv = "temp_read"
  <2>1. msgs = <<m4, m5>>
    BY <1>1, <1>3, <1>13 DEF Script, TempRead
  <2> QED
    BY <1>1, <1>8, <1>9, <1>10, <1>13, <2>1 DEF Target
<1> QED
  BY <1>11, <1>12, <1>13 DEF Calling

\* What the driver of a call has of it, whatever is lost: the bytes that were
\* read, one after the other.
Collects ==
    drv \in Calling =>
        /\ msgs = Script
        /\ \A k \in 1..Len(msgs) : len[k] = msgs[k].len
        /\ got \in Seq(0..255)
        /\ drv = "cfg_write" => got = <<>>
        /\ drv # "cfg_write" => Len(got) = moved[2]

\* The first message writes, the second reads.
LEMMA Directions ==
    ASSUME Sound, Collects, drv \in Calling
    PROVE  /\ pc \in {"rep", "addr", "send", "read", "ack"} => i \in 1..Len(msgs)
           /\ pc = "send" => i = 1
           /\ pc \in {"read", "ack"} => i = 2 /\ drv # "cfg_write"
           /\ Len(msgs) \in 1..2
<1>1. /\ Len(msgs) = IF drv = "cfg_write" THEN 1 ELSE 2
      /\ ~msgs[1].rd
      /\ drv # "cfg_write" => msgs[2].rd
  BY ScriptIs DEF Collects
<1>2. TypeOK /\ Messages
  BY MessagesOK DEF Sound, IInv
<1>3. /\ pc = "send" => ~msgs[i].rd
      /\ pc \in {"read", "ack"} => msgs[i].rd
  BY DEF Sound, IInv, Quiet, Ordered
<1>4. pc \in {"rep", "addr", "send", "read", "ack"} => i \in 1..Len(msgs)
  BY <1>2 DEF Messages
<1>5. Len(msgs) \in 1..2
  BY <1>1
<1>6. i \in 1..Len(msgs) => i = 1 \/ (i = 2 /\ drv # "cfg_write")
  BY <1>1
<1> QED
  BY <1>1, <1>3, <1>4, <1>5, <1>6

LEMMA AddressIs ==
    ASSUME drv \in Calling, msgs = Script, phase = "a7", pc = "addr", i \in 1..Len(msgs)
    PROVE  /\ OutByte = IF msgs[i].rd THEN ReadingAddress ELSE WriteAddress
           /\ ReadAddress <=> msgs[i].rd
<1>1. Plain(msgs[i])
  BY ScriptIs
<1>2. PICK rd, rev, a : rd = msgs[i].rd /\ rev = msgs[i].rev /\ a = 2 * msgs[i].addr
  OBVIOUS
<1>3. rd \in BOOLEAN /\ rev = FALSE /\ a = 158
  <2>1. msgs \in Seq(Msg)
    BY ScriptsOK DEF Script, Scripts
  <2>2. msgs[i].rd \in BOOLEAN /\ msgs[i].rev \in BOOLEAN
    BY <2>1, MsgFields
  <2>3. msgs[i].addr = 79 /\ ~msgs[i].rev
    BY <1>1 DEF Plain
  <2>4. rev = FALSE
    BY <1>2, <2>2, <2>3
  <2>5. PICK n : n = msgs[i].addr
    OBVIOUS
  <2>6. n = 79 /\ a = 2 * n
    BY <1>2, <2>3, <2>5
  <2>7. a = 158
    BY <2>6
  <2> QED
    BY <1>2, <2>2, <2>4, <2>7
<1>4. OutByte = (a % 256) + (IF rd # rev THEN 1 ELSE 0)
  BY <1>2 DEF OutByte, AddressByte, Cur
<1>5. a % 256 = 158
  BY <1>3
<1>6. OutByte = IF rd THEN ReadingAddress ELSE WriteAddress
  <2>1. PICK b : b = (IF rd # rev THEN 1 ELSE 0)
    OBVIOUS
  <2>2. b = IF rd THEN 1 ELSE 0
    BY <1>3, <2>1, Zenon
  <2>3. OutByte = (a % 256) + b
    BY <1>4, <2>1, Zenon
  <2> QED
    BY <1>5, <2>2, <2>3 DEF ReadingAddress, WriteAddress
<1>7. ReadAddress <=> rd
  BY <1>2, <1>3 DEF ReadAddress, Cur
<1> QED
  BY <1>2, <1>6, <1>7

-----------------------------------------------------------------------------
(* The dialogue with a chip that nothing disturbs.                         *)

\* It takes its course: each byte is acknowledged, and the chip sends until it
\* has been told to stop.
Goes ==
    /\ phase = "a7"
    /\ pc \in {"idle", "rep", "addr", "send", "read", "ack", "stop"}
    /\ pc \in {"stop", "idle"} => ret >= 0
    /\ pc = "ack" => moved[2] > 0
    /\ pc = "ack" \/ Ins => talking

\* The first byte is the register's number; the chip has taken it when it
\* acknowledged it, and points there from then on.
Pointed == i > 1 \/ moved[1] > 0 \/ (pc = "send" /\ todo = <<>>)
Points ==
    /\ pc = "send" => chip.mode = IF moved[1] = 0 /\ todo # <<>> THEN "ptr" ELSE "data"
    /\ Pointed => chip.mode # "ptr" /\ chip.ptr = Target

\* The second byte of a write is the configuration.
Writes ==
    drv = "cfg_write" /\ (moved[1] = 2 \/ (moved[1] = 1 /\ pc = "send" /\ todo = <<>>)) =>
        chip.cfg = FullResolution

\* Which half a chip that sends goes on with.
Halves ==
    drv # "cfg_write" /\ chip.mode = "send" =>
        (chip.high <=> moved[2] = IF pc = "ack" /\ todo # <<>> THEN 2 ELSE 1)

\* What was read is what the register holds.
Reads ==
    /\ drv = "cfg_read" /\ moved[2] > 0 => got[1] = chip.cfg
    /\ drv = "temp_read" /\ moved[2] > 0 => got[1] = chip.latch \div 256
    /\ drv = "temp_read" /\ moved[2] > 1 => got[2] = chip.latch % 256

Talk == Goes /\ Points /\ Writes /\ Halves /\ Reads

\* In the midst of it.
Talks ==
    /\ Sound /\ Collects /\ Consistent(chip) /\ InStep
    /\ drv \in Calling /\ Talk

-----------------------------------------------------------------------------
(* Each call that returns.                                                 *)

LEMMA CallsDo ==
    todo = CallOps /\ (Outs \/ pc = "ack") => todo # <<>>
<1>1. CASE Outs
  <2>1. PICK c : c = OutByte
    OBVIOUS
  <2>2. 0 \in 0..7 /\ CallOps = OutRest(c)[0 + 1]
    BY <1>1, <2>1, Calls
  <2>3. PICK n \in 0..7 : n = 0
    BY <2>2
  <2>4. OutRest(c)[n + 1] # <<>>
    BY OutParts
  <2> QED
    BY <2>2, <2>3, <2>4
<1>2. CASE pc = "ack"
  <2>1. "wait_or_fail" \in {"wait", "wait_or_fail"} /\ SclThen(<<>>) \in Seq(Ops)
    BY FallHead
  <2>2. PICK p : p = PulseOps("wait_or_fail", SclThen(<<>>))
    OBVIOUS
  <2>3. p \in Seq(Ops) /\ p # <<>>
    BY <2>1, <2>2, Pulses, NotEmpty
  <2>4. <<"sda0">> \o p # <<>>
    BY <2>1, <2>3, NotEmpty
  <2> QED
    BY <1>2, <2>2, <2>3, <2>4, Calls
<1> QED
  BY <1>1, <1>2

\* What a chip is at when a byte has gone over the wire.
LEMMA ByteEnds ==
    ASSUME Talks, todo = <<>>
    PROVE  /\ pc = "addr" => /\ rx = 0
                             /\ chip.mode = IF msgs[i].rd THEN "send" ELSE "ptr"
           /\ pc = "send" /\ count > 0 => rx = 0
           /\ Ins => rx = chip.byte /\ chip.mode = "send"
<1>1. Ended
  BY AtEnd, OutByteOK DEF Talks, Sound
<1>2. chip \in Chip /\ phase = "a7" /\ drv \in Calling /\ msgs = Script
  BY DEF Talks, Sound, LinesOK, Talk, Goes, Collects
<1>3. CASE pc = "addr"
  <2>1. PICK c : c = OutByte
    OBVIOUS
  <2>2. PICK cell \in Chip : Answered(cell, c) /\ Down(cell, 1)
    BY <1>1, <1>3, <2>1 DEF Ended, Outs
  <2>3. i \in 1..Len(msgs)
    BY <1>3, Directions DEF Talks
  <2>4. c = IF msgs[i].rd THEN ReadingAddress ELSE WriteAddress
    BY <1>2, <1>3, <2>1, <2>3, AddressIs
  <2>5. c \in {ReadingAddress, WriteAddress} /\ ReadingAddress # WriteAddress
    BY <2>4 DEF ReadingAddress, WriteAddress
  <2>6. rx = 0 /\ chip.mode = IF c = WriteAddress THEN "ptr" ELSE "send"
    BY <1>2, <1>3, <2>2, <2>5 DEF Answered, Deaf, Down
  <2> QED
    BY <1>3, <2>4, <2>5, <2>6 DEF Ins
<1>4. CASE pc = "send" /\ count > 0
  <2>1. PICK c : c = OutByte
    OBVIOUS
  <2>2. PICK cell \in Chip : Answered(cell, c) /\ Down(cell, 1)
    BY <1>1, <1>4, <2>1 DEF Ended, Outs
  <2>3. chip.mode # "off"
    BY <1>4 DEF Talks, Talk, Points
  <2>4. rx = 0
    BY <2>2, <2>3 DEF Answered, Deaf, Down
  <2> QED
    BY <1>4, <2>4 DEF Ins
<1>5. CASE Ins
  <2>1. PICK cell \in Chip : Sends(cell, 8) /\ Prefix(cell, 8) /\ Down(cell, 1)
    BY <1>1, <1>5 DEF Ended
  <2>2. talking
    BY <1>5 DEF Talks, Talk, Goes
  <2>3. rx = chip.byte \div 2^(8 - 8) /\ chip.mode = "send"
    BY <2>1, <2>2 DEF Sends, Prefix, Down
  <2>4. chip.byte \in 0..255
    BY <1>2, ChipFields
  <2>5. chip.byte \div 2^(8 - 8) = chip.byte
    BY <2>4, AllBits
  <2> QED
    BY <1>5, <2>3, <2>5 DEF Ins
<1> QED
  BY <1>3, <1>4, <1>5

\* In every return the lines and the chip stay as they are.
WireStays == UNCHANGED <<msgs, len, phase, wire, temp>> /\ todo' = CallOps'

LEMMA RepReturns ==
    ASSUME Talks, CallReturns, pc = "rep"
    PROVE  WireStays /\ pc' = "addr" /\ UNCHANGED <<i, count, moved, ret, got>>
BY DEF CallReturns, RepStart, RepStartTen, OutAddressBy, RetryStop, RetryStart, SendByteBy, DataDone,
       ReadTimeout, AckTimeout, NakTimeout, AckDone, NakBadLength, Stop, ReadByte, WireStays

LEMMA StopReturns ==
    ASSUME Talks, CallReturns, pc = "stop"
    PROVE  WireStays /\ pc' = "idle" /\ UNCHANGED <<i, count, moved, ret, got>>
BY DEF CallReturns, RepStart, RepStartTen, OutAddressBy, RetryStop, RetryStart, SendByteBy, DataDone,
       ReadTimeout, AckTimeout, NakTimeout, AckDone, NakBadLength, Stop, ReadByte, WireStays

LEMMA AckReturns ==
    ASSUME Talks, CallReturns, pc = "ack"
    PROVE  /\ WireStays /\ pc' = "read" /\ UNCHANGED <<i, count, moved, ret, got>>
           /\ count > 0 => talking'
<1>1. err = FALSE /\ talking
  BY DEF Talks, Sound, Flow, Talk, Goes
<1>2. AckDone /\ UNCHANGED <<got, wire, temp>> /\ todo' = CallOps'
  BY <1>1 DEF CallReturns, RepStart, RepStartTen, OutAddressBy, RetryStop, RetryStart, SendByteBy, DataDone,
       NakBadLength, Stop, ReadByte
<1> QED
  BY <1>1, <1>2 DEF AckDone, WireStays, AckBit

LEMMA AddressReturned ==
    ASSUME Talks, CallReturns, pc = "addr"
    PROVE  /\ WireStays /\ UNCHANGED <<i, moved, ret, got>>
           /\ pc' = (IF msgs[i].rd THEN "read" ELSE "send") /\ count' = msgs[i].len
           /\ talking' <=> msgs[i].rd
<1>1. err = FALSE /\ todo = <<>> /\ phase = "a7" /\ drv \in Calling /\ msgs = Script
  BY DEF Talks, Sound, Flow, Talk, Goes, CallReturns, Collects
<1>2. rx = 0
  BY <1>1, ByteEnds
<1>3. PICK r : r = Outb
  OBVIOUS
<1>4. r = 1
  BY <1>1, <1>2, <1>3 DEF Outb
<1>5. OutAddressBy(r) /\ UNCHANGED <<got, wire, temp>> /\ todo' = CallOps'
  BY <1>1, <1>3 DEF CallReturns, RepStart, RepStartTen, RetryStop, RetryStart, SendByteBy, DataDone,
       AckDone, NakBadLength, Stop, ReadByte
<1>6. i \in 1..Len(msgs)
  BY Directions DEF Talks
<1>7. ReadAddress <=> msgs[i].rd
  BY <1>1, <1>6, AddressIs
<1>8. talking' = (r = 1 /\ ReadAddress) /\ UNCHANGED <<msgs, len, moved>> /\ AddressEnd(r)
  BY <1>4, <1>5 DEF OutAddressBy
<1>9. EnterData(i, msgs) /\ UNCHANGED i
  BY <1>1, <1>4, <1>8 DEF AddressEnd
<1> QED
  BY <1>1, <1>4, <1>5, <1>7, <1>8, <1>9 DEF EnterData, WireStays

LEMMA SendReturns ==
    ASSUME Talks, CallReturns, pc = "send", count > 0
    PROVE  /\ WireStays /\ UNCHANGED <<pc, i, ret, got, talking>>
           /\ moved' = [moved EXCEPT ![1] = @ + 1] /\ count' = count - 1
<1>1. err = FALSE /\ todo = <<>>
  BY DEF Talks, Sound, Flow, CallReturns
<1>2. rx = 0
  BY <1>1, ByteEnds
<1>3. PICK r : r = Outb
  OBVIOUS
<1>4. r = 1
  BY <1>1, <1>2, <1>3 DEF Outb
<1>5. SendByteBy(r) /\ UNCHANGED <<got, wire, temp>> /\ todo' = CallOps'
  BY <1>1, <1>3 DEF CallReturns, RepStart, RepStartTen, RetryStop, RetryStart, OutAddressBy, DataDone,
       AckDone, NakBadLength, Stop, ReadByte
<1>6. i = 1
  BY Directions DEF Talks
<1>7. r # 0 /\ r # ETIMEDOUT
  BY <1>4 DEF ETIMEDOUT
<1> QED
  BY <1>4, <1>5, <1>6, <1>7 DEF SendByteBy, WireStays

LEMMA DataReturned ==
    ASSUME Talks, CallReturns, pc \in {"send", "read"}, count = 0
    PROVE  /\ WireStays /\ UNCHANGED <<moved, talking, got>> /\ i' = i + 1
           /\ \/ pc' = "stop" /\ ret' = i
              \/ pc' = "rep" /\ ret' = ret
<1>1. err = FALSE /\ todo = <<>> /\ phase = "a7" /\ drv \in Calling /\ msgs = Script
  BY DEF Talks, Sound, Flow, Talk, Goes, CallReturns, Collects
<1>2. DataDone /\ UNCHANGED <<got, wire, temp>> /\ todo' = CallOps'
  BY <1>1 DEF CallReturns, RepStart, RepStartTen, OutAddressBy, RetryStop, RetryStart, SendByteBy,
       AckDone, NakBadLength, Stop, ReadByte
<1>3. i \in 1..Len(msgs) /\ Len(msgs) \in 1..2
  BY Directions DEF Talks
<1>4. moved[i] = len[i] /\ moved[i] \in Nat
  <2>1. moved[i] + count = len[i] /\ moved[i] \in Nat /\ len[i] \in Nat
    BY <1>3 DEF Talks, Sound, IInv, Tally, TypeOK
  <2> QED
    BY <2>1
<1>5. EnterMsg(i + 1, msgs) /\ UNCHANGED <<msgs, len, moved, talking>>
  BY <1>2, <1>4 DEF DataDone, EndData
<1>6. i + 1 <= Len(msgs) => Plain(msgs[i + 1])
  <2>1. \A k \in 1..Len(msgs) : Plain(msgs[k])
    BY <1>1, ScriptIs
  <2>2. i + 1 <= Len(msgs) => i + 1 \in 1..Len(msgs)
    BY <1>3
  <2> QED
    BY <2>1, <2>2
<1>7. CASE i + 1 > Len(msgs)
  <2>1. pc' = "stop" /\ ret' = i + 1 - 1 /\ i' = i + 1 /\ UNCHANGED phase
    BY <1>3, <1>5, <1>7 DEF EnterMsg
  <2>2. i + 1 - 1 = i
    BY <1>3
  <2> QED
    BY <1>2, <1>5, <2>1, <2>2 DEF WireStays
<1>8. CASE i + 1 <= Len(msgs)
  <2>1. ~msgs[i + 1].nostart /\ ~msgs[i + 1].ten
    BY <1>6, <1>8 DEF Plain
  <2>2. pc' = "rep" /\ UNCHANGED ret /\ phase' = "a7" /\ i' = i + 1
    <3>1. i + 1 > 1 /\ ~(i + 1 > Len(msgs))
      BY <1>3, <1>8
    <3> QED
      BY <1>5, <2>1, <3>1 DEF EnterMsg, FirstPhase
  <2> QED
    BY <1>1, <1>2, <1>5, <2>2 DEF WireStays
<1> QED
  BY <1>3, <1>7, <1>8

LEMMA ByteReturned ==
    ASSUME Talks, CallReturns, pc = "read", count > 0
    PROVE  /\ WireStays /\ UNCHANGED <<i, ret, talking>> /\ pc' = "ack" /\ count' = count - 1
           /\ moved' = [moved EXCEPT ![2] = @ + 1] /\ got' = Append(got, rx)
<1>1. err = FALSE /\ todo = <<>> /\ phase = "a7" /\ drv \in Calling /\ msgs = Script
  BY DEF Talks, Sound, Flow, Talk, Goes, CallReturns, Collects
<1>2. ReadByte(rx) /\ got' = Append(got, rx) /\ UNCHANGED <<wire, temp>> /\ todo' = CallOps'
  BY <1>1 DEF CallReturns, RepStart, RepStartTen, OutAddressBy, RetryStop, RetryStart, SendByteBy, DataDone,
       AckDone, NakBadLength, Stop
<1>3. i = 2 /\ i \in 1..Len(msgs)
  BY Directions DEF Talks
<1>4. Plain(msgs[i])
  BY <1>1, <1>3, ScriptIs
<1>5. ~Cur.recvLen /\ ~Cur.noRdAck
  BY <1>4 DEF Cur, Plain
<1> QED
  BY <1>2, <1>3, <1>5 DEF ReadByte, Acknowledged, WireStays

-----------------------------------------------------------------------------
(* Each step keeps what was collected.                                     *)

LEMMA ScriptLength ==
    drv \in Calling /\ msgs = Script => Len(msgs) = IF drv = "cfg_write" THEN 1 ELSE 2
BY ScriptIs

LEMMA CollectsCall ==
    ASSUME NEW ms, Call(ms), ms = Script'
    PROVE  Collects'
<1>1. /\ msgs' = ms /\ got' = <<>>
      /\ len' = [k \in 1..Len(ms) |-> ms[k].len]
      /\ moved' = [k \in 1..Len(ms) |-> 0]
  BY DEF Call, Xfer
<1>2. CASE drv' \in Calling
  <2>1. (drv \in Calling /\ msgs = Script => Len(msgs) = IF drv = "cfg_write" THEN 1 ELSE 2)'
    BY ScriptLength, PTL
  <2>2. drv' # "cfg_write" => moved'[2] = 0
    BY <1>1, <1>2, <2>1
  <2>3. \A k \in 1..Len(msgs') : len'[k] = msgs'[k].len
    BY <1>1
  <2>4. <<>> \in Seq(0..255) /\ Len(<<>>) = 0
    OBVIOUS
  <2> QED
    BY <1>1, <2>2, <2>3, <2>4 DEF Collects
<1> QED
  BY <1>2 DEF Collects

LEMMA CollectsReturn ==
    ASSUME Sound, Collects, CallReturns, UNCHANGED drv
    PROVE  Collects'
<1>1. err = FALSE /\ todo = <<>> /\ TypeOK /\ rx \in 0..255
  BY DEF Sound, Flow, IInv, CallReturns, BitsLeft
<1>2. Script' = Script
  BY DEF Script
<1>3. CASE drv \in Calling
  <2>0. msgs = Script
    BY <1>3 DEF Collects
  <2>1. /\ Len(msgs) = IF drv = "cfg_write" THEN 1 ELSE 2
        /\ \A k \in 1..Len(msgs) : Plain(msgs[k])
    BY <1>3, <2>0, ScriptIs
  <2>2. CASE UNCHANGED <<msgs, len, moved, got>>
    BY <1>2, <2>2 DEF Collects
  <2>3. CASE \E r : SendByteBy(r) /\ UNCHANGED got
    <3>1. i = 1
      BY <1>3, <2>3, Directions DEF SendByteBy
    <3>2. UNCHANGED <<msgs, len, got>> /\ moved' \in {moved, [moved EXCEPT ![1] = @ + 1]}
      BY <2>3, <3>1 DEF SendByteBy
    <3>3. drv # "cfg_write" => moved'[2] = moved[2]
      BY <1>1, <2>1, <3>2 DEF TypeOK
    <3> QED
      BY <1>2, <3>2, <3>3 DEF Collects
  <2>4. CASE ReadByte(rx) /\ got' = Append(got, rx)
    <3>1. i = 2 /\ drv # "cfg_write" /\ i \in 1..Len(msgs)
      BY <1>3, <2>4, Directions DEF ReadByte
    <3>2. ~Cur.recvLen
      BY <2>1, <3>1 DEF Cur, Plain
    <3>3. UNCHANGED <<msgs, len>> /\ moved' = [moved EXCEPT ![2] = @ + 1]
      BY <2>4, <3>1, <3>2 DEF ReadByte
    <3>4. moved'[2] = moved[2] + 1
      BY <1>1, <2>1, <3>1, <3>3 DEF TypeOK
    <3>5. got \in Seq(0..255) /\ Len(got) = moved[2]
      BY <1>3, <3>1 DEF Collects
    <3>6. got' \in Seq(0..255) /\ Len(got') = Len(got) + 1
      BY <1>1, <2>4, <3>5
    <3> QED
      BY <1>2, <1>3, <2>0, <3>1, <3>3, <3>4, <3>5, <3>6 DEF Collects
  <2>5. \/ UNCHANGED <<msgs, len, moved, got>>
        \/ \E r : SendByteBy(r) /\ UNCHANGED got
        \/ ReadByte(rx) /\ got' = Append(got, rx)
    BY <1>1 DEF CallReturns, RepStart, RepStartTen, OutAddressBy, RetryStop, RetryStart, DataDone,
         AckDone, NakBadLength, Stop
  <2> QED
    BY <2>2, <2>3, <2>4, <2>5
<1> QED
  BY <1>3 DEF Collects

LEMMA CollectsNext == Sound /\ Collects /\ [TemperNext]_tvars => Collects'
<1> SUFFICES ASSUME Sound, Collects, [TemperNext]_tvars PROVE Collects'
  OBVIOUS
<1>1. CASE drv' \notin Calling
  BY <1>1 DEF Collects
<1>2. CASE UNCHANGED <<vars, got, drv>>
  BY <1>2 DEF Collects, Script, vars
<1>3. CASE AttachReadsConfig
  <2>1. Call(CfgRead) /\ CfgRead = Script'
    BY <1>3 DEF AttachReadsConfig, Script
  <2> QED
    BY <2>1, CollectsCall
<1>4. CASE AttachWritesConfig
  <2>1. Call(CfgWrite) /\ CfgWrite = Script'
    BY <1>4 DEF AttachWritesConfig, Script
  <2> QED
    BY <2>1, CollectsCall
<1>5. CASE UpdateReads
  <2>1. Call(TempRead) /\ TempRead = Script'
    BY <1>5 DEF UpdateReads, Script
  <2> QED
    BY <2>1, CollectsCall
<1>6. CASE CallReturns /\ UNCHANGED drv
  BY <1>6, CollectsReturn
<1>7. CASE Open \/ AttachFails \/ Kill \/ AttachUpdates \/ Update \/ UpdateDone
  BY <1>1, <1>7 DEF Open, BeginReset, AttachFails, CloseLines, Kill,
      AttachUpdates, Update, UpdateDone, Calling
<1>8. CASE LineOp /\ UNCHANGED drv
  BY <1>2, <1>8 DEF LineOp
<1>9. CASE Replug \/ Warms \/ UNCHANGED tvars
  BY <1>2, <1>9 DEF Replug, Warms, Measure, tvars, wvars, vars
<1> QED
  BY <1>3, <1>4, <1>5, <1>6, <1>7, <1>8, <1>9 DEF TemperNext, Driver, OnWire, Wire

\* And so a transfer of the driver that has succeeded has its bytes.
LEMMA Collected ==
    ASSUME Sound, Collects, drv \in Calling, pc = "idle", ret >= 0
    PROVE  \A k \in 1..Len(msgs) : moved[k] = msgs[k].len
<1>1. TypeOK /\ Tally
  BY DEF Sound, IInv
<1>2. \A k \in 1..Len(msgs) : Settled(k)
  <2>1. ret \in Int
    BY <1>1 DEF TypeOK
  <2> QED
    BY <1>1, <2>1 DEF Tally
<1> QED
  BY <1>2 DEF Settled, Collects

-----------------------------------------------------------------------------
(* Each line operation keeps the dialogue.                                 *)

\* The counts of a dialogue.
LEMMA Counts ==
    ASSUME Talks
    PROVE  /\ Len(msgs) = IF drv = "cfg_write" THEN 1 ELSE 2
           /\ \A k \in 1..Len(msgs) : moved[k] \in Nat /\ count \in Nat /\ i \in Nat
           /\ pc = "addr" => moved[i] = 0 /\ i \in 1..Len(msgs)
           /\ pc \in {"addr", "send"} /\ i = 1 /\ drv # "cfg_write" => moved[2] = 0
           /\ pc = "send" => i = 1 /\ moved[1] + count = IF drv = "cfg_write" THEN 2 ELSE 1
           /\ pc \in {"read", "ack"} =>
                 /\ i = 2 /\ drv # "cfg_write"
                 /\ moved[2] + count = IF drv = "cfg_read" THEN 1 ELSE 2
<1>1. /\ drv \in Calling /\ msgs = Script /\ TypeOK /\ Tally
      /\ \A k \in 1..Len(msgs) : len[k] = msgs[k].len
  BY DEF Talks, Collects, Sound, IInv
<1>2. /\ Len(msgs) = IF drv = "cfg_write" THEN 1 ELSE 2
      /\ msgs[1].len = IF drv = "cfg_write" THEN 2 ELSE 1
      /\ drv # "cfg_write" => msgs[2].len = IF drv = "cfg_read" THEN 1 ELSE 2
  BY <1>1, ScriptIs
<1>3. /\ pc \in {"rep", "addr", "send", "read", "ack"} => i \in 1..Len(msgs)
      /\ pc = "send" => i = 1
      /\ pc \in {"read", "ack"} => i = 2 /\ drv # "cfg_write"
  BY Directions DEF Talks
<1>4. \A k \in 1..Len(msgs) : moved[k] \in Nat /\ count \in Nat /\ i \in Nat
  BY <1>1 DEF TypeOK
<1>5. pc \in {"addr", "send"} /\ i = 1 /\ drv # "cfg_write" => moved[2] = 0
  BY <1>1, <1>2 DEF Tally
<1>6. pc = "addr" => moved[i] = 0
  BY <1>1 DEF Tally
<1>7. pc \in {"send", "read", "ack"} => moved[i] + count = len[i]
  BY <1>1 DEF Tally
<1>8. pc = "send" => moved[1] + count = IF drv = "cfg_write" THEN 2 ELSE 1
  BY <1>1, <1>2, <1>3, <1>7
<1>9. pc \in {"read", "ack"} => moved[2] + count = IF drv = "cfg_read" THEN 1 ELSE 2
  BY <1>1, <1>2, <1>3, <1>7
<1> QED
  BY <1>2, <1>3, <1>4, <1>5, <1>6, <1>8, <1>9

\* What goes over the wire first and second.
LEMMA Sent ==
    ASSUME Talks
    PROVE  /\ pc = "send" /\ moved[1] = 0 => OutByte = Target
           /\ pc = "send" /\ moved[1] = 1 /\ drv = "cfg_write" => OutByte = FullResolution
           /\ pc = "addr" /\ i = 1 => OutByte = WriteAddress
           /\ pc = "addr" /\ i # 1 => OutByte = ReadingAddress
<1>1. /\ drv \in Calling /\ msgs = Script /\ phase = "a7"
      /\ pc = "addr" => i \in 1..Len(msgs)
      /\ pc = "send" => i = 1
  BY Directions DEF Talks, Collects, Talk, Goes
<1>2. /\ msgs[1].buf[1] = Target /\ ~msgs[1].rd
      /\ drv = "cfg_write" => msgs[1].buf[2] = FullResolution
      /\ drv # "cfg_write" => msgs[2].rd
      /\ Len(msgs) = IF drv = "cfg_write" THEN 1 ELSE 2
  BY <1>1, ScriptIs
<1>3. pc = "send" => OutByte = msgs[1].buf[moved[1] + 1]
  BY <1>1 DEF OutByte, Cur
<1>4. pc = "addr" => OutByte = IF msgs[i].rd THEN ReadingAddress ELSE WriteAddress
  BY <1>1, AddressIs
<1>5. pc = "addr" /\ i # 1 => msgs[i].rd
  BY <1>1, <1>2
<1>6. 0 + 1 = 1 /\ 1 + 1 = 2
  OBVIOUS
<1> QED
  BY <1>2, <1>3, <1>4, <1>5, <1>6

LEMMA GoesLine ==
    ASSUME Talks, UNCHANGED <<vars, drv>>
    PROVE  Goes'
BY DEF Talks, Talk, Goes, Ins, vars

LEMMA ShiftsKeep ==
    ASSUME Talks, UNCHANGED <<vars, got, drv>>, todo # <<>>, Shifts
    PROVE  (Points /\ Writes /\ Halves /\ Reads)'
<1>1. Points /\ Writes /\ Halves /\ Reads
  BY DEF Talks, Talk
<1>2. UNCHANGED <<pc, i, moved, Target>>
  BY DEF vars, Target
<1>3. SameRegisters(chip', chip)
  BY DEF Shifts
<1>4. pc = "send" => todo' # <<>> /\ chip'.mode = chip.mode
  <2>1. pc = "send" => chip.mode # "off"
    BY <1>1 DEF Points
  <2> QED
    BY <2>1 DEF Shifts
<1>5. Pointed' => Pointed
  BY <1>2, <1>4 DEF Pointed
<1>6. chip'.mode = "ptr" => chip.mode = "ptr"
  BY DEF Shifts
<1>7. Points'
  <2>1. (pc = "send")' => chip'.mode = IF moved'[1] = 0 /\ todo' # <<>> THEN "ptr" ELSE "data"
    BY <1>1, <1>2, <1>4 DEF Points
  <2>2. Pointed' => chip'.mode # "ptr" /\ chip'.ptr = Target'
    BY <1>1, <1>2, <1>3, <1>5, <1>6 DEF Points, SameRegisters
  <2> QED
    BY <2>1, <2>2 DEF Points
<1>8. Writes'
  BY <1>1, <1>2, <1>3, <1>4 DEF Writes, SameRegisters
<1>9. Halves'
  <2>1. chip'.mode = "send" => chip.mode = "send" /\ chip'.high = chip.high
    BY DEF Shifts
  <2>2. chip'.mode = "send" /\ pc = "ack" => todo' # <<>>
    BY <2>1 DEF Shifts
  <2> QED
    BY <1>1, <1>2, <2>1, <2>2 DEF Halves
<1>10. Reads'
  BY <1>1, <1>2, <1>3 DEF Reads, SameRegisters
<1> QED
  BY <1>7, <1>8, <1>9, <1>10

\* While a byte is sent bytes are missing.
LEMMA Missing ==
    ASSUME Talks, todo # <<>>, pc = "send"
    PROVE  /\ count > 0 /\ moved[1] \in Nat
           /\ moved[1] = 0 \/ (moved[1] = 1 /\ drv = "cfg_write")
<1>1. count > 0
  <2>1. Outs
    BY Kinds DEF Talks, InStep, AtStart, Place, Rests, AtRest, Outs
  <2> QED
    BY <2>1 DEF Outs
<1>2. /\ 1 \in 1..Len(msgs) /\ moved[1] \in Nat /\ count \in Nat
      /\ moved[1] + count = IF drv = "cfg_write" THEN 2 ELSE 1
  BY Counts
<1> QED
  BY <1>1, <1>2

LEMMA TakesKeep ==
    ASSUME Talks, UNCHANGED <<vars, got, drv>>, todo # <<>>, Takes
    PROVE  (Points /\ Writes /\ Halves /\ Reads)'
<1>1. Points
  BY DEF Talks, Talk
<1>2. UNCHANGED <<pc, i, moved, Target>> /\ pc = "send" /\ todo' # <<>>
  BY DEF vars, Target, Takes
<1>3. /\ moved[1] = 0 \/ (moved[1] = 1 /\ drv = "cfg_write")
      /\ i = 1 /\ (drv # "cfg_write" => moved[2] = 0)
  BY <1>2, Missing, Counts
<1>4. /\ chip.mode \in {"ptr", "data"} /\ chip'.mode = chip.mode
      /\ chip.mode = "data" => chip'.ptr = chip.ptr
  BY DEF Takes
<1>5. Points'
  <2>1. (pc = "send")' => chip'.mode = IF moved'[1] = 0 /\ todo' # <<>> THEN "ptr" ELSE "data"
    BY <1>1, <1>2, <1>4 DEF Points
  <2>2. Pointed' => Pointed
    BY <1>2 DEF Pointed
  <2>3. Pointed' => chip'.mode # "ptr" /\ chip'.ptr = Target'
    BY <1>1, <1>2, <1>4, <2>2 DEF Points
  <2> QED
    BY <2>1, <2>3 DEF Points
<1>6. Writes'
  BY <1>2, <1>3 DEF Writes
<1>7. Halves'
  BY <1>4 DEF Halves
<1>8. Reads'
  BY <1>2, <1>3 DEF Reads
<1> QED
  BY <1>5, <1>6, <1>7, <1>8

LEMMA GoesOnKeeps ==
    ASSUME Talks, UNCHANGED <<vars, got, drv>>, todo # <<>>, GoesOn
    PROVE  (Points /\ Writes /\ Halves /\ Reads)'
<1>1. Points /\ Writes /\ Halves /\ Reads /\ Consistent(chip)
  BY DEF Talks, Talk
<1>2. UNCHANGED <<pc, i, moved, Target, got, drv>>
  BY DEF vars, Target
<1>3. todo' = <<>> /\ chip.n = 8 /\ chip'.ptr = chip.ptr /\ chip'.cfg = chip.cfg
  BY DEF GoesOn
<1>4. CASE pc = "addr"
  <2>1. moved[i] = 0 /\ i \in 1..Len(msgs) /\ Len(msgs) = IF drv = "cfg_write" THEN 1 ELSE 2
    BY <1>4, Counts
  <2>2. i = 1 \/ (i = 2 /\ drv # "cfg_write")
    BY <2>1
  <2>3. drv # "cfg_write" => moved[2] = 0
    BY <1>4, <2>1, <2>2, Counts
  <2>4. ReadingAddress # WriteAddress
    BY DEF ReadingAddress, WriteAddress
  <2>5. /\ i = 1 => chip'.mode = "ptr"
        /\ i # 1 => chip'.mode = "send" /\ ~chip'.high
    BY <1>4, <2>4, Sent DEF GoesOn
  <2>6. Points'
    <3>1. Pointed' => Pointed /\ i # 1
      <4>1. Pointed' => i > 1 \/ moved[1] > 0
        BY <1>2, <1>4 DEF Pointed
      <4>2. i = 1 => ~(moved[1] > 0)
        BY <2>1
      <4> QED
        BY <2>2, <4>1, <4>2 DEF Pointed
    <3> QED
      BY <1>1, <1>2, <1>3, <1>4, <2>5, <3>1 DEF Points
  <2>7. Writes'
    BY <1>1, <1>2, <1>3, <1>4 DEF Writes
  <2>8. Halves'
    BY <1>2, <1>4, <2>3, <2>5 DEF Halves
  <2>9. Reads'
    BY <1>2, <2>3 DEF Reads
  <2> QED
    BY <2>6, <2>7, <2>8, <2>9
<1>5. CASE pc = "send"
  <2>1. /\ moved[1] = 0 \/ (moved[1] = 1 /\ drv = "cfg_write")
        /\ i = 1 /\ (drv # "cfg_write" => moved[2] = 0)
    BY <1>5, Missing, Counts
  <2>2. chip.byte = OutByte /\ chip'.mode = "data"
    BY <1>5 DEF GoesOn
  <2>3. CASE moved[1] = 0
    <3>1. chip.mode = "ptr" /\ chip.byte = Target
      BY <1>1, <1>5, <2>2, <2>3, Sent DEF Points
    <3>2. chip.ptr = Target % 4
      BY <1>1, <1>3, <3>1 DEF Consistent
    <3>3. Target % 4 = Target
      BY DEF Target, RegTemp, RegConfig
    <3>4. Points'
      BY <1>2, <1>3, <1>5, <2>2, <3>2, <3>3 DEF Points
    <3>5. Writes'
      BY <1>2, <2>3 DEF Writes
    <3> QED
      BY <1>2, <2>1, <2>2, <3>4, <3>5 DEF Halves, Reads
  <2>4. CASE moved[1] = 1 /\ drv = "cfg_write"
    <3>1. chip.mode = "data" /\ chip.byte = FullResolution
      BY <1>1, <1>5, <2>2, <2>4, Sent DEF Points
    <3>2. Pointed
      BY <2>4 DEF Pointed
    <3>3. chip.ptr = Target /\ Target = RegConfig
      BY <1>1, <2>4, <3>2 DEF Points, Target
    <3>4. chip.cfg = FullResolution
      BY <1>1, <1>3, <3>1, <3>3 DEF Consistent
    <3>5. Points'
      BY <1>2, <1>3, <1>5, <2>2, <2>4, <3>3 DEF Points
    <3>6. Writes'
      BY <1>3, <3>4 DEF Writes
    <3> QED
      BY <1>2, <2>2, <2>4, <3>5, <3>6 DEF Halves, Reads
  <2> QED
    BY <2>1, <2>3, <2>4
<1>6. CASE pc = "ack"
  <2>1. AckLevel = 0 /\ chip.mode = "send" /\ chip'.mode = "send" /\ Flips(chip', chip)
        /\ chip'.latch = chip.latch
    BY <1>6 DEF GoesOn
  <2>2. count > 0
    BY <2>1 DEF AckLevel, AckBit
  <2>3. drv # "cfg_write" /\ moved[2] = 1
    <3>1. /\ drv # "cfg_write" /\ 2 \in 1..Len(msgs) /\ moved[2] \in Nat /\ count \in Nat
          /\ moved[2] + count = IF drv = "cfg_read" THEN 1 ELSE 2
      BY <1>6, Counts
    <3>2. moved[2] > 0
      BY <1>6 DEF Talks, Talk, Goes
    <3> QED
      BY <2>2, <3>1, <3>2
  <2>4. Points'
    BY <1>1, <1>2, <1>3, <1>6, <2>1 DEF Points, Pointed
  <2>5. Writes'
    BY <1>2, <2>3 DEF Writes
  <2>6. Halves'
    <3>1. ~chip.high
      <4>1. chip.high <=> moved[2] = 2
        BY <1>1, <1>6, <2>1, <2>3 DEF Halves
      <4> QED
        BY <2>3, <4>1
    <3>2. chip'.high
      BY <2>1, <3>1 DEF Flips
    <3> QED
      BY <1>2, <1>3, <1>6, <2>3, <3>2 DEF Halves
  <2>7. Reads'
    BY <1>1, <1>2, <1>3, <2>1 DEF Reads
  <2> QED
    BY <2>4, <2>5, <2>6, <2>7
<1> QED
  BY <1>4, <1>5, <1>6 DEF GoesOn

LEMMA TalkLine ==
    ASSUME Talks, LineOp, lost' = lost, UNCHANGED drv
    PROVE  Talk'
<1>1. /\ LinesOK /\ InStep /\ hold = FALSE /\ err = FALSE /\ control = pins /\ todo # <<>>
      /\ Outs => OutByte \in 0..255
  BY OutByteOK DEF Talks, Sound, Flow, InStep, Steady, LineOp
<1>2. UNCHANGED <<vars, got>>
  BY DEF LineOp
<1>3. pc \in {"rep", "addr", "send", "read", "ack", "stop"} /\ phase # "x2"
  <2>1. pc # "idle"
    BY <1>1, Kinds DEF InStep, AtStart, Place, Rests, AtRest, Outs, Ins
  <2> QED
    BY <2>1 DEF Talks, Talk, Goes
<1>4. Shifts \/ Takes \/ GoesOn
  BY <1>1, <1>3, ChipSteps
<1>5. Goes'
  BY <1>2, GoesLine
<1>6. (Points /\ Writes /\ Halves /\ Reads)'
  BY <1>1, <1>2, <1>4, ShiftsKeep, TakesKeep, GoesOnKeeps
<1> QED
  BY <1>5, <1>6 DEF Talk

-----------------------------------------------------------------------------
(* Each call that returns keeps it.                                        *)

\* When i, moved and the chip stay, so does most of it.
LEMMA ReturnKeeps ==
    ASSUME Talks, UNCHANGED <<drv, i, moved, got, chip>>, todo = <<>>,
           pc' \in {"idle", "rep", "addr", "read", "stop"}
    PROVE  (Points /\ Writes /\ Halves /\ Reads)'
<1>1. Points /\ Writes /\ Halves /\ Reads
  BY DEF Talks, Talk
<1>2. Target' = Target
  BY DEF Target
<1>3. Pointed' => Pointed
  BY DEF Pointed
<1> QED
  BY <1>1, <1>2, <1>3 DEF Points, Writes, Halves, Reads

LEMMA TalkAddress ==
    ASSUME Talks, CallReturns, UNCHANGED drv, pc = "addr"
    PROVE  Talk'
<1>1. /\ WireStays /\ UNCHANGED <<i, moved, ret, got>>
      /\ pc' = (IF msgs[i].rd THEN "read" ELSE "send") /\ count' = msgs[i].len
      /\ talking' <=> msgs[i].rd
  BY AddressReturned
<1>2. todo = <<>> /\ UNCHANGED <<chip, phase>> /\ phase = "a7" /\ drv \in Calling /\ msgs = Script
  BY <1>1 DEF CallReturns, WireStays, wire, Talks, Talk, Goes, Collects
<1>3. /\ moved[i] = 0 /\ i \in 1..Len(msgs) /\ Len(msgs) = IF drv = "cfg_write" THEN 1 ELSE 2
  BY Counts
<1>4. /\ ~msgs[1].rd /\ msgs[1].len > 0
      /\ drv # "cfg_write" => msgs[2].rd
  BY <1>2, ScriptIs
<1>5. Goes'
  BY <1>1, <1>2 DEF Goes, Ins
<1>6. CASE i = 1
  <2>1. pc' = "send" /\ count' > 0 /\ todo' = CallOps'
    BY <1>1, <1>4, <1>6 DEF WireStays
  <2>2. (todo = CallOps /\ (Outs \/ pc = "ack") => todo # <<>>)'
    BY CallsDo, PTL
  <2>3. todo' # <<>>
    BY <2>1, <2>2 DEF Outs
  <2>4. chip.mode = "ptr"
    BY <1>2, <1>4, <1>6, ByteEnds
  <2>5. moved'[1] = 0 /\ i' = 1
    BY <1>1, <1>3, <1>6
  <2>6. ~Pointed'
    BY <2>3, <2>5 DEF Pointed
  <2>7. Points' /\ Writes' /\ Halves'
    BY <1>2, <2>1, <2>3, <2>4, <2>5, <2>6 DEF Points, Writes, Halves
  <2>8. Reads'
    BY <1>1, <1>2 DEF Talks, Talk, Reads
  <2> QED
    BY <1>5, <2>7, <2>8 DEF Talk
<1>7. CASE i # 1
  <2>1. pc' = "read"
    BY <1>1, <1>3, <1>4, <1>7
  <2> QED
    BY <1>1, <1>2, <1>5, <2>1, ReturnKeeps DEF Talk
<1> QED
  BY <1>6, <1>7

LEMMA TalkSend ==
    ASSUME Talks, CallReturns, UNCHANGED drv, pc = "send", count > 0
    PROVE  Talk'
<1>1. /\ WireStays /\ UNCHANGED <<pc, i, ret, got, talking>>
      /\ moved' = [moved EXCEPT ![1] = @ + 1] /\ count' = count - 1
  BY SendReturns
<1>2. /\ todo = <<>> /\ UNCHANGED <<chip, phase, Target>> /\ phase = "a7"
      /\ Points /\ Writes /\ Reads
  BY <1>1 DEF CallReturns, WireStays, wire, Talks, Talk, Goes, Target
<1>3. /\ 1 \in 1..Len(msgs) /\ i = 1 /\ moved[1] \in Nat /\ count \in Nat
      /\ moved[1] + count = IF drv = "cfg_write" THEN 2 ELSE 1
      /\ Len(msgs) = IF drv = "cfg_write" THEN 1 ELSE 2
      /\ drv # "cfg_write" => moved[2] = 0
  BY Counts
<1>4. moved'[1] = moved[1] + 1 /\ (drv # "cfg_write" => moved'[2] = 0)
  <2>1. moved \in [1..Len(msgs) -> Nat]
    BY DEF Talks, Sound, IInv, TypeOK
  <2> QED
    BY <1>1, <1>3, <2>1
<1>5. moved'[1] > 0 /\ Pointed /\ chip.mode = "data"
  BY <1>2, <1>3, <1>4 DEF Pointed, Points
<1>6. Goes'
  BY <1>1, <1>2 DEF Goes, Ins
<1>7. Points'
  <2>1. moved'[1] # 0
    BY <1>3, <1>4
  <2> QED
    BY <1>1, <1>2, <1>5, <2>1 DEF Points
<1>8. Writes'
  <2>1. CASE drv = "cfg_write" /\ moved[1] = 1
    BY <1>2, <2>1 DEF Writes
  <2>2. CASE drv = "cfg_write" /\ moved[1] = 0
    <3>1. count' > 0 /\ pc' = "send" /\ todo' = CallOps'
      BY <1>1, <1>3, <2>2 DEF WireStays
    <3>2. (todo = CallOps /\ (Outs \/ pc = "ack") => todo # <<>>)'
      BY CallsDo, PTL
    <3>3. todo' # <<>> /\ moved'[1] = 1
      BY <1>4, <2>2, <3>1, <3>2 DEF Outs
    <3> QED
      BY <3>3 DEF Writes
  <2>3. CASE drv # "cfg_write"
    BY <2>3 DEF Writes
  <2> QED
    BY <1>3, <2>1, <2>2, <2>3
<1>9. Halves' /\ Reads'
  BY <1>2, <1>4, <1>5 DEF Halves, Reads
<1> QED
  BY <1>6, <1>7, <1>8, <1>9 DEF Talk

LEMMA TalkData ==
    ASSUME Talks, CallReturns, UNCHANGED drv, pc \in {"send", "read"}, count = 0
    PROVE  Talk'
<1>1. /\ WireStays /\ UNCHANGED <<moved, talking, got>> /\ i' = i + 1
      /\ \/ pc' = "stop" /\ ret' = i
         \/ pc' = "rep" /\ ret' = ret
  BY DataReturned
<1>2. /\ todo = <<>> /\ UNCHANGED <<chip, phase, Target>> /\ phase = "a7"
      /\ Points /\ Writes /\ Halves /\ Reads
  BY <1>1 DEF CallReturns, WireStays, wire, Talks, Talk, Goes, Target
<1>3. i \in 1..2 /\ (pc = "read" => i = 2)
  BY Counts
<1>4. Goes'
  BY <1>1, <1>2, <1>3 DEF Goes, Ins
<1>5. Pointed
  BY <1>2, <1>3 DEF Pointed
<1>6. Points'
  BY <1>1, <1>2, <1>5 DEF Points
<1>7. Writes' /\ Halves' /\ Reads'
  BY <1>1, <1>2 DEF Writes, Halves, Reads
<1> QED
  BY <1>4, <1>6, <1>7 DEF Talk

LEMMA TalkByte ==
    ASSUME Talks, CallReturns, UNCHANGED drv, pc = "read", count > 0
    PROVE  Talk'
<1>1. /\ WireStays /\ UNCHANGED <<i, ret, talking>> /\ pc' = "ack" /\ count' = count - 1
      /\ moved' = [moved EXCEPT ![2] = @ + 1] /\ got' = Append(got, rx)
  BY ByteReturned
<1>2. /\ todo = <<>> /\ UNCHANGED <<chip, phase, Target>> /\ phase = "a7" /\ talking
      /\ Points /\ Halves /\ Reads /\ Consistent(chip)
  BY <1>1 DEF CallReturns, WireStays, wire, Talks, Talk, Goes, Target, Ins
<1>3. /\ 2 \in 1..Len(msgs) /\ i = 2 /\ moved[2] \in Nat /\ count \in Nat /\ drv # "cfg_write"
      /\ moved[2] + count = IF drv = "cfg_read" THEN 1 ELSE 2
  BY Counts
<1>4. moved'[1] = moved[1] /\ moved'[2] = moved[2] + 1
  <2>1. moved \in [1..Len(msgs) -> Nat]
    BY DEF Talks, Sound, IInv, TypeOK
  <2>2. moved' = [moved EXCEPT ![2] = @ + 1]
    BY <1>1
  <2> QED
    BY <1>3, <2>1, <2>2
<1>5. rx = chip.byte /\ chip.mode = "send" /\ Tells(chip) /\ chip.ptr = Target
  <2>1. rx = chip.byte /\ chip.mode = "send"
    BY <1>2, ByteEnds DEF Ins
  <2>2. Pointed
    BY <1>3 DEF Pointed
  <2> QED
    BY <1>2, <2>1, <2>2 DEF Consistent, Points
<1>6. todo' # <<>>
  <2>1. (todo = CallOps /\ (Outs \/ pc = "ack") => todo # <<>>)'
    BY CallsDo, PTL
  <2> QED
    BY <1>1, <2>1 DEF WireStays
<1>7. Goes'
  BY <1>1, <1>2, <1>3, <1>4 DEF Goes, Ins
<1>8. Points'
  BY <1>1, <1>2, <1>3, <1>5 DEF Points
<1>9. Writes'
  BY <1>3 DEF Writes
<1>10. chip.high <=> moved[2] = 1
  BY <1>2, <1>3, <1>5 DEF Halves
<1>11. Halves'
  <2>1. moved'[2] = 2 <=> moved[2] = 1
    BY <1>3, <1>4
  <2> QED
    BY <1>1, <1>2, <1>6, <1>10, <2>1 DEF Halves
<1>12. got \in Seq(0..255) /\ Len(got) = moved[2] /\ rx \in 0..255 /\ drv \in Calling
  BY <1>3 DEF Talks, Collects, Sound, BitsLeft
<1>13. /\ got'[moved[2] + 1] = rx
       /\ \A k \in 1..moved[2] : got'[k] = got[k]
  BY <1>1, <1>12
<1>14. Reads'
  <2>1. CASE drv = "cfg_read"
    <3>1. moved[2] = 0
      BY <1>3, <2>1
    <3>2. got'[1] = chip.byte
      BY <1>5, <1>13, <3>1
    <3>3. chip.byte = chip.cfg
      BY <1>5, <2>1 DEF Tells, Target
    <3> QED
      BY <1>2, <2>1, <3>2, <3>3 DEF Reads
  <2>2. CASE drv = "temp_read" /\ moved[2] = 0
    <3>1. got'[1] = chip.byte /\ moved'[2] = 1
      BY <1>4, <1>5, <1>13, <2>2
    <3>2. chip.byte = chip.latch \div 256
      <4>1. ~chip.high /\ chip.ptr = RegTemp
        BY <1>5, <1>10, <2>2 DEF Target
      <4> QED
        BY <1>5, <4>1 DEF Tells
    <3> QED
      BY <1>2, <2>2, <3>1, <3>2 DEF Reads
  <2>3. CASE drv = "temp_read" /\ moved[2] = 1
    <3>1. got'[1] = got[1] /\ got'[2] = chip.byte
      BY <1>5, <1>13, <2>3
    <3>2. chip.byte = chip.latch % 256
      <4>1. chip.high /\ chip.ptr = RegTemp
        BY <1>5, <1>10, <2>3 DEF Target
      <4> QED
        BY <1>5, <4>1 DEF Tells
    <3>3. got[1] = chip.latch \div 256
      BY <1>2, <2>3 DEF Reads
    <3> QED
      BY <1>2, <2>3, <3>1, <3>2, <3>3 DEF Reads
  <2>4. moved[2] = 0 \/ moved[2] = 1
    BY <1>3
  <2> QED
    BY <1>3, <1>12, <2>1, <2>2, <2>3, <2>4 DEF Calling
<1> QED
  BY <1>7, <1>8, <1>9, <1>11, <1>14 DEF Talk

LEMMA TalkReturn ==
    ASSUME Talks, CallReturns, UNCHANGED drv
    PROVE  Talk'
<1>1. todo = <<>> /\ phase = "a7" /\ count \in Nat /\ Goes
  BY DEF CallReturns, Talks, Talk, Goes, Sound, IInv, TypeOK
<1>2. CASE pc \in {"rep", "stop", "ack"}
  <2>1. /\ WireStays /\ UNCHANGED <<i, count, moved, ret, got>>
        /\ pc = "rep" => pc' = "addr"
        /\ pc = "stop" => pc' = "idle"
        /\ pc = "ack" => pc' = "read" /\ (count > 0 => talking')
    BY <1>2, RepReturns, StopReturns, AckReturns
  <2>2. UNCHANGED <<chip, phase>>
    BY <2>1 DEF WireStays, wire
  <2>3. Goes'
    BY <1>1, <1>2, <2>1, <2>2 DEF Goes, Ins
  <2> QED
    BY <1>1, <1>2, <2>1, <2>2, <2>3, ReturnKeeps DEF Talk
<1>3. CASE pc = "addr"
  BY <1>3, TalkAddress
<1>4. CASE pc \in {"send", "read"} /\ count = 0
  BY <1>4, TalkData
<1>5. CASE pc \in {"send", "read"} /\ count > 0
  BY <1>5, TalkSend, TalkByte
<1>6. pc # "idle"
  BY DEF CallReturns
<1> QED
  BY <1>1, <1>2, <1>3, <1>4, <1>5, <1>6 DEF Goes

-----------------------------------------------------------------------------
(* From the reset to the end of the transfer.                              *)

\* What a transfer that lost nothing leaves.
LEMMA CallEnds ==
    ASSUME Sound, InStep, todo = <<>>, pc = "idle"
    PROVE  Free /\ Steady
<1>1. Outs => OutByte \in 0..255
  BY OutByteOK DEF Sound
<1>2. Ended
  BY <1>1, AtEnd
<1> QED
  BY <1>2 DEF Ended, Rests, AtRest, InStep

LEMMA SoundFits == Sound => IInv /\ (Outs => OutByte \in 0..255)
<1> QED
  BY OutByteOK DEF Sound

LEMMA ScriptPlain ==
    drv \in Calling /\ msgs = Script =>
        Len(msgs) = (IF drv = "cfg_write" THEN 1 ELSE 2) /\ Plain(msgs[1])
<1> SUFFICES ASSUME drv \in Calling, msgs = Script
             PROVE  Len(msgs) = (IF drv = "cfg_write" THEN 1 ELSE 2) /\ Plain(msgs[1])
  OBVIOUS
<1>1. Len(msgs) = (IF drv = "cfg_write" THEN 1 ELSE 2) /\ \A k \in 1..Len(msgs) : Plain(msgs[k])
  BY ScriptIs
<1> QED
  BY <1>1

\* The dialogue as it begins.
LEMMA TalkStarts ==
    ASSUME Sound, Sound', Free, Steady, NEW ms, Call(ms), ms = Script', drv' \in Calling
    PROVE  InStep' /\ Talk'
<1>1. msgs' = ms /\ i' = 1 /\ moved' = [k \in 1..Len(ms) |-> 0] /\ UNCHANGED <<wire, temp>>
  BY DEF Call, Xfer, EnterMsg
<1>2. ms \in Scripts
  BY DEF Script, Scripts
<1>3. /\ Len(ms) = IF drv' = "cfg_write" THEN 1 ELSE 2
      /\ Plain(ms[1])
  <2>1. (drv \in Calling /\ msgs = Script =>
           Len(msgs) = (IF drv = "cfg_write" THEN 1 ELSE 2) /\ Plain(msgs[1]))'
    BY ScriptPlain, PTL
  <2> QED
    BY <1>1, <2>1
<1>4. ms # <<>> /\ FirstPhase(ms[1]) = "a7" /\ Orderly(ms)
  BY <1>2, <1>3, ScriptsOK DEF Plain, FirstPhase
<1>5. InStep' /\ pc' = "addr" /\ phase' = "a7"
  BY <1>4, XferStarts DEF Sound
<1>6. chip'.mode = "off"
  BY <1>1 DEF Free, wire
<1>7. moved'[1] = 0 /\ (drv' # "cfg_write" => moved'[2] = 0)
  BY <1>1, <1>3
<1>8. Goes'
  BY <1>5 DEF Goes, Ins
<1>9. Points' /\ Writes' /\ Halves' /\ Reads'
  BY <1>1, <1>5, <1>6, <1>7 DEF Points, Pointed, Writes, Halves, Reads
<1> QED
  BY <1>5, <1>8, <1>9 DEF Talk

\* Unless something was lost since the attach or update began, the wire is in
\* step with its transfer and with the rest after it, and the dialogue takes its
\* course.
Held ==
    lost = mark =>
        /\ drv \in Calling \cup {"ready"} => InStep
        /\ drv \in Calling => Talk

LEMMA SameTalk ==
    ASSUME Talk, UNCHANGED <<vars, todo, got, chip, drv>>
    PROVE  Talk'
<1>1. Ins' <=> Ins
  BY CallsKept
<1>2. Goes'
  BY <1>1 DEF Talk, Goes, vars
<1>3. Points'
  BY DEF Talk, Points, Pointed, Target, vars
<1>4. Writes' /\ Halves' /\ Reads'
  BY DEF Talk, Writes, Halves, Reads, vars
<1> QED
  BY <1>2, <1>3, <1>4 DEF Talk

LEMMA HeldNext ==
    Sound /\ Undone /\ Collects /\ Consistent(chip) /\ Held /\ [TemperNext]_tvars => Held'
<1> SUFFICES ASSUME Sound, Undone, Collects, Consistent(chip), Held, [TemperNext]_tvars,
                    lost' = mark', drv' \in Calling \cup {"ready"}
             PROVE  InStep' /\ (drv' \in Calling => Talk')
  BY DEF Held
<1>0. /\ LinesOK /\ IInv /\ Ordered /\ Flow
      /\ lost \in Nat /\ mark \in Nat /\ mark <= lost /\ hold = FALSE /\ err = FALSE
      /\ Outs => OutByte \in 0..255
  BY Types, OutByteOK DEF Sound, Flow
<1>00. Sound'
  BY SoundNext
<1>1. CASE AttachReadsConfig
  <2>1. drv' = "cfg_read" /\ Call(CfgRead) /\ lost = mark /\ drv \in Resets /\ todo = <<>>
    BY <1>1 DEF AttachReadsConfig, Call, wire, Resets
  <2>2. CfgRead = Script'
    BY <2>1 DEF Script
  <2> QED
    BY <1>00, <2>1, <2>2, ResetEnds, TalkStarts DEF Calling
<1>2. CASE UpdateReads
  <2>1. drv' = "temp_read" /\ Call(TempRead) /\ lost = mark /\ drv \in Resets /\ todo = <<>>
    BY <1>2 DEF UpdateReads, Call, wire, Resets
  <2>2. TempRead = Script'
    BY <2>1 DEF Script
  <2> QED
    BY <1>00, <2>1, <2>2, ResetEnds, TalkStarts DEF Calling
<1>3. CASE AttachWritesConfig
  <2>1. /\ drv' = "cfg_write" /\ Call(CfgWrite) /\ lost = mark /\ drv = "cfg_read" /\ todo = <<>>
        /\ pc = "idle"
    BY <1>3 DEF AttachWritesConfig, Call, wire, Returned
  <2>2. CfgWrite = Script'
    BY <2>1 DEF Script
  <2>3. InStep
    BY <2>1 DEF Held, Calling
  <2> QED
    BY <1>00, <2>1, <2>2, <2>3, CallEnds, TalkStarts DEF Calling
<1>4. CASE Open \/ AttachUpdates \/ AttachFails \/ Update \/ Kill \/ Replug
  <2>1. drv' \notin Calling \cup {"ready"}
    BY <1>4 DEF Open, AttachUpdates, AttachFails, CloseLines, Update, BeginReset, Kill, Replug, Calling
  <2> QED
    BY <2>1
<1>5. CASE UpdateDone \/ UNCHANGED tvars
  <2>1. /\ UNCHANGED wvars /\ lost = mark
        /\ drv \in Calling \cup {"ready"}
        /\ drv' \in Calling => drv' = drv
    BY <1>5 DEF UpdateDone, tvars, wvars, Calling
  <2>2. InStep /\ (drv \in Calling => Talk)
    BY <2>1 DEF Held
  <2>3. Aside
    BY <2>1, <2>2 DEF wvars, Aside, Down, Rising, Up, Free, Begun, InStep, Steady
  <2>4. InStep'
    BY <1>0, <2>2, <2>3, Stays
  <2>5. UNCHANGED <<vars, todo, got, chip>>
    BY <2>1 DEF wvars
  <2> QED
    BY <2>1, <2>2, <2>4, <2>5, SameTalk
<1>6. CASE Warms
  <2>1. Measure /\ UNCHANGED <<drv, mark, lost, vars, todo, got, chip>>
    BY <1>6 DEF Warms, Measure, wire
  <2>2. InStep /\ (drv \in Calling => Talk)
    BY <2>1 DEF Held
  <2>3. Aside
    BY <1>0, <2>1, <2>2, HardwareAside DEF Hardware, InStep
  <2>4. InStep'
    BY <1>0, <2>2, <2>3, Stays
  <2> QED
    BY <2>1, <2>2, <2>4, SameTalk
<1>7. CASE OnWire
  <2>1. UNCHANGED <<drv, mark>> /\ (LineOp \/ CallReturns)
    BY <1>7 DEF OnWire, Wire
  <2>2. CASE LineOp
    <3>1. lost' \in {lost, lost + 1} /\ held' = held /\ todo # <<>>
      BY <1>0, <2>2, PlainOp
    <3>2. lost' = lost /\ lost = mark
      BY <1>0, <2>1, <3>1
    <3>3. Undisturbed /\ drv \in Calling
      BY <2>1, <3>1, <3>2, <1>0 DEF Undisturbed, Flow
    <3>4. Talks
      BY <3>2, <3>3 DEF Held, Talks
    <3>5. InStep'
      BY <1>0, <2>2, <3>3, <3>4, LineKeeps DEF Talks
    <3>6. Talk'
      BY <2>1, <2>2, <3>2, <3>4, TalkLine
    <3> QED
      BY <3>5, <3>6
  <2>3. CASE CallReturns
    <3>1. lost = mark /\ drv \in Calling
      BY <1>0, <2>1, <2>3 DEF CallReturns, wire, Flow
    <3>2. Talks
      BY <3>1 DEF Held, Talks
    <3>3. (IInv /\ (Outs => OutByte \in 0..255))'
      <4>1. (Sound => IInv /\ (Outs => OutByte \in 0..255))'
        BY SoundFits, PTL
      <4> QED
        BY <1>00, <4>1
    <3>4. InStep'
      BY <1>0, <2>3, <3>2, <3>3, CallKeeps DEF Talks
    <3>5. Talk'
      BY <2>1, <2>3, <3>2, TalkReturn
    <3> QED
      BY <3>4, <3>5
  <2> QED
    BY <2>1, <2>2, <2>3
<1> QED
  BY <1>1, <1>2, <1>3, <1>4, <1>5, <1>6, <1>7 DEF TemperNext, Driver

-----------------------------------------------------------------------------
(* The configuration stays through the resets that follow.                 *)

\* A chip that writes no register during a reset.
Idles(ch) == ch.mode = "off" \/ (ch.mode = "addr" /\ ch.n # 8)

\* Unless a message was lost, what an attached chip measures with.
Resolved ==
    lost = 0 =>
        /\ drv = "reset" => chip.cfg = FullResolution /\ control = pins /\ Idles(chip)
        /\ drv \in {"temp_read", "ready"} => chip.cfg = FullResolution

\* While SCL is low in a reset, the chip has not heard the last bit of an address.
LEMMA NoAddress ==
    ASSUME Freeing, NEW k \in 1..28, After(k), pins.scl = 0, chip.mode = "addr"
    PROVE  chip.n # 8
<1>1. ~After(0)
  BY DEF After
<1>2. PICK j \in 1..28 : After(j) /\ Adrift(j)
  BY <1>1 DEF Freeing
<1>3. Adrift(j) => \/ \E n \in 0..9 : Clocked(chip, n)
                   \/ Listening(chip)
  <2>1. 0 \in 0..9
    OBVIOUS
  <2> QED
    BY <2>1 DEF Adrift, High, Begun, Free
<1>4. CASE Listening(chip)
  BY <1>4 DEF Listening
<1>5. ASSUME NEW n \in 0..9, Clocked(chip, n) PROVE chip.n # 8
  BY <1>5 DEF Clocked
<1> QED
  BY <1>2, <1>3, <1>4, <1>5

LEMMA NoAddressAfter ==
    (Freeing /\ (\E k \in 1..28 : After(k)) /\ pins.scl = 0 /\ chip.mode = "addr") => chip.n # 8
<1> QED
  BY NoAddress

LEMMA ResetKeeps ==
    ASSUME Sound, Undone, drv \in Resets, lost = mark, lost' = lost, LineOp,
           control = pins, Idles(chip)
    PROVE  control' = pins' /\ Idles(chip') /\ chip'.cfg = chip.cfg
<1>1. /\ LinesOK /\ Freeing /\ hold = FALSE /\ err = FALSE
      /\ chip \in Chip /\ temp \in Word /\ todo # <<>>
  BY Types DEF Sound, Flow, Undone, LineOp, LinesOK
<1>2. /\ control' = pins' /\ todo' = Tail(todo)
      /\ \/ chip' = chip
         \/ /\ Head(todo) = "scl0" /\ pins.scl = 1
            /\ chip' = Lowered(chip, temp) /\ pins'.scl = 0
         \/ \E b \in Level : chip' = Raised(chip, b)
         \/ chip' \in {Started(chip), Stopped(chip)}
  BY <1>1, ChipOp
<1>3. Freeing' /\ \E k \in 1..28 : After(k)'
  <2>1. PICK k \in 0..28 : After(k)
    BY DEF Sound, Flow
  <2>2. k # 28
    BY <1>1, <2>1, Ends
  <2>3. k \in 0..27 /\ k + 1 \in 1..28
    BY <2>2
  <2>4. After(k + 1)'
    BY <1>2, <2>1, <2>3, Places
  <2>5. held' = held
    BY <1>1, PlainOp
  <2>6. Freeing'
    BY <1>1, <2>5, FreeingStep DEF Undisturbed
  <2> QED
    BY <2>3, <2>4, <2>6
<1>4. CASE chip' = chip
  BY <1>2, <1>4
<1>5. CASE chip' = Lowered(chip, temp) /\ pins'.scl = 0
  <2>1. chip.n \in -1..8 /\ (chip.mode = "addr" => chip.n < 7 \/ chip.n = 7)
    BY <1>1, ChipFields DEF Idles
  <2>2. CASE chip.mode = "off"
    BY <1>2, <1>5, <2>2 DEF Lowered, Idles
  <2>3. CASE chip.mode = "addr" /\ chip.n < 7
    <3>1. chip'.cfg = chip.cfg /\ chip'.mode = "addr" /\ chip'.n = chip.n + 1
      BY <1>1, <1>5, <2>3, FallsEarly DEF SameRegisters
    <3> QED
      BY <1>2, <2>1, <2>3, <3>1 DEF Idles
  <2>4. CASE chip.mode = "addr" /\ chip.n = 7
    <3>1. \/ chip'.mode = "off" /\ chip' = Off(chip)
          \/ chip'.mode = "addr" /\ chip'.n = 8
      BY <1>1, <1>5, <2>4, FallsLast
    <3>2. (Freeing /\ (\E k \in 1..28 : After(k)) /\ pins.scl = 0 /\ chip.mode = "addr" => chip.n # 8)'
      BY NoAddressAfter, PTL
    <3>3. chip'.mode = "off" /\ chip' = Off(chip)
      BY <1>3, <1>5, <3>1, <3>2
    <3>4. chip'.cfg = chip.cfg
      BY <1>1, <3>3, NothingFalls DEF SameRegisters
    <3> QED
      BY <1>2, <3>3, <3>4 DEF Idles
  <2> QED
    BY <2>1, <2>2, <2>3, <2>4 DEF Idles
<1>6. ASSUME NEW b \in Level, chip' = Raised(chip, b) PROVE Idles(chip') /\ chip'.cfg = chip.cfg
  <2>1. /\ SameRegisters(chip', chip)
        /\ \/ chip'.mode = chip.mode /\ chip'.n = chip.n
           \/ chip.mode = "send"
    BY <1>1, <1>6, NothingFalls
  <2> QED
    BY <2>1 DEF Idles, SameRegisters
<1>7. CASE chip' \in {Started(chip), Stopped(chip)}
  <2>1. SameRegisters(chip', chip) /\ chip'.mode \in {"off", "addr"} /\ chip'.n = -1
    BY <1>1, <1>7, NothingFalls
  <2> QED
    BY <1>2, <2>1 DEF Idles, SameRegisters
<1> QED
  BY <1>2, <1>4, <1>5, <1>6, <1>7

\* No line operation of the transfer of an update writes a register but the
\* pointer.
LEMMA ReadKeeps ==
    ASSUME Talks, drv = "temp_read", LineOp, lost' = lost
    PROVE  chip'.cfg = chip.cfg
<1>1. /\ LinesOK /\ InStep /\ hold = FALSE /\ err = FALSE /\ todo # <<>>
      /\ Outs => OutByte \in 0..255
      /\ phase = "a7" /\ pc \in {"idle", "rep", "addr", "send", "read", "ack", "stop"}
  BY OutByteOK DEF Talks, Sound, Flow, LineOp, Talk, Goes
<1>2. pc # "idle"
  <2>1. ASSUME pc = "idle" PROVE FALSE
    <3>1. InStep => Rests /\ AtRest
      BY <2>1 DEF InStep, AtStart, Place, Outs, Ins, Rests
    <3> QED
      BY <1>1, <3>1 DEF AtRest
  <2> QED
    BY <2>1
<1>3. Shifts \/ Takes \/ GoesOn
  BY <1>1, <1>2, ChipSteps
<1>4. Takes => chip'.cfg = chip.cfg
  <2> SUFFICES ASSUME Takes PROVE chip'.cfg = chip.cfg
    OBVIOUS
  <2>1. pc = "send"
    BY DEF Takes
  <2>2. moved[1] = 0
    BY <1>1, <2>1, Missing
  <2>3. chip.mode = "ptr"
    BY <1>1, <2>1, <2>2 DEF Talks, Talk, Points
  <2> QED
    BY <2>3 DEF Takes
<1> QED
  BY <1>3, <1>4 DEF Shifts, GoesOn, SameRegisters

\* The chip has the configuration when the driver goes on to its first update.
LEMMA Learned ==
    ASSUME Talks, AttachUpdates
    PROVE  chip.cfg = FullResolution
<1>1. /\ pc = "idle" /\ ret >= 0 /\ Sound /\ Collects /\ drv \in Calling
      /\ drv = "cfg_write" \/ (drv = "cfg_read" /\ Configured)
  BY DEF AttachUpdates, Returned, Talks
<1>2. CASE drv = "cfg_write"
  <2>1. msgs = Script /\ Len(msgs) = 1 /\ msgs[1].len = 2
    BY <1>1, <1>2, ScriptIs DEF Collects
  <2>2. moved[1] = 2
    BY <1>1, <2>1, Collected
  <2> QED
    BY <1>2, <2>2 DEF Talks, Talk, Writes
<1>3. CASE drv = "cfg_read" /\ got = <<FullResolution>>
  <2>1. Len(got) = moved[2]
    BY <1>1, <1>3 DEF Collects
  <2>2. moved[2] = 1 /\ got[1] = FullResolution
    BY <1>3, <2>1
  <2> QED
    BY <1>3, <2>2 DEF Talks, Talk, Reads
<1> QED
  BY <1>1, <1>2, <1>3 DEF Configured

LEMMA ResolvedNext ==
    Sound /\ Undone /\ Collects /\ Consistent(chip) /\ Held /\ Resolved /\ [TemperNext]_tvars
        => Resolved'
<1> SUFFICES ASSUME Sound, Undone, Collects, Consistent(chip), Held, Resolved, [TemperNext]_tvars,
                    lost' = 0, drv' \in {"reset", "temp_read", "ready"}
             PROVE  /\ chip'.cfg = FullResolution
                    /\ drv' = "reset" => control' = pins' /\ Idles(chip')
  BY DEF Resolved
<1>0. /\ LinesOK /\ Flow /\ lost \in Nat /\ mark \in Nat /\ mark <= lost
      /\ hold = FALSE /\ err = FALSE
  BY Types DEF Sound, Flow
<1>1. CASE AttachUpdates
  <2>1. /\ drv' = "reset" /\ drv \in Calling /\ pc = "idle" /\ todo = <<>> /\ UNCHANGED wire
    BY <1>1 DEF AttachUpdates, Returned, Calling
  <2>2. lost = 0 /\ lost = mark
    BY <1>0, <2>1 DEF wire
  <2>3. InStep /\ Talk
    BY <2>1, <2>2 DEF Held
  <2>4. Free /\ Steady
    BY <2>1, <2>3, CallEnds
  <2>5. chip.cfg = FullResolution
    BY <1>1, <2>1, <2>3, Learned DEF Talks
  <2> QED
    BY <2>1, <2>4, <2>5 DEF wire, Free, Steady, Idles
<1>2. CASE Update
  <2>1. drv = "ready" /\ UNCHANGED wire /\ pc = "idle" /\ todo = <<>>
    BY <1>0, <1>2 DEF Update, Flow
  <2>2. lost = 0 /\ lost = mark
    BY <1>0, <2>1 DEF wire
  <2>3. Free /\ Steady
    BY <2>1, <2>2, CallEnds DEF Held
  <2>4. chip.cfg = FullResolution
    BY <2>1, <2>2 DEF Resolved
  <2> QED
    BY <2>1, <2>3, <2>4 DEF wire, Free, Steady, Idles
<1>3. CASE UpdateReads \/ UpdateDone
  <2>1. /\ drv' \in {"temp_read", "ready"} /\ UNCHANGED <<chip, lost>>
        /\ drv \in {"reset", "temp_read"}
    BY <1>3 DEF UpdateReads, UpdateDone, Call, wire, wvars
  <2> QED
    BY <2>1 DEF Resolved
<1>4. CASE Open \/ AttachReadsConfig \/ AttachWritesConfig \/ AttachFails \/ Kill \/ Replug
  <2>1. drv' \notin {"reset", "temp_read", "ready"}
    BY <1>4 DEF Open, BeginReset, AttachReadsConfig, AttachWritesConfig, AttachFails, CloseLines,
                Kill, Replug
  <2> QED
    BY <2>1
<1>5. CASE Warms \/ UNCHANGED tvars
  <2>1. UNCHANGED <<control, pins, chip, lost, drv>>
    BY <1>5 DEF Warms, Measure, wire, tvars, wvars
  <2> QED
    BY <2>1 DEF Resolved
<1>6. CASE OnWire
  <2>1. UNCHANGED <<drv, mark>> /\ (LineOp \/ CallReturns)
    BY <1>6 DEF OnWire, Wire
  <2>2. CASE CallReturns
    <3>1. UNCHANGED <<control, pins, chip, lost, drv>>
      BY <2>1, <2>2 DEF CallReturns, wire
    <3> QED
      BY <3>1 DEF Resolved
  <2>3. CASE LineOp
    <3>1. lost' \in {lost, lost + 1} /\ todo # <<>>
      BY <1>0, <2>3, PlainOp
    <3>2. lost' = lost /\ lost = 0 /\ lost = mark
      BY <1>0, <3>1
    <3>3. CASE drv = "reset"
      <4>1. control' = pins' /\ Idles(chip') /\ chip'.cfg = chip.cfg
        BY <2>3, <3>2, <3>3, ResetKeeps DEF Resolved, Resets
      <4> QED
        BY <3>2, <3>3, <4>1 DEF Resolved
    <3>4. CASE drv = "temp_read"
      <4>1. Talks
        BY <3>2, <3>4 DEF Talks, Held, Calling
      <4>2. chip'.cfg = chip.cfg
        BY <2>3, <3>2, <3>4, <4>1, ReadKeeps
      <4> QED
        BY <2>1, <3>2, <3>4, <4>2 DEF Resolved
    <3>5. drv # "ready"
      BY <1>0, <3>1 DEF Flow
    <3> QED
      BY <2>1, <3>3, <3>4, <3>5
  <2> QED
    BY <2>1, <2>2, <2>3
<1> QED
  BY <1>1, <1>2, <1>3, <1>4, <1>5, <1>6 DEF TemperNext, Driver

-----------------------------------------------------------------------------
(* What the runs check of the driver.                                      *)

LEMMA ConsistentStep ==
    Sound /\ Consistent(chip) /\ [TemperNext]_tvars => Consistent(chip)'
<1> QED
  BY ConsistentNext DEF Sound

\* The inductive invariant.
DInv == Sound /\ Undone /\ Collects /\ Consistent(chip) /\ Held /\ Resolved

LEMMA DInvInit == TemperInit => DInv
<1> SUFFICES ASSUME TemperInit PROVE DInv
  OBVIOUS
<1>1. drv = "closed" /\ chip = PoweredUp
  BY DEF TemperInit, WireInit
<1>2. Consistent(chip)
  BY <1>1 DEF Consistent, PoweredUp
<1>3. Undone /\ Collects /\ Held /\ Resolved
  BY <1>1 DEF Undone, Collects, Held, Resolved, Resets, Calling
<1> QED
  BY <1>2, <1>3, SoundInit DEF DInv

LEMMA DInvariant == TemperSpec => []DInv
<1>1. DInv /\ [TemperNext]_tvars => DInv'
  BY SoundNext, UndoneNext, CollectsNext, ConsistentStep, HeldNext, ResolvedNext DEF DInv
<1> QED
  BY <1>1, DInvInit, PTL DEF TemperSpec

\* TEMPer.c:228-272: whatever was lost before, and wherever the process before
\* was killed, each transfer of an attach that loses no message succeeds.
THEOREM AttachesSucceed == TemperSpec => []AttachSucceeds
<1>1. DInv => AttachSucceeds
  BY DEF DInv, Held, Talk, Goes, AttachSucceeds, Returned, Calling
<1> QED
  BY <1>1, DInvariant, PTL

\* TEMPer.c:258-267: unless a message was lost, an attached sensor measures with
\* 12 bits for as long as the process uses it, and so it does after a process
\* that was killed in the midst of writing the configuration.
THEOREM ResolutionIsKept == TemperSpec => []KeepsResolution
<1>1. DInv => KeepsResolution
  BY DEF DInv, Resolved, KeepsResolution
<1> QED
  BY <1>1, DInvariant, PTL

-----------------------------------------------------------------------------
(* The driver is a sensor.                                                 *)

\* Before its first update ends a process has no reading.
Unread == drv \in {"closed", "attach_reset", "cfg_read", "cfg_write"} => reading = NoReading

LEMMA UnreadInit == TemperInit => Unread
BY DEF TemperInit, Unread

LEMMA UnreadNext == Flow /\ Unread /\ [TemperNext]_tvars => Unread'
<1> SUFFICES ASSUME Flow, Unread, [TemperNext]_tvars PROVE Unread'
  OBVIOUS
<1>1. CASE Open \/ Kill
  BY <1>1 DEF Open, Kill, Unread
<1>2. CASE AttachReadsConfig \/ AttachWritesConfig \/ AttachFails \/ Replug
  BY <1>2 DEF AttachReadsConfig, AttachWritesConfig, AttachFails, CloseLines, Replug, Unread
<1>3. CASE AttachUpdates \/ Update \/ UpdateReads \/ UpdateDone
  BY <1>3 DEF AttachUpdates, Update, BeginReset, UpdateReads, UpdateDone, Unread
<1>4. CASE OnWire \/ Warms \/ UNCHANGED tvars
  BY <1>4 DEF OnWire, Warms, tvars, Unread
<1> QED
  BY <1>1, <1>2, <1>3, <1>4 DEF TemperNext, Driver

LEMMA MovedLength == TypeOK => Len(moved) = Len(msgs)
<1> SUFFICES ASSUME TypeOK PROVE Len(moved) = Len(msgs)
  OBVIOUS
<1>1. moved \in [1..Len(msgs) -> Nat] /\ msgs \in Seq(Msg)
  BY DEF TypeOK
<1>2. Len(msgs) \in Nat
  BY <1>1, LenProperties
<1> QED
  BY <1>1, <1>2

\* What the mapping makes of each place the driver is at.
LEMMA StageIs ==
    /\ drv = "closed" => Stage = "off"
    /\ drv = "ready" => Stage = "ready"
    /\ drv \in {"attach_reset", "cfg_read", "cfg_write"} => Stage = "attaching"
    /\ drv \in {"reset", "temp_read"} => Stage = IF Latched THEN "sampled" ELSE "asked"
BY DEF Stage

LEMMA TakenIs ==
    /\ Latched => Taken = chip.latch /\ drv = "temp_read" /\ lost = mark
    /\ ~Latched => Taken = NoReading
BY DEF Latched, Taken

LEMMA SpoiledIs ==
    /\ drv \in {"reset", "temp_read", "ready"} /\ lost # mark => Spoiled = TRUE
    /\ drv \notin {"reset", "temp_read", "ready"} \/ lost = mark => Spoiled = FALSE
BY DEF Spoiled

LEMMA StageNext ==
    /\ drv' = "closed" => Stage' = "off"
    /\ drv' = "ready" => Stage' = "ready"
    /\ drv' \in {"attach_reset", "cfg_read", "cfg_write"} => Stage' = "attaching"
    /\ drv' \in {"reset", "temp_read"} => Stage' = IF Latched' THEN "sampled" ELSE "asked"
<1>1. (/\ drv = "closed" => Stage = "off"
       /\ drv = "ready" => Stage = "ready"
       /\ drv \in {"attach_reset", "cfg_read", "cfg_write"} => Stage = "attaching"
       /\ drv \in {"reset", "temp_read"} => Stage = IF Latched THEN "sampled" ELSE "asked")'
  BY StageIs, PTL
<1> QED
  BY <1>1

LEMMA TakenNext ==
    /\ Latched' => Taken' = chip'.latch /\ drv' = "temp_read" /\ lost' = mark'
    /\ ~Latched' => Taken' = NoReading
<1>1. (/\ Latched => Taken = chip.latch /\ drv = "temp_read" /\ lost = mark
       /\ ~Latched => Taken = NoReading)'
  BY TakenIs, PTL
<1> QED
  BY <1>1

LEMMA SpoiledNext ==
    /\ drv' \in {"reset", "temp_read", "ready"} /\ lost' # mark' => Spoiled' = TRUE
    /\ drv' \notin {"reset", "temp_read", "ready"} \/ lost' = mark' => Spoiled' = FALSE
<1>1. (/\ drv \in {"reset", "temp_read", "ready"} /\ lost # mark => Spoiled = TRUE
       /\ drv \notin {"reset", "temp_read", "ready"} \/ lost = mark => Spoiled = FALSE)'
  BY SpoiledIs, PTL
<1> QED
  BY <1>1

-----------------------------------------------------------------------------
(* When the temperature is latched, and until when.                        *)

LEMMA PulseMode ==
    ASSUME NEW cell \in Chip, NEW d \in Level, NEW w, NEW z, Pulse(cell, d, w, z), hold = FALSE
    PROVE  \/ chip.mode = cell.mode
           \/ cell.mode = "send" /\ cell.n = 8 /\ chip.mode = "off"
<1>1. chip = cell \/ chip = Raised(cell, SdaOf(d, cell))
  BY DEF Pulse, Down, Up, Rising
<1>2. SdaOf(d, cell) \in Level
  BY DEF SdaOf, Level
<1> QED
  BY <1>1, <1>2, NothingFalls

\* In the midst of a call a chip sends only into i2c_inb() and acknak().
LEMMA SendsWhere ==
    ASSUME LinesOK, InStep, Outs => OutByte \in 0..255, hold = FALSE, todo # <<>>,
           pc \in {"rep", "addr", "send", "read", "ack", "stop"}, chip.mode = "send"
    PROVE  pc = "ack" \/ Ins
<1>0. 0 \in Level /\ 1 \in Level
  BY DEF Level
<1>1. ASSUME NEW cell \in Chip, Silent(cell), NEW d \in Level, NEW w, NEW z, Pulse(cell, d, w, z)
      PROVE  FALSE
  BY <1>1, PulseMode DEF Silent
<1>2. CASE AtStart
  BY <1>2 DEF AtStart, Free, Begun
<1>3. CASE AtRep
  <2>1. ASSUME NEW cell \in Chip, NEW d \in Level, Silent(cell), Down(cell, d) PROVE FALSE
    BY <2>1 DEF Silent, Down
  <2>2. ~Begun
    BY DEF Begun
  <2> QED
    BY <1>0, <1>1, <1>3, <2>1, <2>2 DEF AtRep
<1>4. CASE AtStop
  <2>1. ASSUME NEW cell \in Chip, NEW d \in Level, Silent(cell), Down(cell, d) PROVE FALSE
    BY <2>1 DEF Silent, Down
  <2> QED
    BY <1>0, <1>1, <1>4, <2>1 DEF AtStop
<1>5. CASE Outs /\ AtOut(OutByte)
  BY <1>5, OutFalls
<1>6. ~(Rests /\ AtRest)
  BY DEF AtRest
<1> QED
  BY <1>2, <1>3, <1>4, <1>5, <1>6 DEF InStep, Place

\* All through i2c_inb() a chip that was told to send does.
LEMMA SendsThrough ==
    LinesOK /\ InStep /\ Ins /\ talking /\ hold = FALSE => chip.mode = "send"
<1> SUFFICES ASSUME LinesOK, InStep, Ins, talking, hold = FALSE PROVE chip.mode = "send"
  OBVIOUS
<1>0. 0 \in Level /\ 1 \in Level
  BY DEF Level
<1>1. AtIn
  BY DEF InStep, AtStart, Place, Ins, Outs, Rests
<1>2. ASSUME NEW cell \in Chip, NEW d \in Level, NEW n \in 0..8, Sends(cell, n), Down(cell, d)
      PROVE  chip.mode = "send"
  BY <1>2 DEF Sends, Down
<1>3. ASSUME NEW cell \in Chip, NEW n \in 0..7, Sends(cell, n), NEW w, NEW z,
             Pulse(cell, 1, w, z) \/ Up(cell, 1)
      PROVE  chip.mode = "send"
  <2>1. cell.mode = "send" /\ cell.n # 8
    BY <1>3 DEF Sends
  <2>2. CASE Pulse(cell, 1, w, z)
    BY <1>0, <2>1, <2>2, PulseMode
  <2>3. CASE Up(cell, 1)
    <3>1. chip = Raised(cell, SdaOf(1, cell)) /\ SdaOf(1, cell) \in Level
      BY <2>3 DEF Up, Rising, SdaOf, Level
    <3> QED
      BY <2>1, <3>1, NothingFalls
  <2> QED
    BY <1>3, <2>2, <2>3
<1>4. 0 \in 0..8 /\ 8 \in 0..8
  OBVIOUS
<1> QED
  BY <1>0, <1>1, <1>2, <1>3, <1>4 DEF AtIn

\* The lengths of an update's transfer.
LEMMA TwoMessages ==
    Sound /\ Collects /\ drv = "temp_read" =>
        Len(moved) = 2 /\ moved[1] \in Nat /\ moved[2] \in Nat
<1> SUFFICES ASSUME Sound, Collects, drv = "temp_read"
             PROVE  Len(moved) = 2 /\ moved[1] \in Nat /\ moved[2] \in Nat
  OBVIOUS
<1>1. TypeOK /\ drv \in Calling /\ msgs = Script
  BY DEF Sound, IInv, Collects, Calling
<1>2. Len(msgs) = 2
  BY <1>1, ScriptLength
<1> QED
  BY <1>1, <1>2, MovedLength DEF TypeOK

\* A line operation latches nothing, or the address of a read latches what the
\* sensor measures now.
LEMMA LatchLine ==
    ASSUME Talks, drv = "temp_read", lost = mark, LineOp, UNCHANGED <<drv, lost, mark>>
    PROVE  \/ (Latched' <=> Latched) /\ (Latched => chip'.latch = chip.latch)
           \/ ~Latched /\ Latched' /\ chip'.latch = temp
<1>1. /\ LinesOK /\ InStep /\ hold = FALSE /\ err = FALSE /\ todo # <<>>
      /\ Outs => OutByte \in 0..255
      /\ phase = "a7" /\ pc \in {"idle", "rep", "addr", "send", "read", "ack", "stop"}
      /\ pc = "ack" => moved[2] > 0
      /\ Ins => talking
  BY OutByteOK DEF Talks, Sound, Flow, LineOp, Talk, Goes
<1>2. pc # "idle"
  <2>1. ASSUME pc = "idle" PROVE FALSE
    <3>1. InStep => Rests /\ AtRest
      BY <2>1 DEF InStep, AtStart, Place, Outs, Ins, Rests
    <3> QED
      BY <1>1, <3>1 DEF AtRest
  <2> QED
    BY <2>1
<1>3. UNCHANGED vars /\ hold' = hold /\ held' = held
  BY <1>1, PlainOp DEF LineOp, SetLines
<1>4. Len(moved) = 2 /\ moved[2] \in Nat /\ moved' = moved
  BY <1>3, TwoMessages DEF Talks, vars
<1>5. /\ Latched <=> chip.mode = "send" \/ moved[2] > 0
      /\ Latched' <=> chip'.mode = "send" \/ moved[2] > 0
  BY <1>4 DEF Latched
<1>6. chip.mode = "send" /\ ~(moved[2] > 0) => Ins /\ chip'.mode = "send"
  <2> SUFFICES ASSUME chip.mode = "send", ~(moved[2] > 0) PROVE Ins /\ chip'.mode = "send"
    OBVIOUS
  <2>1. Ins /\ talking
    BY <1>1, <1>2, SendsWhere
  <2>2. InStep'
    BY <1>1, <1>3, LineKeeps DEF Undisturbed
  <2>3. LinesOK'
    BY <1>1, LinesNext DEF WireNext, Wire
  <2>4. Ins' /\ talking' /\ hold' = FALSE
    BY <1>1, <1>3, <2>1 DEF Ins, vars
  <2>5. (LinesOK /\ InStep /\ Ins /\ talking /\ hold = FALSE => chip.mode = "send")'
    BY SendsThrough, PTL
  <2> QED
    BY <2>1, <2>2, <2>3, <2>4, <2>5
<1>7. Shifts \/ Takes \/ GoesOn
  BY <1>1, <1>2, ChipSteps
<1>8. CASE Shifts
  BY <1>5, <1>6, <1>8 DEF Shifts, SameRegisters
<1>9. CASE Takes
  BY <1>5, <1>9 DEF Takes
<1>10. CASE GoesOn /\ pc # "addr"
  BY <1>5, <1>10 DEF GoesOn
<1>11. CASE GoesOn /\ pc = "addr"
  <2>1. moved[2] = 0
    <3>1. /\ i \in 1..Len(msgs) /\ Len(msgs) = 2 /\ moved[i] = 0
          /\ i = 1 => moved[2] = 0
      BY <1>11, Counts
    <3> QED
      BY <3>1
  <2>2. chip.mode # "send"
    BY <1>1, <1>11, SendsWhere DEF Ins
  <2> QED
    BY <1>5, <1>11, <2>1, <2>2 DEF GoesOn
<1> QED
  BY <1>7, <1>8, <1>9, <1>10, <1>11

\* A call that returns latches nothing.
LEMMA LatchReturn ==
    ASSUME Talks, drv = "temp_read", lost = mark, CallReturns, UNCHANGED <<drv, reading, mark>>
    PROVE  (Latched' <=> Latched) /\ chip'.latch = chip.latch
<1>1. UNCHANGED <<chip, lost>> /\ todo = <<>> /\ pc # "idle"
  BY DEF CallReturns, wire
<1>2. Len(moved) = 2 /\ moved[2] \in Nat /\ Len(moved') = 2 /\ moved'[2] \in Nat
  <2>1. Sound' /\ Collects'
    <3>1. TemperNext
      BY DEF TemperNext, Driver, OnWire, Wire
    <3> QED
      BY <3>1, SoundNext, CollectsNext DEF Talks
  <2>2. (Sound /\ Collects /\ drv = "temp_read" =>
            Len(moved) = 2 /\ moved[1] \in Nat /\ moved[2] \in Nat)'
    BY TwoMessages, PTL
  <2> QED
    BY <2>1, <2>2, TwoMessages DEF Talks
<1>3. pc \in {"rep", "addr", "send", "read", "ack", "stop"} /\ count \in Nat
  BY <1>1 DEF Talks, Talk, Goes, Sound, IInv, TypeOK
<1>4. moved'[2] = moved[2] \/ (moved'[2] > 0 /\ chip.mode = "send")
  <2>1. CASE pc \in {"rep", "addr", "ack", "stop"} \/ (pc \in {"send", "read"} /\ count = 0)
    BY <2>1, RepReturns, AddressReturned, AckReturns, StopReturns, DataReturned
  <2>2. CASE pc = "send" /\ count > 0
    <3>1. moved' = [moved EXCEPT ![1] = @ + 1]
      BY <2>2, SendReturns
    <3>2. moved \in [1..Len(msgs) -> Nat]
      BY DEF Talks, Sound, IInv, TypeOK
    <3> QED
      BY <3>1, <3>2
  <2>3. CASE pc = "read" /\ count > 0
    <3>1. moved' = [moved EXCEPT ![2] = @ + 1]
      BY <2>3, ByteReturned
    <3>2. moved \in [1..Len(msgs) -> Nat] /\ 2 \in 1..Len(msgs)
      BY <2>3, Counts DEF Talks, Sound, IInv, TypeOK
    <3>3. chip.mode = "send"
      BY <1>1, <2>3, ByteEnds DEF Ins
    <3> QED
      BY <1>2, <3>1, <3>2, <3>3
  <2> QED
    BY <1>3, <2>1, <2>2, <2>3
<1> QED
  BY <1>1, <1>2, <1>4 DEF Latched

\* The two bytes make a word.
LEMMA ValueIsWord ==
    ASSUME Sound, Collects, drv = "temp_read", pc = "idle", ret >= 0
    PROVE  /\ moved[2] = 2 /\ Len(got) = 2
           /\ got[1] \in 0..255 /\ got[2] \in 0..255 /\ Value \in Word
<1>1. drv \in Calling /\ drv # "cfg_write" /\ msgs = Script
  BY DEF Calling, Collects
<1>2. Len(msgs) = 2 /\ msgs[2].len = 2
  BY <1>1, ScriptIs
<1>3. \A k \in 1..Len(msgs) : moved[k] = msgs[k].len
  BY <1>1, Collected
<1>4. moved[2] = 2
  <2>1. 2 \in 1..Len(msgs)
    BY <1>2
  <2> QED
    BY <1>2, <1>3, <2>1
<1>5. Len(got) = 2 /\ got \in Seq(0..255)
  BY <1>1, <1>4 DEF Collects
<1>6. got[1] \in 0..255 /\ got[2] \in 0..255
  <2>1. 1 \in 1..Len(got) /\ 2 \in 1..Len(got)
    BY <1>5
  <2> QED
    BY <1>5, <2>1, ElementOfSeq
<1>7. Value \in Word
  <2>1. PICK a \in 0..255, b \in 0..255 : a = got[1] /\ b = got[2]
    BY <1>6
  <2>2. 256 * a + b \in Nat /\ 256 * a + b <= 65535
    OBVIOUS
  <2> QED
    BY <2>1, <2>2 DEF Value, Word
<1> QED
  BY <1>4, <1>5, <1>6, <1>7

\* What an update that nothing disturbed stores is what the chip latched.
LEMMA ValueIsLatched ==
    ASSUME Talks, drv = "temp_read", lost = mark, pc = "idle"
    PROVE  Latched /\ ret >= 0 /\ Value = chip.latch
<1>1. Sound /\ Collects /\ ret >= 0 /\ Reads
  BY DEF Talks, Talk, Goes
<1>2. moved[2] = 2 /\ Len(moved) = 2
  BY <1>1, ValueIsWord, TwoMessages
<1>3. got[1] = chip.latch \div 256 /\ got[2] = chip.latch % 256
  BY <1>1, <1>2 DEF Reads
<1>4. chip.latch \in Word
  <2>1. chip \in Chip
    BY <1>1 DEF Sound, LinesOK
  <2> QED
    BY <2>1 DEF Chip
<1>5. PICK w \in Word : w = chip.latch
  BY <1>4
<1>6. 256 * (w \div 256) + (w % 256) = w
  BY DEF Word
<1> QED
  BY <1>1, <1>2, <1>3, <1>5, <1>6 DEF Value, Latched

LEMMA NotYet ==
    drv # "temp_read" \/ lost # mark => ~Latched
BY DEF Latched

LEMMA NotYetNext ==
    drv' # "temp_read" \/ lost' # mark' => ~Latched'
<1>1. (drv # "temp_read" \/ lost # mark => ~Latched)'
  BY NotYet, PTL
<1> QED
  BY <1>1

\* What the abstract sensor does in each step.
MInv == DInv /\ Unread

LEMMA SensorInit == TemperInit => Abstract!Init
<1> SUFFICES ASSUME TemperInit PROVE Abstract!Init
  OBVIOUS
<1>1. drv = "closed" /\ reading = NoReading /\ temp \in Temps
  BY DEF TemperInit, WireInit
<1>2. Stage = "off" /\ Taken = NoReading /\ Spoiled = FALSE
  BY <1>1, StageIs, TakenIs, SpoiledIs, NotYet
<1> QED
  BY <1>1, <1>2 DEF Abstract!Init

Same == UNCHANGED <<Stage, Taken, reading, temp, Spoiled>>

\* A step that neither begins nor ends anything, with what was latched.
LEMMA Nothing ==
    ASSUME UNCHANGED <<drv, reading, temp>>, Spoiled' = Spoiled,
           drv \in {"closed", "attach_reset", "cfg_read", "cfg_write", "reset", "temp_read", "ready"},
           Latched' <=> Latched, Latched => chip'.latch = chip.latch
    PROVE  Same
<1>1. Stage' = Stage
  BY StageIs, StageNext
<1>2. Taken' = Taken
  BY TakenIs, TakenNext
<1> QED
  BY <1>1, <1>2 DEF Same

\* A message that is lost spoils the update that is on.
LEMMA Loses ==
    ASSUME drv \in {"reset", "temp_read"}, UNCHANGED <<drv, reading, temp, mark>>,
           lost \in Nat, mark \in Nat, mark <= lost, lost' = lost + 1
    PROVE  Same \/ Abstract!Disturb
<1>1. ~Latched' /\ lost' # mark'
  BY NotYetNext
<1>2. Stage' = "asked" /\ Taken' = NoReading /\ Spoiled' = TRUE
  BY <1>1, StageNext, TakenNext, SpoiledNext
<1>3. CASE lost = mark
  <2>1. Spoiled = FALSE /\ Stage \in {"asked", "sampled"}
    BY <1>3, StageIs, SpoiledIs
  <2> QED
    BY <1>2, <2>1 DEF Abstract!Disturb
<1>4. CASE lost # mark
  <2>1. Spoiled = TRUE /\ Stage = "asked" /\ Taken = NoReading
    BY <1>4, NotYet, StageIs, TakenIs, SpoiledIs
  <2> QED
    BY <1>2, <2>1 DEF Same
<1> QED
  BY <1>3, <1>4

\* The line operations and the calls that return, in an update's transfer.
LEMMA SensorWire ==
    ASSUME MInv, OnWire
    PROVE  Same \/ Abstract!Sample \/ Abstract!Disturb
<1>0. /\ Sound /\ LinesOK /\ Flow /\ lost \in Nat /\ mark \in Nat /\ mark <= lost
      /\ hold = FALSE /\ err = FALSE
  BY Types DEF MInv, DInv, Sound, Flow
<1>1. /\ UNCHANGED <<drv, reading, mark>> /\ (LineOp \/ CallReturns)
      /\ temp' = temp /\ lost' \in {lost, lost + 1}
      /\ CallReturns => lost' = lost
  <2>1. UNCHANGED <<drv, reading, mark>> /\ (LineOp \/ CallReturns)
    BY DEF OnWire, Wire
  <2>2. CallReturns => temp' = temp /\ lost' = lost
    BY DEF CallReturns, wire
  <2>3. LineOp => temp' = temp /\ lost' \in {lost, lost + 1}
    BY <1>0, PlainOp DEF LineOp
  <2> QED
    BY <2>1, <2>2, <2>3
<1>2. drv \in {"closed", "attach_reset", "cfg_read", "cfg_write", "reset", "temp_read", "ready"}
  BY <1>0 DEF Flow, Resets, Calling
<1>3. CASE drv \in {"closed", "attach_reset", "cfg_read", "cfg_write"}
  <2>1. ~Latched /\ ~Latched' /\ Spoiled = FALSE /\ Spoiled' = FALSE
    BY <1>1, <1>3, NotYet, NotYetNext, SpoiledIs, SpoiledNext
  <2> QED
    BY <1>1, <1>2, <2>1, Nothing
<1>4. CASE drv = "ready"
  <2>1. pc = "idle" /\ todo = <<>>
    BY <1>0, <1>4 DEF Flow
  <2> QED
    BY <1>1, <2>1 DEF LineOp, CallReturns
<1>5. CASE drv \in {"reset", "temp_read"} /\ lost' = lost + 1
  BY <1>0, <1>1, <1>5, Loses
<1>6. ASSUME drv \in {"reset", "temp_read"}, lost' = lost PROVE Spoiled' = Spoiled
  <2>1. CASE lost = mark
    <3>1. Spoiled = FALSE /\ Spoiled' = FALSE
      BY <1>1, <1>6, <2>1, SpoiledIs, SpoiledNext
    <3> QED
      BY <3>1
  <2>2. CASE lost # mark
    <3>1. Spoiled = TRUE /\ Spoiled' = TRUE
      BY <1>1, <1>6, <2>2, SpoiledIs, SpoiledNext
    <3> QED
      BY <3>1
  <2> QED
    BY <2>1, <2>2
<1>7. CASE drv \in {"reset", "temp_read"} /\ lost' = lost /\ (drv = "reset" \/ lost # mark)
  <2>1. ~Latched /\ ~Latched'
    BY <1>1, <1>7, NotYet, NotYetNext
  <2> QED
    BY <1>1, <1>2, <1>6, <1>7, <2>1, Nothing
<1>8. CASE drv = "temp_read" /\ lost' = lost /\ lost = mark
  <2>1. Talks
    BY <1>0, <1>8 DEF MInv, DInv, Held, Talks, Calling
  <2>2. CASE CallReturns
    <3>1. (Latched' <=> Latched) /\ chip'.latch = chip.latch
      BY <1>1, <1>8, <2>1, <2>2, LatchReturn
    <3> QED
      BY <1>1, <1>2, <1>6, <1>8, <3>1, Nothing
  <2>3. CASE LineOp
    <3>1. \/ (Latched' <=> Latched) /\ (Latched => chip'.latch = chip.latch)
          \/ ~Latched /\ Latched' /\ chip'.latch = temp
      BY <1>1, <1>8, <2>1, <2>3, LatchLine
    <3>2. CASE (Latched' <=> Latched) /\ (Latched => chip'.latch = chip.latch)
      BY <1>1, <1>2, <1>6, <1>8, <3>2, Nothing
    <3>3. CASE ~Latched /\ Latched' /\ chip'.latch = temp
      <4>1. Stage = "asked" /\ Stage' = "sampled" /\ Taken' = temp
        BY <1>1, <1>8, <3>3, StageIs, StageNext, TakenNext
      <4>2. Spoiled = FALSE /\ Spoiled' = FALSE
        BY <1>1, <1>8, SpoiledIs, SpoiledNext
      <4> QED
        BY <1>1, <4>1, <4>2 DEF Abstract!Sample
    <3> QED
      BY <3>1, <3>2, <3>3
  <2> QED
    BY <1>1, <2>2, <2>3
<1> QED
  BY <1>1, <1>2, <1>3, <1>4, <1>5, <1>7, <1>8

\* Each step of the driver is one of the sensor's, or none of its business.
LEMMA SensorNext == MInv /\ [TemperNext]_tvars => [Abstract!Next]_(Abstract!vars)
<1> SUFFICES ASSUME MInv, [TemperNext]_tvars PROVE Same \/ Abstract!Next
  BY DEF Same, Abstract!vars
<1>0. /\ Sound /\ Flow /\ Unread /\ lost \in Nat /\ mark \in Nat /\ mark <= lost
  BY Types DEF MInv, DInv, Sound, Flow
<1>1. CASE Open
  <2>1. drv = "closed" /\ drv' = "attach_reset" /\ reading' = reading /\ temp' = temp
    BY <1>0, <1>1 DEF Open, BeginReset, Unread
  <2>2. ~Latched /\ ~Latched'
    BY <2>1, NotYet, NotYetNext
  <2>3. /\ Stage = "off" /\ Stage' = "attaching" /\ Taken = NoReading /\ Taken' = NoReading
        /\ Spoiled = FALSE /\ Spoiled' = FALSE
    BY <2>1, <2>2, StageIs, StageNext, TakenIs, TakenNext, SpoiledIs, SpoiledNext
  <2>4. Abstract!Open
    BY <2>1, <2>3 DEF Abstract!Open
  <2> QED
    BY <2>4 DEF Abstract!Next
<1>2. CASE AttachReadsConfig \/ AttachWritesConfig
  <2>1. /\ drv \in {"attach_reset", "cfg_read", "cfg_write"} /\ UNCHANGED <<reading, temp>>
        /\ drv' \in {"attach_reset", "cfg_read", "cfg_write"}
    BY <1>2 DEF AttachReadsConfig, AttachWritesConfig, Call
  <2>2. ~Latched /\ ~Latched'
    BY <2>1, NotYet, NotYetNext
  <2>3. /\ Stage = "attaching" /\ Stage' = "attaching" /\ Taken = NoReading /\ Taken' = NoReading
        /\ Spoiled = FALSE /\ Spoiled' = FALSE
    BY <2>1, <2>2, StageIs, StageNext, TakenIs, TakenNext, SpoiledIs, SpoiledNext
  <2> QED
    BY <2>1, <2>3 DEF Same
<1>3. CASE AttachUpdates
  <2>1. drv \in {"cfg_read", "cfg_write"} /\ drv' = "reset" /\ UNCHANGED <<reading, temp>>
    BY <1>3 DEF AttachUpdates
  <2>2. ~Latched /\ ~Latched'
    BY <2>1, NotYet, NotYetNext
  <2>3. /\ Stage = "attaching" /\ Stage' = "asked" /\ Taken = NoReading /\ Taken' = NoReading
        /\ Spoiled' \in BOOLEAN
    <3>1. Spoiled' = TRUE \/ Spoiled' = FALSE
      BY <2>1, SpoiledNext
    <3> QED
      BY <2>1, <2>2, <3>1, StageIs, StageNext, TakenIs, TakenNext
  <2>4. Abstract!Attach
    BY <2>1, <2>3 DEF Abstract!Attach
  <2> QED
    BY <2>4 DEF Abstract!Next, Abstract!Driver
<1>4. CASE AttachFails \/ Kill
  <2>1. drv' = "closed" /\ reading' = NoReading /\ temp' = temp
    BY <1>0, <1>4 DEF AttachFails, CloseLines, Kill, Unread
  <2>2. ~Latched'
    BY <2>1, NotYetNext
  <2>3. Stage' = "off" /\ Taken' = NoReading /\ Spoiled' = FALSE
    BY <2>1, <2>2, StageNext, TakenNext, SpoiledNext
  <2>4. Abstract!Kill
    BY <2>1, <2>3 DEF Abstract!Kill
  <2> QED
    BY <2>4 DEF Abstract!Next
<1>5. CASE Update
  <2>1. drv = "ready" /\ drv' = "reset" /\ lost' = mark' /\ UNCHANGED <<reading, temp>>
    BY <1>5 DEF Update, BeginReset, wire
  <2>2. ~Latched /\ ~Latched'
    BY <2>1, NotYet, NotYetNext
  <2>3. /\ Stage = "ready" /\ Stage' = "asked" /\ Taken = NoReading /\ Taken' = NoReading
        /\ Spoiled' = FALSE
    BY <2>1, <2>2, StageIs, StageNext, TakenIs, TakenNext, SpoiledNext
  <2>4. Abstract!Ask
    BY <2>1, <2>3 DEF Abstract!Ask
  <2> QED
    BY <2>4 DEF Abstract!Next
<1>6. CASE UpdateReads
  <2>1. /\ drv = "reset" /\ drv' = "temp_read" /\ UNCHANGED <<reading, temp, chip, lost, mark>>
        /\ Call(TempRead) /\ todo = <<>> /\ pc = "idle"
    BY <1>6 DEF UpdateReads, Call, wire, Returned
  <2>2. ~Latched
    BY <2>1, NotYet
  <2>3. ~Latched'
    <3>1. CASE lost = mark
      <4>1. Free
        BY <1>0, <2>1, <3>1, ResetEnds DEF MInv, DInv, Resets
      <4>2. Len(TempRead) = 2
        BY DEF TempRead
      <4>3. moved'[2] = 0
        BY <2>1, <4>2 DEF Call, Xfer
      <4> QED
        BY <2>1, <4>1, <4>3 DEF Latched, Free
    <3>2. CASE lost # mark
      BY <2>1, <3>2, NotYetNext
    <3> QED
      BY <3>1, <3>2
  <2>4. /\ Stage = "asked" /\ Stage' = "asked" /\ Taken = NoReading /\ Taken' = NoReading
    BY <2>1, <2>2, <2>3, StageIs, StageNext, TakenIs, TakenNext
  <2>5. Spoiled' = Spoiled
    <3>1. CASE lost = mark
      <4>1. Spoiled = FALSE /\ Spoiled' = FALSE
        BY <2>1, <3>1, SpoiledIs, SpoiledNext
      <4> QED
        BY <4>1
    <3>2. CASE lost # mark
      <4>1. Spoiled = TRUE /\ Spoiled' = TRUE
        BY <2>1, <3>2, SpoiledIs, SpoiledNext
      <4> QED
        BY <4>1
    <3> QED
      BY <3>1, <3>2
  <2> QED
    BY <2>1, <2>4, <2>5 DEF Same
<1>7. CASE UpdateDone
  <2>1. /\ drv = "temp_read" /\ drv' = "ready" /\ UNCHANGED <<temp, lost, mark>>
        /\ reading' = (IF ret >= 0 THEN Value ELSE reading)
        /\ pc = "idle" /\ todo = <<>> /\ Collects
    BY <1>7 DEF UpdateDone, Returned, wvars, MInv, DInv
  <2>2. ~Latched'
    BY <2>1, NotYetNext
  <2>3. Stage' = "ready" /\ Taken' = NoReading
    BY <2>1, <2>2, StageNext, TakenNext
  <2>4. CASE lost = mark
    <3>1. Talks
      BY <2>1, <2>4 DEF MInv, DInv, Held, Talks, Calling
    <3>2. Latched /\ ret >= 0 /\ Value = chip.latch
      BY <2>1, <2>4, <3>1, ValueIsLatched
    <3>3. Stage = "sampled" /\ reading' = Taken
      BY <2>1, <3>2, StageIs, TakenIs
    <3>4. Spoiled = FALSE /\ Spoiled' = FALSE
      BY <2>1, <2>4, SpoiledIs, SpoiledNext
    <3>5. Abstract!Deliver
      BY <2>1, <2>3, <3>3, <3>4 DEF Abstract!Deliver
    <3> QED
      BY <3>5 DEF Abstract!Next, Abstract!Driver
  <2>5. CASE lost # mark
    <3>1. ~Latched
      BY <2>5, NotYet
    <3>2. Stage = "asked" /\ Taken = NoReading /\ Spoiled = TRUE /\ Spoiled' = TRUE
      BY <2>1, <2>5, <3>1, StageIs, TakenIs, SpoiledIs, SpoiledNext
    <3>3. reading' = reading \/ reading' \in Word
      <4>1. ret >= 0 => Value \in Word
        BY <1>0, <2>1, ValueIsWord
      <4> QED
        BY <2>1, <4>1
    <3>4. Abstract!DeliverAny
      BY <2>1, <2>3, <3>2, <3>3 DEF Abstract!DeliverAny
    <3> QED
      BY <3>4 DEF Abstract!Next, Abstract!Driver
  <2> QED
    BY <2>4, <2>5
<1>8. CASE OnWire
  <2>1. Same \/ Abstract!Sample \/ Abstract!Disturb
    BY <1>8, SensorWire
  <2> QED
    BY <2>1 DEF Abstract!Next, Abstract!Driver
<1>9. CASE Replug
  <2>1. /\ drv = "closed" /\ drv' = "closed" /\ UNCHANGED <<reading, temp>>
    BY <1>9 DEF Replug
  <2>2. ~Latched /\ ~Latched'
    BY <2>1, NotYet, NotYetNext
  <2>3. /\ Stage = "off" /\ Stage' = "off" /\ Taken = NoReading /\ Taken' = NoReading
        /\ Spoiled = FALSE /\ Spoiled' = FALSE
    BY <2>1, <2>2, StageIs, StageNext, TakenIs, TakenNext, SpoiledIs, SpoiledNext
  <2> QED
    BY <2>1, <2>3 DEF Same
<1>10. CASE Warms \/ UNCHANGED tvars
  <2>1. UNCHANGED <<drv, reading, mark, lost, moved, chip>>
    BY <1>10 DEF Warms, Measure, wire, vars, tvars, wvars
  <2>2. UNCHANGED <<Stage, Taken, Spoiled>>
    BY <2>1 DEF Stage, Taken, Spoiled, Latched
  <2>3. CASE UNCHANGED tvars
    BY <2>1, <2>2, <2>3 DEF Same, tvars, wvars
  <2>4. CASE Warms
    <3>1. temp' \in Temps
      BY <2>4 DEF Warms, Measure
    <3>2. Abstract!Measure
      BY <2>1, <2>2, <3>1 DEF Abstract!Measure
    <3> QED
      BY <3>2 DEF Abstract!Next
  <2> QED
    BY <1>10, <2>3, <2>4
<1> QED
  BY <1>1, <1>2, <1>3, <1>4, <1>5, <1>6, <1>7, <1>8, <1>9, <1>10 DEF TemperNext, Driver

\* The driver is a sensor as Sensor promises it, but for what must happen at
\* last: an update that no message is lost in delivers, whole, what the chip
\* measured when it was addressed between the begin of that update and its end,
\* whatever was lost before and wherever the process before was killed.
THEOREM TemperIsSensor == TemperSpec => Abstract!Steps
<1>1. MInv /\ [TemperNext]_tvars => Unread'
  BY UnreadNext DEF MInv, DInv, Sound
<1>2. TemperSpec => []MInv
  <2>1. TemperInit => MInv
    BY DInvInit, UnreadInit DEF MInv
  <2>2. MInv /\ [TemperNext]_tvars => MInv'
    <3>1. DInv /\ [TemperNext]_tvars => DInv'
      BY SoundNext, UndoneNext, CollectsNext, ConsistentStep, HeldNext, ResolvedNext DEF DInv
    <3> QED
      BY <1>1, <3>1 DEF MInv
  <2> QED
    BY <2>1, <2>2, PTL DEF TemperSpec
<1> QED
  BY <1>2, SensorInit, SensorNext, PTL DEF TemperSpec, Abstract!Steps

-----------------------------------------------------------------------------
(* Types.                                                                  *)

\* The reading is a word, if there is one.
Stored == reading \in Word \cup {NoReading}

LEMMA StoredNext == Sound /\ Collects /\ Stored /\ [TemperNext]_tvars => Stored'
<1> SUFFICES ASSUME Sound, Collects, Stored, [TemperNext]_tvars PROVE Stored'
  OBVIOUS
<1>1. CASE UpdateDone
  <2>1. drv = "temp_read" /\ pc = "idle" /\ reading' = IF ret >= 0 THEN Value ELSE reading
    BY <1>1 DEF UpdateDone, Returned
  <2>2. ret >= 0 => Value \in Word
    BY <2>1, ValueIsWord
  <2> QED
    BY <2>1, <2>2 DEF Stored
<1>2. CASE Open \/ Kill
  BY <1>2 DEF Open, Kill, Stored
<1>3. CASE AttachReadsConfig \/ AttachWritesConfig \/ AttachUpdates \/ AttachFails \/ UpdateReads
  BY <1>3 DEF AttachReadsConfig, AttachWritesConfig, AttachUpdates, AttachFails, CloseLines,
              UpdateReads, Stored
<1>4. CASE Update \/ OnWire \/ Replug \/ Warms \/ UNCHANGED tvars
  BY <1>4 DEF Update, OnWire, Replug, Warms, tvars, Stored
<1> QED
  BY <1>1, <1>2, <1>3, <1>4 DEF TemperNext, Driver

\* Every variable of the driver, and of the transfer and the lines below it, has
\* its type, in whatever state a process before left the stick.
THEOREM TemperTypeCorrect == TemperSpec => [](TypeOK /\ WireTypeOK /\ TemperTypeOK)
<1>1. TemperInit => Stored
  BY DEF TemperInit, Stored
<1>2. DInv => Sound /\ Collects
  BY DEF DInv
<1>3. TemperSpec => []Stored
  BY <1>1, <1>2, StoredNext, DInvariant, PTL DEF TemperSpec
<1>4. DInv /\ Stored => TypeOK /\ WireTypeOK /\ TemperTypeOK
  <2> SUFFICES ASSUME DInv, Stored PROVE TypeOK /\ WireTypeOK /\ TemperTypeOK
    OBVIOUS
  <2>1. LinesOK /\ IInv /\ BitsLeft /\ Flow
    BY DEF DInv, Sound
  <2>2. TypeOK /\ WireTypeOK
    BY <2>1 DEF IInv, LinesOK, BitsLeft, WireTypeOK
  <2>3. mark \in 0..MaxLost
    <3>1. lost \in 0..MaxLost /\ mark \in Nat /\ mark <= lost /\ MaxLost \in Nat
      BY <2>1, BoundsAssumption DEF LinesOK, Flow
    <3> QED
      BY <3>1
  <2>4. TemperTypeOK
    BY <2>1, <2>3 DEF Stored, TemperTypeOK, Flow, Resets, Calling
  <2> QED
    BY <2>2, <2>4
<1> QED
  BY <1>3, <1>4, DInvariant, PTL
=============================================================================
