--------------------------- MODULE ReadingProofs ----------------------------
(***************************************************************************)
(* Proofs about readings, for any words the sensors measure: how PCsensor  *)
(* takes one off its stick, and how Convert prints what a driver stored.   *)
(***************************************************************************)
EXTENDS PCsensor, Convert, TLAPS

-----------------------------------------------------------------------------
(* The answer of a PCsensor stick.                                         *)

\* What a word is to the provers.
LEMMA WordBounds ==
    ASSUME NEW w \in Word
    PROVE  w \in Int /\ 0 <= w /\ w <= 65535
BY SMT DEF Word

LEMMA BoundedIsWord ==
    ASSUME NEW w \in Int, 0 <= w, w <= 65535
    PROVE  w \in Word
BY SMT DEF Word

\* The two bytes of a word.
LEMMA Bytes ==
    ASSUME NEW w \in Int, 0 <= w, w <= 65535
    PROVE  /\ High(w) \in Int /\ 0 <= High(w) /\ High(w) <= 255
           /\ Low(w) \in Int /\ 0 <= Low(w) /\ Low(w) <= 255
           /\ w = High(w) * 256 + Low(w)
BY SMT DEF High, Low

\* A short answer is less than a degree below the measurement.
LEMMA ShortAnswer ==
    ASSUME NEW w \in Word, NEW n \in Size
    PROVE  /\ Received(w, n) \in Word
           /\ n >= 2 => Received(w, n) = w
           /\ ~Again(Received(w, n)) =>
                 /\ 0 <= w - Received(w, n) /\ w - Received(w, n) <= 255
                 /\ w >= 32768 => Received(w, n) >= 32768
<1> DEFINE h == High(w)
           l == Low(w)
           t == Received(w, n)
<1>1. w \in Int /\ 0 <= w /\ w <= 65535
  BY WordBounds
<1>2. /\ h \in Int /\ 0 <= h /\ h <= 255
      /\ l \in Int /\ 0 <= l /\ l <= 255
      /\ w = h * 256 + l
  BY <1>1, Bytes
<1>3. t = (IF n >= 1 THEN h * 256 ELSE 0) + (IF n >= 2 THEN l ELSE 0)
  BY DEF Received
<1>4. Again(t) <=> t = 0
  BY DEF Again
<1>5. n \in Int /\ 0 <= n
  BY DEF Size
<1> HIDE DEF h, l, t
<1>6. CASE n = 0
  <2>1. t = 0
    BY <1>3, <1>6
  <2> QED BY <1>4, <1>6, <2>1, BoundedIsWord DEF t
<1>7. CASE n = 1
  <2>1. t = h * 256
    BY <1>2, <1>3, <1>7
  <2>2. t \in Int /\ 0 <= t /\ t <= 65535 /\ 0 <= w - t /\ w - t <= 255
    BY <1>2, <2>1
  <2>3. w >= 32768 => t >= 32768
    BY <1>2, <2>1
  <2> QED BY <1>7, <2>2, <2>3, BoundedIsWord DEF t
<1>8. CASE n >= 2
  <2>1. t = w
    BY <1>2, <1>3, <1>5, <1>8
  <2> QED BY <1>1, <2>1 DEF t
<1> QED BY <1>5, <1>6, <1>7, <1>8

LEMMA ValueNear ==
    ASSUME NEW w \in Word, NEW n \in Size, ~Again(Received(w, n))
    PROVE  /\ Value(Received(w, n)) \in Int16
           /\ Near(Value(Received(w, n)), Signed(w))
           /\ n >= 2 => Value(Received(w, n)) = Signed(w)
<1> DEFINE t == Received(w, n)
<1>1. /\ t \in Word /\ 0 <= w - t /\ w - t <= 255
      /\ w >= 32768 => t >= 32768
      /\ n >= 2 => t = w
  BY ShortAnswer
<1> HIDE DEF t
<1>2. /\ Value(t) \in Int16
      /\ Near(Value(t), Signed(w))
      /\ n >= 2 => Value(t) = Signed(w)
  <2>1. t \in Int /\ w \in Int /\ 0 <= t /\ t <= 65535 /\ 0 <= w /\ w <= 65535
    BY <1>1, WordBounds
  <2>2. CASE t >= 32768 /\ w >= 32768
    <3>1. Value(t) = t - 65536 /\ Signed(w) = w - 65536
      BY <1>1, <2>1, <2>2, SMT DEF Value, Signed
    <3>2. Value(t) \in Int16
      BY <2>1, <2>2, <3>1, SMT DEF Int16
    <3> QED BY <1>1, <2>1, <3>1, <3>2 DEF Near
  <2>3. CASE t < 32768 /\ w < 32768
    <3>1. Value(t) = t /\ Signed(w) = w
      BY <1>1, <2>1, <2>3, SMT DEF Value, Signed
    <3>2. Value(t) \in Int16
      BY <2>1, <2>3, <3>1, SMT DEF Int16
    <3> QED BY <1>1, <2>1, <3>1, <3>2 DEF Near
  <2> QED BY <1>1, <2>1, <2>2, <2>3
<1> QED BY <1>2 DEF t

-----------------------------------------------------------------------------
(* The invariant.                                                          *)

\* In an update the stick has heard the commands sent so far, in a row, and
\* after the last it has measured.
InStep ==
    call = "update" =>
        /\ step \in 1..9 => heard = step
        /\ step = 10 => fresh = TRUE

Inv == TypeOK /\ InStep

LEMMA Lengths == Len(SetupCommands) = 8 /\ Len(ReadCommands) = 10 /\ Len(Measuring) = 10
BY DEF SetupCommands, ReadCommands, Measuring

LEMMA Commands ==
    /\ \A k \in 1..10 : ReadCommands[k] = Measuring[k]
    /\ \A k \in 2..10 : Measuring[k] # Measuring[1]
BY DEF ReadCommands, Measuring

\* What hearing a command does.
LEMMA HearType ==
    ASSUME TypeOK, NEW c, Hear(c) \/ Unheard
    PROVE  /\ heard' \in 0..9
           /\ latch' \in {latch, temp}
           /\ fresh' \in BOOLEAN
<1>1. CASE Hear(c)
  <2> DEFINE n == IF c = Measuring[heard + 1] THEN heard + 1
                  ELSE IF c = Measuring[1] THEN 1 ELSE 0
  <2>1. n \in 0..10
    BY Lengths DEF TypeOK
  <2>2. IF n = 10
        THEN heard' = 0 /\ latch' = temp /\ fresh' = (call = "update")
        ELSE heard' = n /\ UNCHANGED <<latch, fresh>>
    BY <1>1, Lengths DEF Hear
  <2> HIDE DEF n
  <2>3. CASE n = 10
    BY <2>2, <2>3
  <2>4. CASE n # 10
    BY <2>1, <2>2, <2>4 DEF TypeOK
  <2> QED BY <2>3, <2>4
<1>2. CASE Unheard
  BY <1>2, Lengths DEF Unheard, stick, TypeOK
<1> QED BY <1>1, <1>2

LEMMA InitInv == Init => Inv
<1> SUFFICES ASSUME Init PROVE Inv
  OBVIOUS
<1>1. TypeOK
  BY Lengths DEF Init, TypeOK
<1>2. InStep
  BY DEF Init, InStep
<1> QED BY <1>1, <1>2 DEF Inv

LEMMA BeginInv ==
    ASSUME Inv, Attach \/ Update
    PROVE  Inv'
<1>1. /\ call' \in {"attach", "update"} /\ step' = 0 /\ clean' = TRUE /\ fresh' = FALSE
      /\ UNCHANGED <<reading, heard, latch, temp>>
  BY DEF Attach, Update, Begin, stick
<1>2. TypeOK'
  <2>1. /\ call' = "attach" => step' < Len(SetupCommands)
        /\ call' = "update" => step' <= Len(ReadCommands)
    BY <1>1, Lengths
  <2>2. /\ reading' \in {NoReading} \cup Int16
        /\ heard' \in 0..(Len(Measuring) - 1)
        /\ latch' \in Words /\ temp' \in Words
    BY <1>1 DEF Inv, TypeOK
  <2>3. /\ call' \in {"closed", "attach", "update", "open"} /\ step' \in Nat
        /\ fresh' \in BOOLEAN /\ clean' \in BOOLEAN
    BY <1>1
  <2> QED BY <2>1, <2>2, <2>3 DEF TypeOK
<1>3. InStep'
  BY <1>1 DEF InStep
<1> QED BY <1>2, <1>3 DEF Inv

LEMMA SetupInv ==
    ASSUME Inv, Setup
    PROVE  Inv'
<1>1. heard' \in 0..9 /\ latch' \in {latch, temp} /\ fresh' \in BOOLEAN
  BY HearType DEF Inv, Setup
<1>2. /\ call = "attach" /\ step \in 0..7
      /\ UNCHANGED <<reading, temp, clean>>
      /\ IF step + 1 < 8 THEN call' = call /\ step' = step + 1
         ELSE call' = "update" /\ step' = 0
  BY Lengths DEF Setup, Inv, TypeOK
<1>3. CASE step + 1 < 8
  BY <1>1, <1>2, <1>3, Lengths DEF Inv, TypeOK, InStep
<1>4. CASE ~(step + 1 < 8)
  BY <1>1, <1>2, <1>4, Lengths DEF Inv, TypeOK, InStep
<1> QED BY <1>3, <1>4

LEMMA CommandInv ==
    ASSUME Inv, Command
    PROVE  Inv'
<1>1. heard' \in 0..9 /\ latch' \in {latch, temp} /\ fresh' \in BOOLEAN
  BY HearType DEF Inv, Command
<1>2. call = "update" /\ step \in 0..9 /\ UNCHANGED <<reading, temp>>
  BY Lengths DEF Command, Inv, TypeOK
<1>3. CASE Failed /\ clean' = FALSE
  <2>1. call' = "open" /\ step' = 0 /\ clean' = FALSE
    BY <1>3 DEF Failed
  <2>2. /\ reading' \in {NoReading} \cup Int16
        /\ latch' \in Words /\ temp' \in Words
    BY <1>1, <1>2 DEF Inv, TypeOK
  <2>3. TypeOK'
    <3>1. /\ call' \in {"closed", "attach", "update", "open"} /\ step' \in Nat
          /\ call' # "attach" /\ call' # "update" /\ clean' \in BOOLEAN
      BY <2>1
    <3>2. heard' \in 0..(Len(Measuring) - 1) /\ fresh' \in BOOLEAN
      BY <1>1, Lengths
    <3> QED BY <2>2, <3>1, <3>2, Zenon DEF TypeOK
  <2>4. InStep'
    BY <2>1 DEF InStep
  <2> QED BY <2>3, <2>4 DEF Inv
<1>4. CASE /\ Hear(ReadCommands[step + 1])
           /\ call' = call /\ step' = step + 1
           /\ UNCHANGED clean
  <2> DEFINE c == ReadCommands[step + 1]
             n == IF c = Measuring[heard + 1] THEN heard + 1
                  ELSE IF c = Measuring[1] THEN 1 ELSE 0
  <2>1. step + 1 \in 1..10 /\ heard \in 0..9 /\ heard + 1 \in 1..10
    BY <1>2, Lengths DEF Inv, TypeOK
  <2>2. c = Measuring[step + 1]
    BY <2>1, Commands
  <2>3. n = step + 1
    <3>1. CASE step = 0
      <4>1. c = Measuring[1]
        BY <2>2, <3>1
      <4>2. heard + 1 # 1 => Measuring[heard + 1] # Measuring[1]
        BY <2>1, Commands
      <4>3. CASE heard = 0
        BY <3>1, <4>1, <4>3
      <4>4. CASE heard # 0
        BY <2>1, <3>1, <4>1, <4>2, <4>4
      <4> QED BY <4>3, <4>4
    <3>2. CASE step # 0
      <4>1. heard = step
        BY <1>2, <3>2 DEF Inv, InStep
      <4> QED BY <2>2, <4>1
    <3> QED BY <3>1, <3>2
  <2>4. IF n = 10
        THEN heard' = 0 /\ latch' = temp /\ fresh' = (call = "update")
        ELSE heard' = n /\ UNCHANGED <<latch, fresh>>
    BY <1>4, Lengths DEF Hear
  <2> HIDE DEF n
  <2>5. InStep'
    <3>1. step' = n /\ call' = "update" /\ n \in 1..10
      BY <1>2, <1>4, <2>1, <2>3
    <3>2. n \in 1..9 => heard' = n
      BY <2>4
    <3>3. n = 10 => fresh' = TRUE
      BY <1>2, <2>4, Zenon
    <3> QED BY <3>1, <3>2, <3>3, Zenon DEF InStep
  <2>6. TypeOK'
    BY <1>1, <1>2, <1>4, <2>1, Lengths DEF Inv, TypeOK
  <2> QED BY <2>5, <2>6 DEF Inv
<1> QED BY <1>3, <1>4 DEF Command

LEMMA AnswerInv ==
    ASSUME Inv, (\E n \in Size : Answer(n)) \/ AnswerFails
    PROVE  Inv'
<1>1. CASE AnswerFails
  BY <1>1, Lengths DEF AnswerFails, Failed, Inv, TypeOK, InStep, stick
<1>2. ASSUME NEW n \in Size, Answer(n) PROVE Inv'
  <2>1. latch \in Word
    BY WordsAssumption DEF Inv, TypeOK
  <2>2. ~Again(Received(latch, n)) => Value(Received(latch, n)) \in Int16
    BY <2>1, ValueNear
  <2>3. reading' \in {NoReading} \cup Int16
    BY <1>2, <2>2 DEF Answer, Inv, TypeOK
  <2> QED BY <1>2, <2>3, Lengths DEF Answer, Inv, TypeOK, InStep, stick
<1> QED BY <1>1, <1>2

LEMMA OtherInv ==
    ASSUME Inv, Exit \/ Warms \/ UNCHANGED vars
    PROVE  Inv'
<1>1. CASE Exit
  BY <1>1, Lengths DEF Exit, Inv, TypeOK, InStep, stick
<1>2. CASE Warms
  BY <1>2, Lengths DEF Warms, Inv, TypeOK, InStep, stick
<1>3. CASE UNCHANGED vars
  BY <1>3, Lengths DEF vars, Inv, TypeOK, InStep, stick
<1> QED BY <1>1, <1>2, <1>3

\* Inv is inductive.
THEOREM Inductive == Spec => []Inv
<1>1. Inv /\ [Next]_vars => Inv'
  BY BeginInv, SetupInv, CommandInv, AnswerInv, OtherInv DEF Next
<1> QED BY <1>1, InitInv, PTL DEF Spec

\* Every variable keeps its type: the answer fits its 16 bits with its sign.
THEOREM TypeCorrect == Spec => []TypeOK
<1>1. Inv => TypeOK
  BY DEF Inv
<1> QED BY <1>1, Inductive, PTL

\* A reading is only ever stored by an answer.
LEMMA StoredByAnswer ==
    ASSUME Inv, [Next]_vars, reading' \notin {reading, NoReading}
    PROVE  \E n \in Size : Answer(n) /\ ~Again(Received(latch, n))
<1>1. \/ \E n \in Size : Answer(n)
      \/ reading' \in {reading, NoReading}
  BY DEF Next, Attach, Update, Setup, Command, AnswerFails, Exit, Warms, vars
<1>2. PICK n \in Size : Answer(n)
  BY <1>1
<1>3. ~Again(Received(latch, n))
  BY <1>2 DEF Answer
<1> QED BY <1>2, <1>3

\* Whatever fails and however short the answer, what is stored was measured in
\* this update and is less than a degree off.
THEOREM StoresMeasured == Spec => ReadingMeasured
<1> DEFINE Meant ==
        reading' \notin {reading, NoReading} =>
            /\ fresh
            /\ Near(reading', Signed(latch))
<1>1. Inv /\ [Next]_vars => Meant
  <2> SUFFICES ASSUME Inv, [Next]_vars, reading' \notin {reading, NoReading}
               PROVE  fresh /\ Near(reading', Signed(latch))
    OBVIOUS
  <2>1. PICK n \in Size : Answer(n) /\ ~Again(Received(latch, n))
    BY StoredByAnswer
  <2>2. call = "update" /\ step = 10 /\ reading' = Value(Received(latch, n))
    BY <2>1, Lengths DEF Answer
  <2>3. latch \in Word
    BY WordsAssumption DEF Inv, TypeOK
  <2> QED BY <2>1, <2>2, <2>3, ValueNear DEF Inv, InStep
<1>2. Inv /\ [Next]_vars => [Meant]_vars
  BY <1>1
<1> QED BY <1>2, Inductive, PTL DEF Spec, ReadingMeasured

\* An update without a failure recovers from whatever came before it.
THEOREM CleanStores == Spec => CleanUpdateStores
<1> DEFINE Stores ==
        \A n \in Size : clean /\ n >= 2 /\ Answer(n) =>
            /\ fresh
            /\ latch # 0 => reading' = Signed(latch)
<1>1. Inv => Stores
  <2> SUFFICES ASSUME Inv, NEW n \in Size, n >= 2, Answer(n)
               PROVE  fresh /\ (latch # 0 => reading' = Signed(latch))
    OBVIOUS
  <2>1. call = "update" /\ step = 10
    BY Lengths DEF Answer
  <2>2. latch \in Word
    BY WordsAssumption DEF Inv, TypeOK
  <2>3. Received(latch, n) = latch
    BY <2>2, ShortAnswer
  <2>4. latch # 0 => reading' = Value(Received(latch, n)) /\ ~Again(Received(latch, n))
    BY <2>3 DEF Answer, Again
  <2> QED BY <2>1, <2>2, <2>4, ValueNear DEF Inv, InStep
<1>2. Inv => [Stores]_vars
  BY <1>1
<1> QED BY <1>2, Inductive, PTL DEF Spec, CleanUpdateStores

-----------------------------------------------------------------------------
(* Unit codes.                                                             *)

\* The power of ten a prefix stands for.
Power(prefix) == CASE prefix = "" -> 0 [] prefix = "m" -> -3
                   [] prefix = "u" -> -6 [] prefix = "n" -> -9

\* A negative power in five bits.
LEMMA TwosComplement ==
    ASSUME NEW p \in Int, -16 <= p, p < 0
    PROVE  Pow10(p) = p + 32
<1>1. p % 32 = p + 32
  BY SMT
<1> QED BY <1>1 DEF Pow10

\* The two's complement of five bits loses no power of ten, and the code of the
\* scale is not touched by it.
LEMMA CodesApart ==
    ASSUME NEW p \in {0, -3, -6, -9}, NEW s \in {64, 96, 128}
    PROVE  Pow10Of(Pow10(p) + s) = p /\ UnitsOf(Pow10(p) + s) = s
<1>1. CASE p = 0
  BY <1>1 DEF Pow10Of, Pow10, UnitsOf
<1>2. ASSUME NEW n \in {-3, -6, -9}, p = n
      PROVE  Pow10Of(Pow10(p) + s) = p /\ UnitsOf(Pow10(p) + s) = s
  <2>1. Pow10(n) = n + 32
    BY TwosComplement
  <2>2. /\ n + 32 + s \in Int
        /\ ((n + 32 + s) % 32) \div 16 = 1 /\ (n + 32 + s) % 16 = n + 16
        /\ ((n + 32 + s) \div 32) * 32 = s
    OBVIOUS
  <2> QED BY <1>2, <2>1, <2>2 DEF Pow10Of, UnitsOf
<1> QED BY <1>1, <1>2

\* What units_is_valid() makes of a prefix and a name.
LEMMA CodeIs ==
    ASSUME NEW prefix \in Prefixes, NEW name \in Names
    PROVE  /\ Pow10Of(Code(<<prefix, name>>)) = Power(prefix)
           /\ UnitsOf(Code(<<prefix, name>>)) = NameCode(name)
           /\ Power(prefix) \in {0, -3, -6, -9}
           /\ Power(prefix) = -3 <=> prefix = "m"
           /\ NameCode(name) \in {64, 96, 128}
<1>1. /\ Power(prefix) \in {0, -3, -6, -9} /\ (Power(prefix) = -3 <=> prefix = "m")
      /\ PrefixCode(prefix) = Pow10(Power(prefix))
  <2>1. CASE prefix = ""
    <3>1. Power(prefix) = 0 /\ prefix # "m"
      BY <2>1 DEF Power
    <3>2. PrefixCode(prefix) = Pow10(0)
      BY <2>1 DEF PrefixCode
    <3> QED BY <3>1, <3>2
  <2>2. CASE prefix = "m"
    BY <2>2 DEF Power, PrefixCode
  <2>3. CASE prefix = "u"
    BY <2>3 DEF Power, PrefixCode
  <2>4. CASE prefix = "n"
    BY <2>4 DEF Power, PrefixCode
  <2> QED BY <2>1, <2>2, <2>3, <2>4 DEF Prefixes
<1>2. NameCode(name) \in {64, 96, 128}
  BY DEF Names, NameCode, Celsius, Kelvin, Fahrenheit
<1>3. Code(<<prefix, name>>) = Pow10(Power(prefix)) + NameCode(name)
  BY <1>1 DEF Code
<1> QED BY <1>1, <1>2, <1>3, CodesApart

\* The number in fifths of 1e-6 a calibrated reading is in each scale.
LEMMA ConvertedIs ==
    ASSUME NEW prefix \in Prefixes, NEW name \in Names, NEW uk \in Int
    PROVE  Converted(uk, Code(<<prefix, name>>)) =
              IF name \in {"F", "Fahrenheit"} THEN 9 * uk - 2298350000
              ELSE IF name \in {"K", "Kelvin"} THEN 5 * uk ELSE 5 * uk - 1365750000
<1>1. UnitsOf(Code(<<prefix, name>>)) = NameCode(name)
  BY CodeIs
<1>2. CASE name \in {"F", "Fahrenheit"}
  <2>1. NameCode(name) = 128
    BY <1>2 DEF NameCode, Fahrenheit
  <2>2. Converted(uk, Code(<<prefix, name>>)) = 9 * (uk - 273150000) + 5 * 32000000
    BY <1>1, <2>1 DEF Converted, Celsius, Kelvin, Fahrenheit
  <2> QED BY <1>2, <2>2
<1>3. CASE name \in {"K", "Kelvin"}
  <2>1. NameCode(name) = 96
    BY <1>3 DEF NameCode, Kelvin
  <2> QED BY <1>1, <1>3, <2>1 DEF Converted, Celsius, Kelvin, Fahrenheit
<1>4. CASE name \in {"C", "Celsius"}
  <2>1. NameCode(name) = 64
    BY <1>4 DEF NameCode, Celsius
  <2>2. Converted(uk, Code(<<prefix, name>>)) = 5 * (uk - 273150000)
    BY <1>1, <2>1 DEF Converted, Celsius, Kelvin, Fahrenheit
  <2> QED BY <1>4, <2>2
<1> QED BY <1>2, <1>3, <1>4 DEF Names

-----------------------------------------------------------------------------
(* Rounding.                                                               *)

\* Rounding to a multiple of g is off by half of g at most.
LEMMA RoundedNear ==
    ASSUME NEW v \in Int, NEW g \in {1, 5, 32, 50, 500, 5000}, NEW x \in Rounded(v, g)
    PROVE  /\ x \in Int
           /\ 2 * (x - v) <= g /\ 2 * (v - x) <= g
           /\ g = 32 => x = 32 * (v \div 32) \/ x = 32 * (v \div 32 + 1)
<1>1. ASSUME NEW k \in {1, 5, 32, 50, 500, 5000}, g = k PROVE
         /\ (v \div k) * k \in Int
         /\ (v \div k) * k <= v /\ v < (v \div k) * k + k
  BY <1>1
<1> DEFINE low == (v \div g) * g
<1>2. low \in Int /\ low <= v /\ v < low + g
  BY <1>1
<1>3. g = 32 => low = 32 * (v \div 32)
  OBVIOUS
<1>4. x \in (IF 2 * (v - low) < g THEN {low}
             ELSE IF 2 * (v - low) > g THEN {low + g} ELSE {low, low + g})
  BY DEF Rounded
<1> HIDE DEF low
<1> QED BY <1>2, <1>3, <1>4

\* Truncating to a multiple of g is off by less than g, or by g at a multiple.
LEMMA TruncatedNear ==
    ASSUME NEW v \in Int, NEW g \in {1, 5, 5000}, NEW n \in Truncated(v, g)
    PROVE  n \in Int /\ n * g - v <= g /\ v - n * g <= g
<1> DEFINE m == Magnitude(v)
           q == m \div g
           least == IF v % g = 0 /\ q > 0 THEN q - 1 ELSE q
<1>1. m \in Int /\ m >= 0 /\ (m = v \/ m = -v) /\ (v < 0 => m = -v) /\ (v >= 0 => m = v)
  BY DEF Magnitude
<1>2. n \in (IF v < 0 THEN {-i : i \in least..q} ELSE least..q)
  BY DEF Truncated
<1>3. ASSUME NEW k \in {1, 5, 5000}, g = k PROVE
         /\ q \in Int /\ q * k <= m /\ m < q * k + k
         /\ v % k = 0 => q * k = m
  <2> HIDE DEF m
  <2>1. CASE k = 1
    BY <1>1, <1>3, <2>1
  <2>2. CASE k = 5
    BY <1>1, <1>3, <2>2
  <2>3. CASE k = 5000
    BY <1>1, <1>3, <2>3
  <2> QED BY <2>1, <2>2, <2>3
<1> HIDE DEF m, q
<1>4. q \in Int /\ q * g <= m /\ m < q * g + g /\ (v % g = 0 => q * g = m)
  BY <1>3
<1>5. \A i \in least..q : i \in Int /\ i * g <= m /\ m <= i * g + g
  <2>1. CASE g = 1
    BY <1>1, <1>4, <2>1
  <2>2. CASE g = 5
    BY <1>1, <1>4, <2>2
  <2>3. CASE g = 5000
    BY <1>1, <1>4, <2>3
  <2> QED BY <2>1, <2>2, <2>3
<1> HIDE DEF least
<1>6. CASE v < 0
  <2>1. PICK i \in least..q : n = -i
    BY <1>2, <1>6
  <2>2. n * g = -(i * g)
    BY <1>5, <2>1
  <2> QED BY <1>1, <1>5, <1>6, <2>1, <2>2
<1>7. CASE v >= 0
  <2>1. n \in least..q
    BY <1>2, <1>7
  <2> QED BY <1>1, <1>5, <1>7, <2>1
<1> QED BY <1>6, <1>7

\* What is printed is off by half of the last of six digits, half a thousandth,
\* or by the thousandth that is truncated.
LEMMA PrintedNear ==
    ASSUME NEW v \in Int, NEW power \in {0, -3, -6, -9}, NEW x \in Printed(v, power)
    PROVE  /\ x \in Int
           /\ power # -3 => x - v <= 2500 /\ v - x <= 2500
           /\ power = -3 => x - v <= 5000 /\ v - x <= 5000
<1>1. CASE power = 0
  <2>1. x \in Rounded(v, LastOfSix(v))
    BY <1>1 DEF Printed
  <2>2. LastOfSix(v) \in {1, 5, 50, 500, 5000}
    BY DEF LastOfSix
  <2>3. LastOfSix(v) <= 5000
    BY <2>2
  <2> QED BY <1>1, <2>1, <2>2, <2>3, RoundedNear
<1>2. ASSUME NEW g \in {1, 5, 5000}, power # 0, Step(power) = g
      PROVE  x \in Int /\ x - v <= g /\ v - x <= g
  <2>1. PICK n \in Truncated(v, g) : x = n * g
    BY <1>2 DEF Printed
  <2> QED BY <2>1, TruncatedNear
<1>3. CASE power = -3
  <2>1. Step(power) = 5000
    BY <1>3 DEF Step
  <2> QED BY <1>2, <1>3, <2>1
<1>4. CASE power = -6
  <2>1. Step(power) = 5
    BY <1>4 DEF Step
  <2> QED BY <1>2, <1>4, <2>1
<1>5. CASE power = -9
  <2>1. Step(power) = 1
    BY <1>5 DEF Step
  <2> QED BY <1>2, <1>5, <2>1
<1> QED BY <1>1, <1>3, <1>4, <1>5

\* What a driver stores, and the whole thousandths below the measurement.
Whole(w) == (w * 1000) \div 256 + 273150

LEMMA StoredNear ==
    ASSUME NEW w \in Int, NEW mk \in Stored(w)
    PROVE  /\ mk \in Int /\ Whole(w) \in Int
           /\ mk = Whole(w) \/ mk = Whole(w) + 1
           /\ 64 * mk - 2 * (273150 * 32 + w * 125) <= 32
           /\ 2 * (273150 * 32 + w * 125) - 64 * mk <= 32
<1> DEFINE v == 273150 * 32 + w * 125
<1>1. v \in Int
  OBVIOUS
<1>2. PICK x \in Rounded(v, 32) : mk = x \div 32
  BY DEF Stored
<1>3. v \div 32 = Whole(w)
  BY DEF Whole
<1> HIDE DEF v
<1>4. x \in Int /\ 2 * (x - v) <= 32 /\ 2 * (v - x) <= 32
      /\ (x = 32 * (v \div 32) \/ x = 32 * (v \div 32 + 1))
  BY <1>1, RoundedNear
<1>5. x = 32 * mk /\ (mk = v \div 32 \/ mk = v \div 32 + 1) /\ v \div 32 \in Int
  BY <1>1, <1>2, <1>4
<1> QED BY <1>1, <1>3, <1>4, <1>5 DEF v

-----------------------------------------------------------------------------
(* The number printed.                                                     *)

\* Calibrations that stretch by no more than three in a hundred, so that the
\* driver's rounding stays near half a thousandth, and move by no more than 100
\* degrees, so that three digits before the point are enough (LastOfSix).
Gentle ==
    \A c \in Calibrations :
        -100000 <= c[1] /\ c[1] <= 100000 /\ 970 <= c[2] /\ c[2] <= 1030

CalibrationType ==
    /\ units \in Units
    /\ calib \in Calibrations

\* What is stored and shown is of the last measurement.
Current ==
    /\ word \in Int
    /\ CalibrationType
    /\ stored \in Stored(word)
    /\ shown \in Shown(stored, units, calib)

\* Current is inductive.
THEOREM AlwaysCurrent == ConvertSpec => []Current
<1>1. ConvertInit => Current
  BY RangeAssumption DEF ConvertInit, Current, CalibrationType
<1>2. Current /\ [ConvertNext]_cvars => Current'
  <2> SUFFICES ASSUME Current, [ConvertNext]_cvars PROVE Current'
    OBVIOUS
  <2>1. CASE UNCHANGED cvars
    BY <2>1 DEF cvars, Current, CalibrationType
  <2>2. CASE ConvertNext
    <3> DEFINE w == word + IF Magnitude(word) <= NearZero THEN 1 ELSE Stride
    <3>1. w \in Int
      BY WalkAssumption DEF Current
    <3>2. Measured(w)
      BY <2>2 DEF ConvertNext
    <3> HIDE DEF w
    <3> QED BY <3>1, <3>2 DEF Measured, Current, CalibrationType
  <2> QED BY <2>1, <2>2
<1> QED BY <1>1, <1>2, PTL DEF ConvertSpec

\* The calibrated reading: of d, what the calibration stretches by, there is one
\* part more where the driver rounded up.
LEMMA CalibratedIs ==
    ASSUME NEW k \in Int, NEW j \in {0, 1}, NEW a \in Int, NEW b \in Int
    PROVE  /\ (b - 1000) * (k + a) \in Int
           /\ Calibrated(k + j, <<a, b>>) =
                1000 * (k + a) + (b - 1000) * (k + a) + j * b
<1>1. CASE j = 0
  BY <1>1 DEF Calibrated
<1>2. CASE j = 1
  BY <1>2 DEF Calibrated
<1> QED BY <1>1, <1>2

\* What the client should see, of the same parts.
LEMMA TrueIs ==
    ASSUME word \in Int, NEW name \in Names,
           NEW a \in Int, NEW b \in Int, calib = <<a, b>>,
           NEW per \in {5, 9}, per = IF name \in {"F", "Fahrenheit"} THEN 9 ELSE 5,
           NEW p \in Int, p = (b - 1000) * (Whole(word) + a)
    PROVE  True(name) = Degrees(per) + a * 1000 * per + p * per
              + (IF name \in {"K", "Kelvin"} THEN 1365750000
                 ELSE IF name \in {"F", "Fahrenheit"} THEN 160000000 ELSE 0)
<1>1. calib[1] = a /\ calib[2] = b
  OBVIOUS
<1>2. (word * 1000) \div 256 + 273150 + calib[1] = Whole(word) + a
  BY <1>1 DEF Whole
<1>3. True(name) = Degrees(per) + a * 1000 * per + (b - 1000) * (Whole(word) + a) * per
              + (IF name \in {"K", "Kelvin"} THEN 273150000 * 5
                 ELSE IF name \in {"F", "Fahrenheit"} THEN 32000000 * 5 ELSE 0)
  BY <1>1, <1>2 DEF True
<1> QED BY <1>3

\* Degrees() is what was measured, rounded down.
LEMMA DegreesNear ==
    ASSUME word \in Int, NEW per \in {5, 9}
    PROVE  /\ Degrees(per) \in Int
           /\ 4 * Degrees(per) <= 15625 * per * word
           /\ 15625 * per * word < 4 * Degrees(per) + 4
<1>1. CASE per = 5
  BY <1>1 DEF Degrees
<1>2. CASE per = 9
  BY <1>2 DEF Degrees
<1> QED BY <1>1, <1>2

\* The number the client sees before it is printed, against what it should be,
\* in 64ths: the driver's rounding, stretched by at most three in a hundred.
LEMMA UnprintedNear ==
    ASSUME Current, Gentle
    PROVE  /\ units[1] \in Prefixes /\ units[2] \in Names
           /\ True(units[2]) \in Int /\ shown \in Int
           /\ \E v \in Int :
                 /\ shown \in Printed(v, Power(units[1]))
                 /\ v - True(units[2]) <= 5000 /\ True(units[2]) - v <= 5000
<1>1. PICK prefix \in Prefixes, name \in Names : units = <<prefix, name>>
  <2>1. units \in Prefixes \X Names
    BY UnitsAssumption DEF Current, CalibrationType
  <2> QED BY <2>1
<1>2. PICK a \in Int, b \in Int : calib = <<a, b>> /\ 970 <= b /\ b <= 1030
  <2>1. calib \in Int \X Int /\ 970 <= calib[2] /\ calib[2] <= 1030
    BY CalibrationsAssumption DEF Current, CalibrationType, Gentle
  <2>2. \E a \in Int, b \in Int : calib = <<a, b>>
    BY <2>1
  <2> QED BY <2>1, <2>2
<1>3. PICK j \in {0, 1} : stored = Whole(word) + j
  <2>1. stored = Whole(word) + 0 \/ stored = Whole(word) + 1
    BY StoredNear DEF Current
  <2> QED BY <2>1
<1> DEFINE k == Whole(word)
           p == (b - 1000) * (k + a)
           per == IF name \in {"F", "Fahrenheit"} THEN 9 ELSE 5
           zero == IF name \in {"K", "Kelvin"} THEN 1365750000
                   ELSE IF name \in {"F", "Fahrenheit"} THEN 160000000 ELSE 0
           uk == Calibrated(stored, calib)
           v == Converted(uk, Code(units))
<1>4. /\ word \in Int /\ k \in Int /\ a \in Int /\ b \in Int /\ p \in Int
      /\ 64 * (k + j) - 2 * (273150 * 32 + word * 125) <= 32
      /\ 2 * (273150 * 32 + word * 125) - 64 * (k + j) <= 32
      /\ 970 <= b /\ b <= 1030
  <2>1. word \in Int /\ k \in Int
    BY StoredNear DEF Current
  <2>2. /\ 64 * stored - 2 * (273150 * 32 + word * 125) <= 32
        /\ 2 * (273150 * 32 + word * 125) - 64 * stored <= 32
    BY <2>1, StoredNear DEF Current
  <2> HIDE DEF k
  <2>3. p \in Int
    BY <2>1
  <2> HIDE DEF p
  <2>4. stored = k + j
    BY <1>3 DEF k
  <2> QED BY <1>2, <2>1, <2>2, <2>3, <2>4
<1>5. uk = 1000 * (k + a) + p + j * b
  <2>1. Calibrated(k + j, <<a, b>>) = 1000 * (k + a) + (b - 1000) * (k + a) + j * b
    <3> HIDE DEF k
    <3>1. k \in Int /\ a \in Int /\ b \in Int /\ j \in {0, 1}
      BY <1>3, <1>4
    <3> QED BY <3>1, CalibratedIs, SMT
  <2> QED BY <1>2, <1>3, <2>1
<1>6. k * 256 <= word * 1000 + 273150 * 256 /\ word * 1000 + 273150 * 256 < k * 256 + 256
  BY <1>4 DEF Whole
<1>7. True(name) = Degrees(per) + a * 1000 * per + p * per + zero
  BY <1>2, <1>4, TrueIs
<1>8. /\ Degrees(per) \in Int
      /\ 4 * Degrees(per) <= 15625 * per * word
      /\ 15625 * per * word < 4 * Degrees(per) + 4
  BY <1>4, DegreesNear
<1>9. uk \in Int
  BY <1>4, <1>5
<1>10. v = (IF name \in {"F", "Fahrenheit"} THEN 9 * uk - 2298350000
            ELSE IF name \in {"K", "Kelvin"} THEN 5 * uk ELSE 5 * uk - 1365750000)
  BY <1>1, <1>9, ConvertedIs
<1>11. v = per * uk + zero - per * 273150000
  <2>1. "F" # "K" /\ "F" # "Kelvin" /\ "Fahrenheit" # "K" /\ "Fahrenheit" # "Kelvin"
    OBVIOUS
  <2>2. CASE name \in {"F", "Fahrenheit"}
    BY <1>9, <1>10, <2>1, <2>2
  <2>3. CASE name \in {"K", "Kelvin"}
    BY <1>9, <1>10, <2>1, <2>3
  <2>4. CASE name \in {"C", "Celsius"}
    BY <1>9, <1>10, <2>1, <2>4
  <2> QED BY <2>2, <2>3, <2>4 DEF Names
<1>12. shown \in Printed(v, Power(prefix)) /\ Power(prefix) \in {0, -3, -6, -9}
  BY <1>1, CodeIs DEF Current, Shown
<1>13. per \in {5, 9} /\ zero \in Int
  OBVIOUS
<1> HIDE DEF k, p, per, zero, uk, v
<1>14. v \in Int /\ True(name) \in Int
  BY <1>4, <1>7, <1>8, <1>9, <1>11, <1>13
<1>15. v - True(name) <= 5000 /\ True(name) - v <= 5000
  <2> DEFINE d == Degrees(per)
             t == True(name)
  <2> HIDE DEF d, t
  <2>1. CASE per = 5
    <3>1. d \in Int /\ 4 * d <= 78125 * word /\ 78125 * word < 4 * d + 4
      BY <1>4, <1>8, <2>1 DEF d
    <3>2. t = d + 5000 * a + 5 * p + zero
      BY <1>4, <1>7, <1>13, <2>1 DEF d, t
    <3>3. v = 5 * uk + zero - 1365750000
      BY <1>9, <1>11, <1>13, <2>1
    <3>4. v - t <= 5000 /\ t - v <= 5000
      <4>1. CASE j = 0
        <5>1. uk = 1000 * k + 1000 * a + p
          BY <1>4, <1>5, <4>1
        <5> QED BY <1>4, <1>13, <3>1, <3>2, <3>3, <4>1, <5>1
      <4>2. CASE j = 1
        <5>1. uk = 1000 * k + 1000 * a + p + b
          BY <1>4, <1>5, <4>2
        <5> QED BY <1>4, <1>13, <3>1, <3>2, <3>3, <4>2, <5>1
      <4> QED BY <4>1, <4>2
    <3> QED BY <3>4 DEF t
  <2>2. CASE per = 9
    <3>1. d \in Int /\ 4 * d <= 140625 * word /\ 140625 * word < 4 * d + 4
      BY <1>4, <1>8, <2>2 DEF d
    <3>2. t = d + 9000 * a + 9 * p + zero
      BY <1>4, <1>7, <1>13, <2>2 DEF d, t
    <3>3. v = 9 * uk + zero - 2458350000
      BY <1>9, <1>11, <1>13, <2>2
    <3>4. v - t <= 5000 /\ t - v <= 5000
      <4>1. CASE j = 0
        <5>1. uk = 1000 * k + 1000 * a + p
          BY <1>4, <1>5, <4>1
        <5> QED BY <1>4, <1>13, <3>1, <3>2, <3>3, <4>1, <5>1
      <4>2. CASE j = 1
        <5>1. uk = 1000 * k + 1000 * a + p + b
          BY <1>4, <1>5, <4>2
        <5> QED BY <1>4, <1>13, <3>1, <3>2, <3>3, <4>2, <5>1
      <4> QED BY <4>1, <4>2
    <3> QED BY <3>4 DEF t
  <2> QED BY <1>13, <2>1, <2>2
<1>16. shown \in Int
  BY <1>12, <1>14, PrintedNear
<1>17. prefix = units[1] /\ name = units[2]
  BY <1>1
<1> QED BY <1>12, <1>14, <1>15, <1>16, <1>17

\* The number printed is what the sensor measured.
LEMMA CurrentIsNear == ASSUME Current, Gentle PROVE ShownNear
<1>1. PICK v \in Int : /\ shown \in Printed(v, Power(units[1]))
                       /\ v - True(units[2]) <= 5000 /\ True(units[2]) - v <= 5000
  BY UnprintedNear
<1>2. units[1] \in Prefixes /\ True(units[2]) \in Int /\ shown \in Int
  BY UnprintedNear
<1>3. Power(units[1]) \in {0, -3, -6, -9} /\ (Power(units[1]) = -3 <=> units[1] = "m")
  <2>1. PICK prefix \in Prefixes : prefix = units[1]
    BY <1>2
  <2>2. "C" \in Names
    BY DEF Names
  <2>3. Power(prefix) \in {0, -3, -6, -9} /\ (Power(prefix) = -3 <=> prefix = "m")
    BY <2>2, CodeIs
  <2> QED BY <2>1, <2>3
<1>4. /\ units[1] # "m" => shown - v <= 2500 /\ v - shown <= 2500
      /\ units[1] = "m" => shown - v <= 5000 /\ v - shown <= 5000
  BY <1>1, <1>2, <1>3, PrintedNear
<1> DEFINE t == True(units[2])
<1> HIDE DEF t
<1>5. /\ shown - t <= (IF units[1] = "m" THEN 10000 ELSE 7500)
      /\ t - shown <= (IF units[1] = "m" THEN 10000 ELSE 7500)
  BY <1>1, <1>2, <1>4 DEF t
<1> QED BY <1>2, <1>5 DEF t, ShownNear, Magnitude

\* usense.c:520-583: for every measurement, every unit and prefix and every gentle
\* calibration the number printed is the temperature, within a thousandth and a
\* half of a degree, within two where thousandths are truncated.
THEOREM ShowsMeasured ==
    ASSUME Gentle
    PROVE  ConvertSpec => []ShownNear
<1>1. Current => ShownNear
  BY CurrentIsNear
<1> QED BY <1>1, AlwaysCurrent, PTL

\* A word further is three thousandths further.
LEMMA StoredApart ==
    ASSUME NEW w \in Int, NEW x \in Int, x > w, NEW m \in Stored(w), NEW n \in Stored(x)
    PROVE  m \in Int /\ n \in Int /\ n - m >= 3
<1>1. /\ m \in Int /\ 2 * (273150 * 32 + w * 125) - 64 * m <= 32
      /\ 64 * m - 2 * (273150 * 32 + w * 125) <= 32
  BY StoredNear
<1>2. /\ n \in Int /\ 2 * (273150 * 32 + x * 125) - 64 * n <= 32
  BY StoredNear
<1> QED BY <1>1, <1>2

\* Three thousandths apart the converted numbers are too far apart for their
\* roundings, or truncations, to meet.
LEMMA ShownApart ==
    ASSUME NEW u \in Prefixes \X Names, NEW c \in Int \X Int, c[2] >= 970,
           NEW m \in Int, NEW n \in Int, n - m >= 3,
           NEW s \in Shown(m, u, c), NEW t \in Shown(n, u, c)
    PROVE  t > s
<1>1. PICK prefix \in Prefixes, name \in Names : u = <<prefix, name>>
  OBVIOUS
<1> DEFINE a == c[1]
           b == c[2]
           p == (m + a) * b
           q == (n + a) * b
           v == Converted(p, Code(u))
           y == Converted(q, Code(u))
<1>2. a \in Int /\ b \in Int /\ b >= 970
  OBVIOUS
<1>3. p \in Int /\ q \in Int /\ q - p >= 2910
  <2> HIDE DEF a, b
  <2>1. q - p = (n - m) * b
    BY <1>2
  <2>2. (n - m) * b >= 3 * b
    BY <1>2
  <2> QED BY <1>2, <2>1, <2>2
<1>4. s \in Printed(v, Power(prefix)) /\ t \in Printed(y, Power(prefix))
  BY <1>1, CodeIs DEF Shown, Calibrated
<1> HIDE DEF p, q
<1>5. v \in Int /\ y \in Int /\ y - v >= 14550
  <2>1. ASSUME NEW uk \in Int PROVE Converted(uk, Code(u)) =
              (IF name \in {"F", "Fahrenheit"} THEN 9 * uk - 2298350000
               ELSE IF name \in {"K", "Kelvin"} THEN 5 * uk ELSE 5 * uk - 1365750000)
    BY <1>1, ConvertedIs
  <2>2. CASE name \in {"F", "Fahrenheit"}
    BY <1>3, <2>1, <2>2
  <2>3. CASE name \notin {"F", "Fahrenheit"} /\ name \in {"K", "Kelvin"}
    BY <1>3, <2>1, <2>3
  <2>4. CASE name \notin {"F", "Fahrenheit"} /\ name \notin {"K", "Kelvin"}
    BY <1>3, <2>1, <2>4
  <2> QED BY <2>2, <2>3, <2>4
<1> HIDE DEF v, y
<1>6. Power(prefix) \in {0, -3, -6, -9}
  BY <1>1, CodeIs
<1>7. s \in Int /\ s - v <= 5000 /\ t \in Int /\ y - t <= 5000
  BY <1>4, <1>5, <1>6, PrintedNear
<1> QED BY <1>5, <1>7

\* usense.c:575-582: for the same, no rounding, truncation or sign merges or swaps
\* two measurements, be they 1/256 degree apart.
THEOREM ShowsWarming ==
    ASSUME Gentle
    PROVE  ConvertSpec => WarmerPrintsHigher
<1>1. ASSUME Current, Current', [ConvertNext]_cvars, word' > word
      PROVE  shown' > shown
  <2>1. UNCHANGED <<units, calib>>
    BY <1>1 DEF ConvertNext, Measured, cvars
  <2>2. stored \in Int /\ stored' \in Int /\ stored' - stored >= 3
    BY <1>1, StoredApart DEF Current
  <2>3. units \in Prefixes \X Names /\ calib \in Int \X Int /\ calib[2] >= 970
    BY <1>1, UnitsAssumption, CalibrationsAssumption DEF Current, CalibrationType, Gentle
  <2>4. shown \in Shown(stored, units, calib) /\ shown' \in Shown(stored', units, calib)
    BY <1>1, <2>1 DEF Current
  <2> QED BY <2>2, <2>3, <2>4, ShownApart
<1>2. Current /\ Current' /\ [ConvertNext]_cvars => [word' > word => shown' > shown]_cvars
  BY <1>1
<1> QED
  BY <1>2, AlwaysCurrent, PTL DEF ConvertSpec, WarmerPrintsHigher
=============================================================================
