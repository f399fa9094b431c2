------------------------------ MODULE Convert -------------------------------
(***************************************************************************)
(* How a measurement becomes the number usense_prop_get("reading") prints: *)
(* the driver stores it in Kelvin, rounded by "%g" (gotemp.c:74,           *)
(* TEMPer.c:208, PCsensor_Temper.c:148); convert_reading() of              *)
(* src/src/usense.c reads it back, calibrates it, converts it to the       *)
(* client's units and rounds it again.                                     *)
(*                                                                         *)
(* Numbers are integers in stated units.  A double holds them with an      *)
(* error far below those units, which decides only what is rounded at a    *)
(* tie and what is truncated at an integer: there both outcomes are taken. *)
(***************************************************************************)
EXTENDS Integers

CONSTANTS
    Lowest, Highest,    \* measurements, in 1/256 degree Celsius, from at
                        \* least -173.15 C on, where Kelvin has three digits
    NearZero,           \* measurements within this of 0 are all taken,
    Stride,             \* of the others one in Stride
    Units,              \* of the client: <<prefix, name>>
    Calibrations        \* <<calibrate.add in mK, calibrate.mult in 1/1000>>

ASSUME RangeAssumption ==       \* what the words of the sensors can say
    /\ Lowest \in Int /\ Lowest >= -44326
    /\ Highest \in Int /\ Highest <= 32767
ASSUME WalkAssumption == NearZero \in Nat /\ Stride \in Nat \ {0}
ASSUME CalibrationsAssumption == Calibrations \subseteq Int \X Int

VARIABLES
    word,       \* the last measurement
    units,      \* the property "units"
    calib,      \* the properties "calibrate.add" and "calibrate.mult"
    stored,     \* the property "reading", in mK
    shown       \* what usense_prop_get("reading") gives, with its prefix
                \* applied, in fifths of 1e-6

cvars == <<word, units, calib, stored, shown>>

-----------------------------------------------------------------------------
(* Unit codes.                                                             *)

\* USENSE_UNITS_POW_10(): the low five bits of -16 to 15 in two's complement.
Pow10(p) == p % 32

\* USENSE_UNITS_POW_10_of()
Pow10Of(x) == IF (x % 32) \div 16 = 1 THEN -16 + (x % 16) ELSE x % 16

\* USENSE_UNITS_of()
UnitsOf(x) == (x \div 32) * 32

Celsius    == 2 * 32
Kelvin     == 3 * 32
Fahrenheit == 4 * 32

\* units_is_valid()
PrefixCode(prefix) ==
    CASE prefix = "" -> Pow10(0)  [] prefix = "m" -> Pow10(-3)
      [] prefix = "u" -> Pow10(-6) [] prefix = "n" -> Pow10(-9)
NameCode(name) ==
    CASE name \in {"C", "Celsius"} -> Celsius
      [] name \in {"K", "Kelvin"} -> Kelvin
      [] name \in {"F", "Fahrenheit"} -> Fahrenheit
Code(u) == PrefixCode(u[1]) + NameCode(u[2])

\* What it accepts.
Prefixes == {"", "m", "u", "n"}
Names == {"C", "Celsius", "K", "Kelvin", "F", "Fahrenheit"}

ASSUME UnitsAssumption == Units \subseteq Prefixes \X Names

-----------------------------------------------------------------------------
(* Rounding.                                                               *)

Magnitude(v) == IF v < 0 THEN -v ELSE v

\* v to the next multiple of g, in either direction at a tie.
Rounded(v, g) ==
    LET low == (v \div g) * g
    IN  IF 2 * (v - low) < g THEN {low}
        ELSE IF 2 * (v - low) > g THEN {low + g} ELSE {low, low + g}

\* v / g without its fraction, which an error of the double can take away.
Truncated(v, g) ==
    LET q == Magnitude(v) \div g
        least == IF v % g = 0 /\ q > 0 THEN q - 1 ELSE q
    IN  IF v < 0 THEN {-n : n \in least..q} ELSE least..q

\* The last of the six digits "%g" prints of v, in fifths of 1e-6.  Mutant: "%.5g".
LastOfFive(v) == IF Magnitude(v) >= 500000000 THEN 50000
                 ELSE IF Magnitude(v) >= 50000000 THEN 5000
                 ELSE IF Magnitude(v) >= 5000000 THEN 500 ELSE 50
LastOfSix(v) == IF Magnitude(v) >= 500000000 THEN 5000
                ELSE IF Magnitude(v) >= 50000000 THEN 500
                ELSE IF Magnitude(v) >= 5000000 THEN 50
                ELSE IF Magnitude(v) >= 500000 THEN 5 ELSE 1

-----------------------------------------------------------------------------
(* The conversion.                                                         *)

\* A driver's C_TO_K() and "%g": 1/256 degree to mK, of which three digits are
\* before the point.
Stored(w) == {mk \div 32 : mk \in Rounded(273150 * 32 + w * 125, 32)}

\* (reading + offset_add) * offset_mult, in uK
Calibrated(mk, c) == (mk + c[1]) * c[2]

\* The switch of convert_reading() on a reading in uK, in fifths of 1e-6.
\* Mutant: the offsets are taken in the wrong order.
ConvertedSwapped(uk, code) ==
    CASE UnitsOf(code) = Kelvin -> 5 * uk
      [] UnitsOf(code) = Celsius -> 5 * (uk - 273150000)
      [] UnitsOf(code) = Fahrenheit -> 9 * (uk - 273150000 + 32000000)
Converted(uk, code) ==
    CASE UnitsOf(code) = Kelvin -> 5 * uk
      [] UnitsOf(code) = Celsius -> 5 * (uk - 273150000)
      [] UnitsOf(code) = Fahrenheit -> 9 * (uk - 273150000) + 5 * 32000000

\* One of the units a prefix names, in fifths of 1e-6; 1e-9 is below the grid.
Step(power) == CASE power = -3 -> 5000 [] power = -6 -> 5 [] power = -9 -> 1

\* What convert_reading() prints.
Printed(v, power) ==
    IF power < -1
    THEN {n * Step(power) : n \in Truncated(v, Step(power))}
    ELSE Rounded(v, LastOfSix(v))

Shown(mk, u, c) == Printed(Converted(Calibrated(mk, c), Code(u)), Pow10Of(Code(u)))

-----------------------------------------------------------------------------
(* A sensor that warms up, read after each change.                         *)

Measured(w) ==
    /\ word' = w
    /\ stored' \in Stored(w)
    /\ shown' \in Shown(stored', units, calib)
    /\ UNCHANGED <<units, calib>>

ConvertNext ==
    LET w == word + IF Magnitude(word) <= NearZero THEN 1 ELSE Stride
    IN  w <= Highest /\ Measured(w)

ConvertInit ==
    /\ word = Lowest
    /\ units \in Units /\ calib \in Calibrations
    /\ stored \in Stored(word)
    /\ shown \in Shown(stored, units, calib)

ConvertSpec == ConvertInit /\ [][ConvertNext]_cvars

-----------------------------------------------------------------------------
(* Properties.                                                             *)

\* What was measured, per millions to a degree Celsius: (word \div 32) eighths
\* of a degree and a rest.
Degrees(per) == (word \div 32) * 125000 * per + ((word % 32) * 15625 * per) \div 4

\* The same with calibration, in the client's scale, in fifths of 1e-6.
True(name) ==
    LET per == IF name \in {"F", "Fahrenheit"} THEN 9 ELSE 5
        zero == IF name \in {"K", "Kelvin"} THEN 273150000 * 5
                ELSE IF name \in {"F", "Fahrenheit"} THEN 32000000 * 5 ELSE 0
        kelvins == (word * 1000) \div 256 + 273150 + calib[1]
    IN  Degrees(per) + calib[1] * 1000 * per
        + (calib[2] - 1000) * kelvins * per + zero

\* The number printed is what the sensor measured, calibrated, in the units that
\* were set, whatever the scale and prefix: off by at most a thousandth and a half
\* of a degree for both roundings, two where thousandths are truncated.
\* (usense.c:48-51, 229-271, 552-582)
ShownNear ==
    LET off == shown - True(units[2])
    IN  Magnitude(off) <= IF units[1] = "m" THEN 10000 ELSE 7500

\* No rounding, truncation or sign merges two measurements or swaps them: what
\* is warmer prints a higher number.  (usense.c:575-582)
WarmerPrintsHigher == [][word' > word => shown' > shown]_cvars
=============================================================================
