----------------------------- MODULE Ch341Baud ------------------------------
(***************************************************************************)
(* The divisor ch341_set_baudrate() of src/src/ch341.c finds for a rate,   *)
(* and the two words it sends.                                             *)
(***************************************************************************)
EXTENDS Integers

BaudbaseFactor == 1532620800    \* CH341_BAUDBASE_FACTOR
DivMax == 3                     \* CH341_BAUDBASE_DIVMAX
MaxFactor == 65520              \* 0xfff0

Fits(f) == f <= MaxFactor

\* 8^k, what k shifts by three bits divide by.
EightTo(k) == <<1, 8, 64, 512>>[k + 1]

\* factor after the loop has shifted it k times.
Factor(rate, k) == (BaudbaseFactor \div rate) \div EightTo(k)

\* The loop stops at the first shift that fits, or when divisor is 0.
Shifts(rate) ==
    CHOOSE k \in 0..DivMax :
        /\ k = DivMax \/ Fits(Factor(rate, k))
        /\ \A j \in 0..(k - 1) : ~Fits(Factor(rate, j))

Accepts(rate) == rate # 0 /\ Fits(Factor(rate, Shifts(rate)))

\* Mutant of Complement: one's complement for two's.
ComplementOnes(rate) == 65535 - Factor(rate, Shifts(rate))
\* The words, a with the divisor in its low byte.
Complement(rate) == 65536 - Factor(rate, Shifts(rate))
WordA(rate) == ((Complement(rate) \div 256) % 256) * 256 + (DivMax - Shifts(rate))
WordB(rate) == Complement(rate) % 256
=============================================================================
