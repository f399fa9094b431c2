------------------------------ MODULE MCI2cXfer -----------------------------
(* Small instances of I2cXfer for TLC. *)
EXTENDS I2cXfer

Plain(rd, n) == [addr |-> 79, rd |-> rd, ten |-> FALSE, nostart |-> FALSE, ignNak |-> FALSE,
                   noRdAck |-> FALSE, recvLen |-> FALSE, rev |-> FALSE,
                   len |-> n, buf |-> [k \in 1..n |-> k]]

\* The kinds of message that differ in bit_xfer(): what the drivers send, then
\* one of each flag.
Kinds ==
    {Plain(FALSE, 1), Plain(FALSE, 2), Plain(TRUE, 2), Plain(TRUE, 0)}
    \cup {[Plain(rd, 1) EXCEPT !.ten = TRUE, !.addr = 128] : rd \in BOOLEAN}
    \cup {[Plain(rd, 1) EXCEPT !.nostart = TRUE] : rd \in BOOLEAN}
    \cup {[Plain(rd, 1) EXCEPT !.ignNak = TRUE] : rd \in BOOLEAN}
    \cup {[Plain(rd, 1) EXCEPT !.rev = TRUE] : rd \in BOOLEAN}
    \cup {[Plain(TRUE, 2) EXCEPT !.noRdAck = TRUE]}
    \cup {[Plain(TRUE, n) EXCEPT !.recvLen = TRUE] : n \in 1..2}
    \cup {[Plain(TRUE, 1) EXCEPT !.recvLen = TRUE, !.noRdAck = TRUE]}

\* Every transfer of up to two messages, and of three with a repeated start on
\* either side of a message; a block read comes last, as the SMBus has it.
PairsOfKinds ==
    LET first == {k \in Kinds : ~k.recvLen} IN
    {<<>>} \cup {<<a>> : a \in Kinds}
    \cup {<<a, b>> : a \in first, b \in Kinds}
    \cup {<<Plain(FALSE, 1), a, Plain(TRUE, 2)>> : a \in first}

\* No legal length, the largest legal length, and one more.
Lengths == {0, 32, 33}

=============================================================================
