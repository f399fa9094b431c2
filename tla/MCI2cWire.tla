----------------------------- MODULE MCI2cWire ------------------------------
(* Small instances of I2cWire for TLC. *)
EXTENDS I2cWire

Bytes == 0..255

Msg0(addr, rd, bytes) ==
    [addr |-> addr, rd |-> rd, ten |-> FALSE, nostart |-> FALSE, ignNak |-> FALSE,
     noRdAck |-> FALSE, recvLen |-> FALSE, rev |-> FALSE, len |-> Len(bytes), buf |-> bytes]
Write(bytes) == Msg0(79, FALSE, bytes)
Read(n)      == Msg0(79, TRUE, [k \in 1..n |-> 0])

\* The reading of TEMPer.c, a block read whose length is the first byte of the
\* temperature, addresses nobody answers, and a message without a START.
WireTransfers ==
    {<<Write(<<0>>), Read(2)>>,
     <<[Read(1) EXCEPT !.recvLen = TRUE]>>,
     <<Msg0(72, TRUE, <<0>>)>>,
     <<Write(<<0>>), [Msg0(72, FALSE, <<170>>) EXCEPT !.nostart = TRUE]>>,
     <<[Msg0(335, TRUE, <<0>>) EXCEPT !.ten = TRUE]>>}

\* The assumption of the theorems about the histories and the bytes.
ASSUME OrderlyAssumption == \A ms \in WireTransfers : Orderly(ms)

\* 2.5 degrees, whose first byte is a legal block length, and -0.0625, whose
\* first byte is not.
TwoTemps == {2 * 256 + 128, 65520}
=============================================================================
