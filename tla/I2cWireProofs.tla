---------------------------- MODULE I2cWireProofs ---------------------------
(***************************************************************************)
(* Proofs about I2cXfer and I2cWire: what holds of a transfer for every set *)
(* of messages, retry count and answer of the bus; that the wire implements *)
(* it whatever the lines and the chip do; and that while nothing disturbs   *)
(* the wire the histories and the bytes of the transfer are what the chip   *)
(* has seen.                                                               *)
(***************************************************************************)
EXTENDS I2cWire, SequenceTheorems, TLAPS

-----------------------------------------------------------------------------
(* Type correctness.                                                       *)

\* What the messages of an array are.
LEMMA MsgFields ==
    ASSUME NEW ms \in Seq(Msg)
    PROVE  /\ Len(ms) \in Nat
           /\ \A k \in 1..Len(ms) :
                 /\ ms[k].rd \in BOOLEAN /\ ms[k].ten \in BOOLEAN
                 /\ ms[k].nostart \in BOOLEAN /\ ms[k].ignNak \in BOOLEAN
                 /\ ms[k].noRdAck \in BOOLEAN /\ ms[k].recvLen \in BOOLEAN
                 /\ ms[k].rev \in BOOLEAN
                 /\ ms[k].len \in Nat
<1>1. Len(ms) \in Nat
  BY LenProperties
<1>2. \A k \in 1..Len(ms) : ms[k] \in Msg
  BY ElementOfSeq
<1> QED
  BY <1>1, <1>2 DEF Msg

\* The part of the type invariant about the control variables, after a step.
ControlOK ==
    /\ pc \in PC
    /\ i \in 1..(Len(msgs) + 1)
    /\ pc \notin {"idle", "stop"} => i <= Len(msgs)
    /\ phase \in {"a7", "x1", "x2", "x3"}
    /\ tries \in 0..Retries
    /\ pc \in {"retry_stop", "retry_start"} => tries < Retries
    /\ count \in Nat
    /\ ret \in Int

\* Going on to a message, or past the last one, keeps the control well typed.
LEMMA EnterMsgType ==
    ASSUME NEW ms \in Seq(Msg), NEW k \in 1..(Len(ms) + 1), EnterMsg(k, ms),
           phase \in {"a7", "x1", "x2", "x3"}, tries \in 0..Retries,
           count \in Nat, ret \in Int, msgs' = ms
    PROVE  ControlOK'
<1>1. Len(ms) \in Nat /\ (k <= Len(ms) => ms[k].len \in Nat)
  BY MsgFields
<1>2. CASE k > Len(ms)
  BY <1>1, <1>2 DEF EnterMsg, EnterData, ControlOK, PC
<1>3. CASE k <= Len(ms)
  BY <1>1, <1>3, RetriesAssumption DEF EnterMsg, EnterData, FirstPhase, ControlOK, PC
<1> QED
  BY <1>1, <1>2, <1>3

\* The same of giving a message's data up, or of being done with it.
LEMMA EndDataType ==
    ASSUME TypeOK, pc \in {"send", "read"}, EndData, UNCHANGED msgs
    PROVE  ControlOK'
<1>1. Len(msgs) \in Nat
  BY MsgFields DEF TypeOK
<1>2. CASE Fail(EREMOTEIO)
  BY <1>2 DEF TypeOK, Fail, EREMOTEIO, ControlOK, PC
<1>3. CASE EnterMsg(i + 1, msgs)
  <2>1. i + 1 \in 1..(Len(msgs) + 1)
    BY <1>1 DEF TypeOK
  <2> QED
    BY <1>3, <2>1, EnterMsgType DEF TypeOK
<1> QED
  BY <1>2, <1>3 DEF EndData

\* The same of the last attempt of an address byte.
LEMMA AddressEndType ==
    ASSUME TypeOK, pc = "addr", NEW r, AddressEnd(r), UNCHANGED msgs
    PROVE  ControlOK' /\ answered' \in [1..Len(msgs) -> BOOLEAN]
<1>1. answered' \in [1..Len(msgs) -> BOOLEAN]
  BY DEF TypeOK, AddressEnd
<1>2. i \in 1..Len(msgs) /\ Len(msgs) \in Nat /\ Cur.len \in Nat
  BY MsgFields DEF TypeOK, Cur
<1>3. ControlOK'
  BY <1>2 DEF TypeOK, AddressEnd, Fail, EnterData, ControlOK, PC, Cur, ENXIO, EREMOTEIO
<1> QED
  BY <1>1, <1>3

LEMMA TypeInit == Init => TypeOK
<1> SUFFICES ASSUME Init PROVE TypeOK
  OBVIOUS
<1>1. \A S : <<>> \in Seq(S) /\ Len(<<>>) = 0
  BY EmptySeq
<1>2. \A S : <<>> \in [1..Len(<<>>) -> S]
  BY <1>1, LenProperties
<1>3. /\ msgs \in Seq(Msg)
      /\ moved \in [1..Len(msgs) -> Nat]
      /\ len \in [1..Len(msgs) -> Nat]
      /\ answered \in [1..Len(msgs) -> BOOLEAN]
  BY <1>1, <1>2, Zenon DEF Init
<1>4. Len(msgs) = 0
  BY <1>1, Zenon DEF Init
<1>5. /\ pc = "idle" /\ i = 1 /\ phase = "a7" /\ tries = 0 /\ count = 0 /\ ret = 0
      /\ bus = "idle" /\ talking = FALSE /\ stuck = FALSE
  BY Zenon DEF Init
<1>6. /\ pc \in PC
      /\ phase \in {"a7", "x1", "x2", "x3"}
      /\ bus \in {"idle", "owned"}
      /\ pc \notin {"retry_stop", "retry_start"}
  BY <1>5 DEF PC
<1>7. i \in 1..(Len(msgs) + 1) /\ tries \in 0..Retries /\ count \in Nat /\ ret \in Int
  BY <1>4, <1>5, RetriesAssumption
<1>8. talking \in BOOLEAN /\ stuck \in BOOLEAN
  BY <1>5
<1> QED
  BY <1>3, <1>5, <1>6, <1>7, <1>8, Zenon DEF TypeOK

\* bit_xfer() is called with any array of messages.
LEMMA XferType ==
    ASSUME TypeOK, NEW ms \in Seq(Msg), Xfer(ms)
    PROVE  TypeOK'
<1>1. Len(ms) \in Nat
  BY MsgFields
<1>2. \A k \in 1..Len(ms) : ms[k].len \in Nat
  BY MsgFields
<1>3. ControlOK'
  BY <1>1, EnterMsgType DEF Xfer, TypeOK
<1> QED
  BY <1>1, <1>2, <1>3 DEF Xfer, TypeOK, ControlOK

\* Every step keeps every variable in its type.
LEMMA TypeNext == TypeOK /\ [Next]_vars => TypeOK'
<1> SUFFICES ASSUME TypeOK, [Next]_vars PROVE TypeOK'
  OBVIOUS
<1>0. /\ Len(msgs) \in Nat
      /\ i \in 1..Len(msgs) => Cur.ignNak \in BOOLEAN /\ Cur.len \in Nat
  BY MsgFields DEF TypeOK, Cur
<1>a. ReadValues \subseteq Nat
  BY ReadValuesAssumption
<1>1. ASSUME NEW ms \in Transfers, Xfer(ms) PROVE TypeOK'
  BY <1>1, TransfersAssumption, XferType
<1>2. CASE RepStart
  BY <1>2, <1>0 DEF RepStart, TypeOK, PC
<1>3. CASE RepStartTen
  <2>1. 0 \in 0..Retries
    BY RetriesAssumption
  <2> QED
    BY <1>3, <2>1 DEF RepStartTen, TypeOK, PC
<1>4. CASE OutAddress
  <2>1. PICK r \in OutbResults :
           /\ stuck' = (stuck \/ r = ETIMEDOUT)
           /\ talking' = (r = 1 /\ ReadAddress)
           /\ \/ /\ r # 1 /\ phase # "x2" /\ MoreTries
                 /\ pc' = "retry_stop"
                 /\ UNCHANGED <<i, phase, tries, count, ret, answered>>
              \/ /\ r = 1 \/ phase = "x2" \/ tries = MaxTries
                 /\ AddressEnd(r)
    BY <1>4 DEF OutAddress, OutAddressBy
  <2>2. pc = "addr" /\ UNCHANGED <<msgs, len, moved, bus>>
    BY <1>4 DEF OutAddress, OutAddressBy
  <2>3. stuck' \in BOOLEAN /\ talking' \in BOOLEAN
    BY <2>1
  <2>4. ControlOK' /\ answered' \in [1..Len(msgs) -> BOOLEAN]
    <3>1. CASE AddressEnd(r)
      BY <2>2, <3>1, AddressEndType
    <3>2. CASE r # 1 /\ phase # "x2" /\ MoreTries /\ pc' = "retry_stop"
               /\ UNCHANGED <<i, phase, tries, count, ret, answered>>
      <4>1. tries < Retries
        BY <3>2, RetriesAssumption DEF MoreTries, MaxTries, TypeOK
      <4> QED
        BY <2>2, <3>2, <4>1 DEF TypeOK, ControlOK, PC
    <3> QED
      BY <2>1, <3>1, <3>2
  <2> QED
    BY <2>2, <2>3, <2>4 DEF TypeOK, ControlOK
<1>5. CASE RetryStop
  BY <1>5 DEF RetryStop, TypeOK, PC
<1>6. CASE RetryStart
  <2>1. tries + 1 \in 0..Retries
    BY <1>6, RetriesAssumption DEF RetryStart, TypeOK
  <2> QED
    BY <1>6, <2>1 DEF RetryStart, NextTry, TypeOK, PC
<1>7. CASE SendByte
  <2>1. PICK r \in OutbResults :
           /\ stuck' = (stuck \/ r = ETIMEDOUT)
           /\ \/ /\ r = 1 \/ (r = 0 /\ Cur.ignNak)
                 /\ count' = count - 1
                 /\ moved' = [moved EXCEPT ![i] = @ + 1]
                 /\ UNCHANGED <<pc, i, phase, tries, ret>>
              \/ Fail(EIO) /\ UNCHANGED moved
              \/ Fail(ETIMEDOUT) /\ UNCHANGED moved
    BY <1>7 DEF SendByte, SendByteBy
  <2>2. pc = "send" /\ count > 0 /\ UNCHANGED <<msgs, len, bus, talking, answered>>
    BY <1>7 DEF SendByte, SendByteBy
  <2>3. stuck' \in BOOLEAN
    BY <2>1
  <2>4. moved' \in [1..Len(msgs) -> Nat]
    <3>1. moved \in [1..Len(msgs) -> Nat] /\ i \in 1..Len(msgs)
      BY <2>2, <1>0 DEF TypeOK
    <3>2. moved' = [moved EXCEPT ![i] = @ + 1] \/ moved' = moved
      BY <2>1
    <3> QED
      BY <3>1, <3>2
  <2>5. ControlOK'
    <3>1. ControlOK /\ msgs' = msgs
      BY <2>2 DEF TypeOK, ControlOK
    <3>2. CASE count' = count - 1 /\ UNCHANGED <<pc, i, phase, tries, ret>>
      BY <2>2, <3>1, <3>2 DEF ControlOK
    <3>3. CASE Fail(EIO) \/ Fail(ETIMEDOUT)
      BY <2>2, <3>1, <3>3 DEF Fail, ControlOK, PC, EIO, ETIMEDOUT
    <3> QED
      BY <2>1, <3>2, <3>3
  <2> QED
    BY <2>2, <2>3, <2>4, <2>5 DEF TypeOK, ControlOK
<1>8. CASE DataDone
  BY <1>8, EndDataType DEF DataDone, TypeOK, ControlOK
<1>9. ASSUME NEW v \in ReadValues, ReadByte(v) PROVE TypeOK'
  <2>0. /\ pc = "read" /\ count > 0
        /\ UNCHANGED <<msgs, i, phase, tries, bus, talking, stuck, answered>>
    BY <1>9 DEF ReadByte
  <2>1. i \in 1..Len(msgs) /\ v \in Nat
    BY <2>0, <1>0, <1>a DEF TypeOK
  <2>2. moved' \in [1..Len(msgs) -> Nat] /\ len' \in [1..Len(msgs) -> Nat]
    <3>1. /\ moved' = [moved EXCEPT ![i] = @ + 1]
          /\ len' = len \/ len' = [len EXCEPT ![i] = @ + v]
      BY <1>9 DEF ReadByte
    <3>2. moved \in [1..Len(msgs) -> Nat] /\ len \in [1..Len(msgs) -> Nat]
      BY DEF TypeOK
    <3>3. moved' \in [1..Len(msgs) -> Nat]
      BY <2>1, <3>1, <3>2
    <3>4. len[i] + v \in Nat
      BY <2>1, <3>2
    <3>5. len' \in [1..Len(msgs) -> Nat]
      BY <3>1, <3>2, <3>4
    <3> QED
      BY <3>3, <3>5
  <2>3. pc' \in {"read", "ack", "bad_length", "stop"} /\ count' \in Nat /\ ret' \in Int
    BY <1>9, <2>1 DEF ReadByte, Acknowledged, TypeOK, EREMOTEIO
  <2> QED
    BY <2>0, <2>1, <2>2, <2>3 DEF TypeOK, PC
<1>10. CASE ReadTimeout
  BY <1>10, EndDataType DEF ReadTimeout, TypeOK, ControlOK
<1>11. CASE Ack
  <2>1. talking' \in BOOLEAN /\ stuck' \in BOOLEAN
    BY <1>11 DEF Ack, AckDone, AckTimeout, TypeOK
  <2>2. ControlOK'
    BY <1>11 DEF Ack, AckDone, AckTimeout, Fail, TypeOK, ControlOK, PC, ETIMEDOUT
  <2> QED
    BY <1>11, <2>1, <2>2 DEF Ack, AckDone, AckTimeout, TypeOK, ControlOK
<1>12. CASE AckBadLength
  BY <1>12 DEF AckBadLength, NakBadLength, NakTimeout, TypeOK, PC
<1>13. CASE Stop
  BY <1>13 DEF Stop, TypeOK, PC
<1>14. CASE UNCHANGED vars
  BY <1>14 DEF vars, TypeOK
<1> QED
  BY <1>1, <1>2, <1>3, <1>4, <1>5, <1>6, <1>7, <1>8, <1>9, <1>10, <1>11,
     <1>12, <1>13, <1>14 DEF Next, Master

\* I2cXfer is type correct: in particular the index of the message in hand and
\* the try counter of try_address() stay in range whatever the chip answers.
THEOREM TypeCorrect == Spec => []TypeOK
BY TypeInit, TypeNext, PTL DEF Spec

-----------------------------------------------------------------------------
(* The inductive invariant.                                                *)

\* Message k was addressed as far as it has to be.
Reached(k) == answered[k] \/ msgs[k].ignNak \/ msgs[k].nostart

\* Nothing of message k is missing.
Settled(k) == moved[k] = len[k] /\ Reached(k)

\* The loop of bit_xfer() has settled the messages before the one in hand and
\* not begun the ones after it, the bytes moved and the bytes left of the one
\* in hand add up, and a return value that is not an error is the whole count.
Tally ==
    /\ pc # "idle" =>
          /\ \A k \in 1..Len(msgs) : k < i => Settled(k)
          /\ \A k \in 1..Len(msgs) : k > i => moved[k] = 0
    /\ pc \in {"rep", "rep10", "addr", "retry_stop", "retry_start"} => moved[i] = 0
    /\ pc \in {"send", "read", "ack"} => moved[i] + count = len[i] /\ Reached(i)
    /\ pc = "bad_length" => ret < 0
    /\ pc = "stop" => ret < 0 \/ (ret = Len(msgs) /\ i = Len(msgs) + 1)
    /\ pc = "idle" => ret < 0 \/ (ret = Len(msgs) /\ \A k \in 1..Len(msgs) : Settled(k))

\* No message is moved beyond its length, which grows once, by a legal length,
\* when the first byte of a block read arrives.
Buffers ==
    \A k \in 1..Len(msgs) :
        /\ moved[k] <= len[k]
        /\ moved[k] = 0 => len[k] = msgs[k].len
        /\ len[k] <= msgs[k].len + (IF msgs[k].recvLen THEN BlockMax ELSE 0)

\* The cases in which a chip may still be waiting to send at a STOP.
Excused ==
    \/ stuck
    \/ \E k \in 1..Len(msgs) :
          /\ k <= i
          /\ msgs[k].rev \/ (msgs[k].rd /\ (msgs[k].len = 0 \/ msgs[k].noRdAck))

\* While bytes are missing a chip may be sending; when none is, it was told to
\* stop or is excused; while an address is sent no chip is sending.
Quiet ==
    /\ pc \in {"addr", "retry_stop", "retry_start", "rep10"} => ~talking
    /\ pc \in {"send", "rep", "stop"} /\ talking => Excused
    /\ pc = "read" /\ count = 0 /\ talking => Excused
    /\ pc \in {"read", "ack", "bad_length"} => msgs[i].rd

IInv == TypeOK /\ BusFramed /\ Tally /\ Buffers /\ Quiet

-----------------------------------------------------------------------------
(* Each part is preserved by each step.                                    *)

\* STARTs and STOPs alternate.
LEMMA BusNext == TypeOK /\ BusFramed /\ [Next]_vars => BusFramed'
<1> SUFFICES ASSUME TypeOK, BusFramed, [Next]_vars PROVE BusFramed'
  OBVIOUS
<1>1. ASSUME NEW ms \in Transfers, Xfer(ms) PROVE BusFramed'
  BY <1>1 DEF Xfer, EnterMsg, EnterData, BusFramed
<1>2. CASE RepStart \/ RepStartTen
  BY <1>2 DEF RepStart, RepStartTen, BusFramed
<1>3. CASE OutAddress
  BY <1>3 DEF OutAddress, OutAddressBy, AddressEnd, Fail, EnterData, BusFramed
<1>4. CASE RetryStop \/ RetryStart
  BY <1>4 DEF RetryStop, RetryStart, BusFramed
<1>5. CASE SendByte
  BY <1>5 DEF SendByte, SendByteBy, Fail, BusFramed
<1>6. CASE DataDone \/ ReadTimeout
  BY <1>6 DEF DataDone, ReadTimeout, EndData, Fail, EnterMsg, EnterData, BusFramed
<1>7. ASSUME NEW v \in ReadValues, ReadByte(v) PROVE BusFramed'
  BY <1>7 DEF ReadByte, Acknowledged, BusFramed
<1>8. CASE Ack \/ AckBadLength
  BY <1>8 DEF Ack, AckDone, AckTimeout, AckBadLength, NakBadLength, NakTimeout, Fail, BusFramed
<1>9. CASE Stop
  BY <1>9 DEF Stop, BusFramed
<1>10. CASE UNCHANGED vars
  BY <1>10 DEF vars, BusFramed
<1> QED
  BY <1>1, <1>2, <1>3, <1>4, <1>5, <1>6, <1>7, <1>8, <1>9, <1>10 DEF Next, Master

\* Going on to message k with the messages before it settled, the others not
\* begun and no chip sending without excuse.
LEMMA EnterMsgInv ==
    ASSUME TypeOK', NEW k \in 1..(Len(msgs') + 1), EnterMsg(k, msgs'),
           \A j \in 1..Len(msgs') : j < k => Settled(j)',
           \A j \in 1..Len(msgs') : j >= k => moved'[j] = 0,
           Buffers',
           talking' => k > 1 /\ Excused'
    PROVE  Tally' /\ Quiet'
<1>1. Len(msgs') \in Nat /\ i' = k
  BY MsgFields DEF TypeOK, EnterMsg
<1>2. CASE k > Len(msgs')
  <2>1. pc' = "stop" /\ ret' = k - 1
    BY <1>1, <1>2 DEF EnterMsg
  <2>2. k = Len(msgs') + 1
    BY <1>1, <1>2
  <2> QED
    BY <1>1, <2>1, <2>2 DEF Tally, Quiet
<1>3. CASE k <= Len(msgs') /\ msgs'[k].nostart
  <2>1. /\ pc' = IF msgs'[k].rd THEN "read" ELSE "send"
        /\ count' = msgs'[k].len
    BY <1>1, <1>3 DEF EnterMsg, EnterData
  <2>2. moved'[k] = 0 /\ len'[k] = msgs'[k].len /\ len'[k] \in Nat
    BY <1>1, <1>3 DEF Buffers, TypeOK
  <2>3. Reached(k)'
    BY <1>3 DEF Reached
  <2>4. Tally'
    BY <1>1, <2>1, <2>2, <2>3 DEF Tally
  <2>5. Quiet'
    BY <1>1, <1>3, <2>1 DEF Quiet
  <2> QED
    BY <2>4, <2>5
<1>4. CASE k <= Len(msgs') /\ ~msgs'[k].nostart
  <2>1. pc' = IF k > 1 THEN "rep" ELSE "addr"
    BY <1>1, <1>4 DEF EnterMsg
  <2>2. moved'[k] = 0
    BY <1>4
  <2>3. Tally'
    BY <1>1, <2>1, <2>2 DEF Tally
  <2> QED
    BY <1>1, <2>1, <2>3 DEF Quiet
<1> QED
  BY <1>1, <1>2, <1>3, <1>4

\* bit_xfer() begins.
LEMMA XferInv ==
    ASSUME TypeOK', NEW ms, Xfer(ms)
    PROVE  (Tally /\ Buffers /\ Quiet)'
<1>1. /\ msgs' = ms /\ EnterMsg(1, ms) /\ talking' = FALSE
      /\ moved' = [k \in 1..Len(ms) |-> 0]
      /\ len' = [k \in 1..Len(ms) |-> ms[k].len]
  BY DEF Xfer
<1>2. /\ Len(msgs') \in Nat
      /\ \A k \in 1..Len(msgs') : msgs'[k].len \in Nat /\ msgs'[k].recvLen \in BOOLEAN
  BY MsgFields DEF TypeOK
<1>3. Buffers'
  BY <1>1, <1>2 DEF Buffers, BlockMax
<1>4. Tally' /\ Quiet'
  BY <1>1, <1>2, <1>3, EnterMsgInv
<1> QED
  BY <1>3, <1>4

\* The bytes of the message in hand are done or given up.
LEMMA EndDataInv ==
    ASSUME IInv, TypeOK', pc \in {"send", "read"}, EndData,
           UNCHANGED <<msgs, len, moved, talking, answered>>,
           \/ count = 0 /\ UNCHANGED stuck
           \/ count > 0 /\ pc = "read" /\ stuck' = TRUE
    PROVE  (Tally /\ Buffers /\ Quiet)'
<1>1. /\ Len(msgs) \in Nat /\ i \in 1..Len(msgs)
      /\ moved[i] \in Nat /\ len[i] \in Nat /\ count \in Nat
      /\ moved[i] + count = len[i] /\ Reached(i)
  BY MsgFields DEF IInv, TypeOK, Tally
<1>2. Buffers'
  BY DEF IInv, Buffers
<1>3. CASE moved[i] < len[i] /\ Fail(EREMOTEIO)
  <2>1. stuck' = TRUE
    BY <1>1, <1>3
  <2>2. pc' = "stop" /\ ret' < 0 /\ i' = i
    BY <1>3 DEF Fail, EREMOTEIO
  <2>3. \A k \in 1..Len(msgs') : Settled(k)' = Settled(k)
    BY DEF Settled, Reached
  <2>4. Tally'
    BY <2>2, <2>3 DEF IInv, Tally
  <2>5. Quiet'
    BY <2>1, <2>2 DEF Quiet, Excused
  <2> QED
    BY <1>2, <2>4, <2>5
<1>4. CASE moved[i] >= len[i] /\ EnterMsg(i + 1, msgs)
  <2>1. count = 0 /\ moved[i] = len[i] /\ UNCHANGED stuck /\ i' = i + 1
    BY <1>1, <1>4 DEF EnterMsg
  <2>2. Settled(i)
    BY <1>1, <2>1 DEF Settled
  <2>3. \A k \in 1..Len(msgs') : k < i + 1 => Settled(k)'
    BY <1>1, <2>2 DEF IInv, Tally, Settled, Reached
  <2>4. \A k \in 1..Len(msgs') : k >= i + 1 => moved'[k] = 0
    BY <1>1 DEF IInv, Tally
  <2>5. talking' => i + 1 > 1 /\ Excused'
    <3>1. talking => Excused
      BY <2>1 DEF IInv, Quiet
    <3> QED
      BY <1>1, <2>1, <3>1 DEF Excused
  <2> QED
    BY <1>1, <1>2, <1>4, <2>3, <2>4, <2>5, EnterMsgInv
<1> QED
  BY <1>3, <1>4 DEF EndData

\* An address byte is answered by r.
LEMMA OutAddressInv ==
    ASSUME IInv, TypeOK', OutAddress
    PROVE  (Tally /\ Buffers /\ Quiet)'
<1>1. PICK r \in OutbResults :
         /\ stuck' = (stuck \/ r = ETIMEDOUT)
         /\ talking' = (r = 1 /\ ReadAddress)
         /\ \/ /\ r # 1 /\ phase # "x2" /\ MoreTries
               /\ pc' = "retry_stop"
               /\ UNCHANGED <<i, phase, tries, count, ret, answered>>
            \/ /\ r = 1 \/ phase = "x2" \/ tries = MaxTries
               /\ AddressEnd(r)
  BY DEF OutAddress, OutAddressBy
<1>2. pc = "addr" /\ UNCHANGED <<msgs, len, moved, bus>>
  BY DEF OutAddress, OutAddressBy
<1>3. /\ Len(msgs) \in Nat /\ i \in 1..Len(msgs)
      /\ moved[i] = 0 /\ len[i] = msgs[i].len /\ msgs[i].len \in Nat
  BY <1>2, MsgFields DEF IInv, TypeOK, Tally, Buffers
<1>4. Buffers'
  BY <1>2 DEF IInv, Buffers
<1>5. ASSUME i' = i, \A k \in 1..Len(msgs) : k # i => answered'[k] = answered[k]
      PROVE  /\ \A k \in 1..Len(msgs') : k < i' => Settled(k)'
             /\ \A k \in 1..Len(msgs') : k > i' => moved'[k] = 0
  BY <1>2, <1>3, <1>5 DEF IInv, Tally, Settled, Reached
<1>6. CASE pc' = "retry_stop" /\ r # 1 /\ UNCHANGED <<i, answered>>
  <2>1. Tally'
    BY <1>2, <1>3, <1>5, <1>6 DEF Tally
  <2>2. Quiet'
    BY <1>1, <1>6 DEF Quiet
  <2> QED
    BY <1>4, <2>1, <2>2
<1>7. CASE AddressEnd(r)
  <2>1. /\ answered' = [answered EXCEPT ![i] = (r = 1 /\ phase # "x1")]
        /\ i' = i
    BY <1>7 DEF AddressEnd, Fail
  <2>2. \A k \in 1..Len(msgs) : k # i => answered'[k] = answered[k]
    BY <2>1 DEF IInv, TypeOK
  <2>3. CASE r # 1 /\ pc' = "stop" /\ ret' < 0
    <3>1. Tally'
      BY <1>5, <2>1, <2>2, <2>3 DEF Tally
    <3> QED
      BY <1>1, <1>4, <2>3, <3>1 DEF Quiet
  <2>4. CASE pc' \in {"addr", "rep10"} /\ phase \in {"x1", "x2"}
    <3>1. Tally'
      BY <1>2, <1>3, <1>5, <2>1, <2>2, <2>4 DEF Tally
    <3>2. ~talking'
      BY <1>1, <2>4 DEF ReadAddress
    <3> QED
      BY <1>4, <2>4, <3>1, <3>2 DEF Quiet
  <2>5. CASE /\ r = 1 \/ msgs[i].ignNak
             /\ phase # "x1"
             /\ EnterData(i, msgs)
    <3>1. pc' = (IF msgs[i].rd THEN "read" ELSE "send") /\ count' = msgs[i].len
      BY <2>5 DEF EnterData
    <3>2. Reached(i)'
      BY <1>2, <1>3, <2>1, <2>5 DEF Reached, IInv, TypeOK
    <3>3. Tally'
      BY <1>2, <1>3, <1>5, <2>1, <2>2, <3>1, <3>2 DEF Tally
    <3>4. talking' => msgs[i].rd \/ msgs[i].rev
      BY <1>1, <1>3, MsgFields DEF ReadAddress, Cur, IInv, TypeOK
    <3>5. Quiet'
      BY <1>2, <1>3, <2>1, <3>1, <3>4 DEF Quiet, Excused
    <3> QED
      BY <1>4, <3>3, <3>5
  <2> QED
    BY <1>7, <2>3, <2>4, <2>5 DEF AddressEnd, Fail, Cur, ENXIO, EREMOTEIO
<1> QED
  BY <1>1, <1>6, <1>7

\* A byte is sent, or refused.
LEMMA SendByteInv ==
    ASSUME IInv, TypeOK', SendByte
    PROVE  (Tally /\ Buffers /\ Quiet)'
<1>1. /\ pc = "send" /\ count > 0
      /\ UNCHANGED <<msgs, len, bus, talking, answered, i>>
      /\ stuck => stuck'
  BY DEF SendByte, SendByteBy, Fail
<1>2. /\ Len(msgs) \in Nat /\ i \in 1..Len(msgs)
      /\ moved[i] \in Nat /\ len[i] \in Nat /\ count \in Nat
      /\ moved[i] + count = len[i] /\ Reached(i)
  <2>1. Len(msgs) \in Nat
    BY MsgFields DEF IInv, TypeOK
  <2>2. /\ i \in 1..Len(msgs)
        /\ moved \in [1..Len(msgs) -> Nat] /\ len \in [1..Len(msgs) -> Nat]
        /\ count \in Nat
    BY <1>1, <2>1 DEF IInv, TypeOK
  <2>3. moved[i] + count = len[i] /\ Reached(i)
    BY <1>1 DEF IInv, Tally
  <2> QED
    BY <2>1, <2>2, <2>3
<1>3. talking' => Excused'
  BY <1>1 DEF IInv, Quiet, Excused
<1>4. CASE count' = count - 1 /\ moved' = [moved EXCEPT ![i] = @ + 1] /\ pc' = pc
  <2>1. /\ moved'[i] = moved[i] + 1
        /\ \A k \in 1..Len(msgs) : k # i => moved'[k] = moved[k]
    BY <1>2, <1>4 DEF IInv, TypeOK
  <2>2. Tally'
    BY <1>1, <1>2, <1>4, <2>1 DEF IInv, Tally, Settled, Reached
  <2>3. Buffers'
    BY <1>1, <1>2, <1>4, <2>1 DEF IInv, Buffers
  <2>4. Quiet'
    BY <1>1, <1>3, <1>4 DEF Quiet
  <2> QED
    BY <2>2, <2>3, <2>4
<1>5. CASE pc' = "stop" /\ ret' < 0 /\ UNCHANGED moved
  <2>1. Tally'
    BY <1>1, <1>5 DEF IInv, Tally, Settled, Reached
  <2>2. Buffers'
    BY <1>1, <1>5 DEF IInv, Buffers
  <2>3. Quiet'
    BY <1>3, <1>5 DEF Quiet
  <2> QED
    BY <2>1, <2>2, <2>3
<1> QED
  BY <1>4, <1>5 DEF SendByte, SendByteBy, Fail, EIO, ETIMEDOUT

\* A byte is received.
LEMMA ReadByteInv ==
    ASSUME IInv, TypeOK', NEW v \in ReadValues, ReadByte(v)
    PROVE  (Tally /\ Buffers /\ Quiet)'
<1>1. /\ pc = "read" /\ count > 0
      /\ moved' = [moved EXCEPT ![i] = @ + 1]
      /\ UNCHANGED <<msgs, i, phase, tries, bus, talking, stuck, answered>>
  BY DEF ReadByte
<1>2. /\ Len(msgs) \in Nat /\ i \in 1..Len(msgs) /\ v \in Nat
      /\ moved[i] \in Nat /\ len[i] \in Nat /\ count \in Nat /\ msgs[i].len \in Nat
      /\ moved[i] + count = len[i] /\ Reached(i) /\ msgs[i].rd
  <2>1. Len(msgs) \in Nat /\ i \in 1..Len(msgs)
    BY <1>1, MsgFields DEF IInv, TypeOK
  <2>2. moved[i] \in Nat /\ len[i] \in Nat /\ count \in Nat /\ msgs[i].len \in Nat
    BY <2>1, MsgFields DEF IInv, TypeOK
  <2>3. v \in Nat
    BY ReadValuesAssumption
  <2>4. moved[i] + count = len[i] /\ Reached(i) /\ msgs[i].rd
    BY <1>1 DEF IInv, Tally, Quiet
  <2> QED
    BY <2>1, <2>2, <2>3, <2>4
<1>3. /\ moved'[i] = moved[i] + 1
      /\ \A k \in 1..Len(msgs) : k # i => moved'[k] = moved[k]
  BY <1>1, <1>2 DEF IInv, TypeOK
<1>4. PICK n \in Nat :
         /\ len' = [len EXCEPT ![i] = @ + n]
         /\ n # 0 => msgs[i].recvLen /\ moved[i] = 0 /\ n <= BlockMax
         /\ \/ /\ count' = count - 1 + n
               /\ pc' = IF msgs[i].noRdAck THEN "read" ELSE "ack"
            \/ /\ n = 0 /\ ret' = EREMOTEIO
               /\ pc' = IF msgs[i].noRdAck THEN "stop" ELSE "bad_length"
  <2>1. CASE /\ msgs[i].recvLen /\ moved[i] = 0 /\ v <= BlockMax
             /\ count' = count - 1 + v /\ len' = [len EXCEPT ![i] = @ + v]
             /\ pc' = IF msgs[i].noRdAck THEN "read" ELSE "ack"
    BY <1>2, <2>1
  <2>2. CASE /\ UNCHANGED len
             /\ \/ count' = count - 1 /\ pc' = IF msgs[i].noRdAck THEN "read" ELSE "ack"
                \/ ret' = EREMOTEIO /\ pc' = IF msgs[i].noRdAck THEN "stop" ELSE "bad_length"
    <3>1. len' = [len EXCEPT ![i] = @ + 0]
      <4>1. len[i] + 0 = len[i]
        BY <1>2
      <4>2. len \in [1..Len(msgs) -> Nat]
        BY DEF IInv, TypeOK
      <4>3. [len EXCEPT ![i] = len[i]] = len
        BY <1>2, <4>2
      <4> QED
        BY <2>2, <4>1, <4>3
    <3>2. count - 1 = count - 1 + 0
      BY <1>2
    <3> QED
      BY <2>2, <3>1, <3>2
  <2> QED
    BY <2>1, <2>2 DEF ReadByte, LegalLength, Acknowledged, Cur
<1>5. /\ len'[i] = len[i] + n
      /\ \A k \in 1..Len(msgs) : k # i => len'[k] = len[k]
  BY <1>2, <1>4 DEF IInv, TypeOK
<1>6. Buffers'
  <2>1. ASSUME NEW k \in 1..Len(msgs), k # i
        PROVE  /\ moved'[k] <= len'[k]
               /\ moved'[k] = 0 => len'[k] = msgs[k].len
               /\ len'[k] <= msgs[k].len + (IF msgs[k].recvLen THEN BlockMax ELSE 0)
    BY <1>3, <1>5, <2>1 DEF IInv, Buffers
  <2>2. moved'[i] <= len'[i] /\ moved'[i] # 0
    BY <1>1, <1>2, <1>3, <1>5
  <2>3. len'[i] <= msgs[i].len + (IF msgs[i].recvLen THEN BlockMax ELSE 0)
    <3>1. len[i] <= msgs[i].len + (IF msgs[i].recvLen THEN BlockMax ELSE 0)
      BY <1>2 DEF IInv, Buffers
    <3>2. moved[i] = 0 => len[i] = msgs[i].len
      BY <1>2 DEF IInv, Buffers
    <3> QED
      BY <1>2, <1>4, <1>5, <3>1, <3>2 DEF BlockMax
  <2> QED
    BY <1>1, <2>1, <2>2, <2>3 DEF Buffers
<1>7. /\ \A k \in 1..Len(msgs') : k < i' => Settled(k)'
      /\ \A k \in 1..Len(msgs') : k > i' => moved'[k] = 0
      /\ Reached(i)'
  <2>1. i' = i /\ msgs' = msgs /\ answered' = answered
    BY <1>1
  <2>2. /\ \A k \in 1..Len(msgs) : k < i => Settled(k)
        /\ \A k \in 1..Len(msgs) : k > i => moved[k] = 0
    BY <1>1 DEF IInv, Tally
  <2>3. \A k \in 1..Len(msgs) : Reached(k)' = Reached(k)
    BY <2>1 DEF Reached
  <2>4. ASSUME NEW k \in 1..Len(msgs), k < i PROVE Settled(k)'
    <3>1. k # i /\ moved[k] = len[k] /\ Reached(k)
      BY <1>2, <2>2, <2>4 DEF Settled
    <3>2. moved'[k] = len'[k]
      BY <1>3, <1>5, <3>1
    <3> QED
      BY <2>3, <3>1, <3>2 DEF Settled
  <2> QED
    BY <1>2, <1>3, <2>1, <2>2, <2>3, <2>4
<1>8. CASE count' = count - 1 + n /\ pc' = IF msgs[i].noRdAck THEN "read" ELSE "ack"
  <2>1. moved'[i] + count' = len'[i]
    BY <1>2, <1>3, <1>5, <1>8
  <2>2. Tally'
    BY <1>1, <1>7, <1>8, <2>1 DEF Tally
  <2>3. Quiet'
    BY <1>1, <1>2, <1>8 DEF Quiet, Excused
  <2> QED
    BY <1>6, <2>2, <2>3
<1>9. CASE ret' = EREMOTEIO /\ pc' = IF msgs[i].noRdAck THEN "stop" ELSE "bad_length"
  <2>1. Tally'
    BY <1>7, <1>9 DEF Tally, EREMOTEIO
  <2>2. Quiet'
    BY <1>1, <1>2, <1>9 DEF Quiet, Excused
  <2> QED
    BY <1>6, <2>1, <2>2
<1> QED
  BY <1>4, <1>8, <1>9

\* A byte, or an illegal length, is acknowledged.
LEMMA AckInv ==
    ASSUME IInv, TypeOK', Ack \/ AckBadLength
    PROVE  (Tally /\ Buffers /\ Quiet)'
<1>1. /\ pc \in {"ack", "bad_length"}
      /\ UNCHANGED <<msgs, len, i, count, moved, answered>>
      /\ Len(msgs) \in Nat /\ i \in 1..Len(msgs)
  BY MsgFields DEF Ack, AckDone, AckTimeout, AckBadLength, NakBadLength, NakTimeout, Fail, IInv, TypeOK
<1>2. Buffers' /\ \A k \in 1..Len(msgs) : Settled(k)' = Settled(k) /\ Reached(k)' = Reached(k)
  BY <1>1 DEF IInv, Buffers, Settled, Reached
<1>3. CASE pc = "ack" /\ pc' = "read" /\ talking' = (talking /\ AckBit)
  <2>1. Tally'
    BY <1>1, <1>2, <1>3 DEF IInv, Tally
  <2>2. ~(talking' /\ count' = 0)
    <3>1. count' = 0 => ~(count > 0)
      BY <1>1
    <3>2. talking' => count > 0
      BY <1>3, Zenon DEF AckBit
    <3> QED
      BY <3>1, <3>2, Zenon
  <2>3. Quiet'
    BY <1>1, <1>3, <2>2 DEF IInv, Quiet
  <2> QED
    BY <1>2, <2>1, <2>3
<1>4. CASE pc' = "stop" /\ ret' < 0 /\ (stuck' \/ ~talking')
  <2>1. Tally'
    BY <1>1, <1>2, <1>4 DEF IInv, Tally
  <2>2. Quiet'
    BY <1>4 DEF Quiet, Excused
  <2> QED
    BY <1>2, <2>1, <2>2
<1>5. pc = "bad_length" => ret < 0
  BY DEF IInv, Tally
<1> QED
  BY <1>3, <1>4, <1>5 DEF Ack, AckDone, AckTimeout, AckBadLength, NakBadLength, NakTimeout, Fail, ETIMEDOUT

\* The conditions on the bus move no byte.
LEMMA ConditionInv ==
    ASSUME IInv, TypeOK', RepStart \/ RepStartTen \/ RetryStop \/ RetryStart \/ Stop
    PROVE  (Tally /\ Buffers /\ Quiet)'
<1>1. /\ UNCHANGED <<msgs, len, i, moved, ret, answered>>
      /\ \/ pc \in {"rep", "rep10", "retry_stop", "retry_start"}
            /\ pc' \in {"addr", "retry_start"} /\ (~talking' \/ UNCHANGED talking)
            /\ (pc = "rep" => ~talking')
         \/ pc = "stop" /\ pc' = "idle"
  BY DEF RepStart, RepStartTen, RetryStop, RetryStart, Stop
<1>2. Buffers' /\ \A k \in 1..Len(msgs) : Settled(k)' = Settled(k)
  BY <1>1 DEF IInv, Buffers, Settled, Reached
<1>3. Len(msgs) \in Nat
  BY MsgFields DEF IInv, TypeOK
<1>4. Tally'
  BY <1>1, <1>2, <1>3 DEF IInv, Tally
<1>5. Quiet'
  BY <1>1 DEF IInv, Quiet
<1> QED
  BY <1>2, <1>4, <1>5

-----------------------------------------------------------------------------
(* The theorems.                                                           *)

LEMMA IInvInit == Init => IInv
<1> SUFFICES ASSUME Init PROVE IInv
  OBVIOUS
<1>1. TypeOK
  BY TypeInit
<1>2. Len(msgs) = 0
  <2>1. Len(<<>>) = 0
    BY EmptySeq
  <2> QED
    BY <2>1, Zenon DEF Init
<1>3. pc = "idle" /\ ret = 0 /\ bus = "idle"
  BY Zenon DEF Init
<1> QED
  BY <1>1, <1>2, <1>3 DEF IInv, BusFramed, Tally, Buffers, Quiet

LEMMA IInvNext == IInv /\ [Next]_vars => IInv'
<1> SUFFICES ASSUME IInv, [Next]_vars PROVE IInv'
  OBVIOUS
<1>1. TypeOK' /\ BusFramed'
  BY TypeNext, BusNext DEF IInv
<1>2. ASSUME NEW ms \in Transfers, Xfer(ms) PROVE (Tally /\ Buffers /\ Quiet)'
  BY <1>1, <1>2, XferInv
<1>3. CASE RepStart \/ RepStartTen \/ RetryStop \/ RetryStart \/ Stop
  BY <1>1, <1>3, ConditionInv DEF IInv
<1>4. CASE OutAddress
  BY <1>1, <1>4, OutAddressInv DEF IInv
<1>5. CASE SendByte
  BY <1>1, <1>5, SendByteInv DEF IInv
<1>6. CASE DataDone \/ ReadTimeout
  <2>1. /\ pc \in {"send", "read"} /\ EndData
        /\ UNCHANGED <<msgs, len, moved, talking, answered>>
        /\ \/ count = 0 /\ UNCHANGED stuck
           \/ count > 0 /\ pc = "read" /\ stuck' = TRUE
    BY <1>6 DEF DataDone, ReadTimeout
  <2> QED
    BY <1>1, <2>1, EndDataInv DEF IInv
<1>7. ASSUME NEW v \in ReadValues, ReadByte(v) PROVE (Tally /\ Buffers /\ Quiet)'
  BY <1>1, <1>7, ReadByteInv
<1>8. CASE Ack \/ AckBadLength
  BY <1>1, <1>8, AckInv DEF IInv
<1>9. CASE UNCHANGED vars
  BY <1>1, <1>9 DEF vars, IInv, Tally, Buffers, Quiet, Excused, Settled, Reached
<1> QED
  BY <1>1, <1>2, <1>3, <1>4, <1>5, <1>6, <1>7, <1>8, <1>9 DEF Next, Master, IInv

\* A transfer of any messages may begin.
LEMMA XferIInv ==
    ASSUME IInv, NEW ms \in Seq(Msg), Xfer(ms)
    PROVE  IInv'
<1>1. TypeOK'
  BY XferType DEF IInv
<1>2. BusFramed'
  BY DEF Xfer, EnterMsg, EnterData, BusFramed
<1> QED
  BY <1>1, <1>2, XferInv DEF IInv

LEMMA Invariant == Spec => []IInv
BY IInvInit, IInvNext, PTL DEF Spec

\* bit_xfer() brackets everything it does by one START and one STOP per
\* attempt, and returns with the bus free, for any number of retries.
THEOREM Framing == Spec => []BusFramed
<1>1. IInv => BusFramed
  BY DEF IInv
<1> QED
  BY <1>1, Invariant, PTL

\* The last byte a chip sends is NAKed before every STOP and repeated START,
\* except where I2C_M_NO_RD_ACK, a read of no bytes or a stuck clock prevent
\* it, for messages of any number, kind and length.
THEOREM ReadsAreEnded == Spec => []ReadEndsWithNak
<1>1. IInv => ReadEndsWithNak
  BY DEF IInv, Quiet, Excused, ReadEndsWithNak
<1> QED
  BY <1>1, Invariant, PTL

\* A return value that is not negative is the number of messages, every one of
\* which was answered and moved completely.
THEOREM ResultsAreHonest == Spec => []ResultHonest
<1>1. IInv => ResultHonest
  BY DEF IInv, Tally, Settled, Reached, ResultHonest
<1> QED
  BY <1>1, Invariant, PTL

\* No chip can make bit_xfer() write beyond the buffer of a block read.
THEOREM BuffersAreBounded == Spec => []BufferBound
<1>1. IInv => BufferBound
  <2> SUFFICES ASSUME IInv, NEW k \in 1..Len(msgs)
               PROVE  moved[k] <= msgs[k].len + (IF msgs[k].recvLen THEN BlockMax ELSE 0)
    BY DEF BufferBound
  <2>1. moved[k] \in Nat /\ len[k] \in Nat /\ msgs[k].len \in Nat
    BY MsgFields DEF IInv, TypeOK
  <2> QED
    BY <2>1 DEF IInv, Buffers, BlockMax
<1> QED
  BY <1>1, Invariant, PTL

-----------------------------------------------------------------------------
(* What a call has left to do.                                             *)

Ops == {"sda0", "sda1", "scl0", "scl1", "wait", "wait_or_fail", "get"}

\* SCL rises and, where it can be read, w waits until it has risen; then z.
WaitThen(w, z)  == IF CanTimeout THEN <<w>> \o z ELSE z
PulseOps(w, z)  == <<"scl1">> \o WaitThen(w, z)

\* Rest(op, z)[n + 1] is what EightTimes(op) and then z leave to do at bit n.
Rest(op, z) ==
    LET r7 == op[7] \o z
        r6 == op[6] \o r7
        r5 == op[5] \o r6
        r4 == op[4] \o r5
        r3 == op[3] \o r4
        r2 == op[2] \o r3
        r1 == op[1] \o r2
    IN  <<op[0] \o r1, r1, r2, r3, r4, r5, r6, r7, z>>

SendBits(c) == [n \in 0..7 |-> SendBit(BitOf(c, n))]
ReadBits    == [n \in 0..7 |-> ReadBit]

AckOps     == <<"sda1">> \o ReadBit
OutRest(c) == Rest(SendBits(c), AckOps)
InRest     == Rest(ReadBits, <<>>)

SclThen(z) == <<"scl0">> \o z           \* SCL falls and z follows
GetThen(z) == <<"get">> \o SclThen(z)   \* SDA is read first

-----------------------------------------------------------------------------
(* The bits read, whatever the lines and the chip do.                      *)

\* The calls that send and that read a byte.
Outs == pc = "addr" \/ (pc = "send" /\ count > 0)
Ins  == pc = "read" /\ count > 0

NoGet(s) == \A k \in 1..Len(s) : s[k] # "get"

\* What a pulse of SCL around z may have left.
PulseLeft(w, z) == {PulseOps(w, z), <<w>> \o z, z}

\* i2c_outb() reads one bit, after eight it sends.
OutLeft(c) ==
    \/ rx \in 0..1 /\ NoGet(todo)
    \/ /\ rx = 0
       /\ \/ \E n \in 0..7 :
                \/ todo = OutRest(c)[n + 1]
                \/ todo \in PulseLeft("wait_or_fail", SclThen(OutRest(c)[n + 2]))
          \/ todo = AckOps
          \/ todo \in PulseLeft("wait_or_fail", GetThen(<<>>))

\* i2c_inb() reads eight: after n of them rx has n bits.
InLeft ==
    \/ rx = 0 /\ todo = InbOps
    \/ \E n \in 0..7 :
          /\ rx \in 0..(2^n - 1)
          /\ todo \in PulseLeft("wait_or_fail", GetThen(InRest[n + 2]))
    \/ \E n \in 1..8 :
          /\ rx \in 0..(2^n - 1)
          /\ todo \in {SclThen(InRest[n + 1]), InRest[n + 1]}

\* Every bit a call has read and has left to read is in rx and todo; it gives
\* up only where SCL can be read, and then has nothing left to do.
BitsLeft ==
    /\ err \in BOOLEAN /\ hold \in BOOLEAN
    /\ hold => CanTimeout
    /\ err => CanTimeout /\ todo = <<>>
    /\ todo \in Seq(Ops)
    /\ rx \in 0..255
    /\ \/ err
       \/ rx = 0 /\ todo \in {StartOps \o CallOps, SclThen(CallOps)}
       \/ Outs /\ OutLeft(OutByte)
       \/ Ins /\ InLeft
       \/ ~Outs /\ ~Ins /\ rx = 0 /\ NoGet(todo)
-----------------------------------------------------------------------------
(* The wire between two calls and inside each, while nothing disturbs it.  *)

\* SCL is low and the chip has acted on its fall; it has been let go while the
\* chip may hold it; it is high and the chip has acted on that.
Down(cell, d)   == pins = [sda |-> d, scl |-> 0] /\ chip = cell
Rising(cell, d) == /\ pins = [sda |-> d, scl |-> 1]
                   /\ chip = IF hold THEN cell ELSE Raised(cell, SdaOf(d, cell))
Up(cell, d)     == ~hold /\ Rising(cell, d)

\* The bus is free; it was taken and SCL is still high.
Free  == pins = High /\ ~hold /\ chip.mode = "off" /\ ~chip.busy
Begun == /\ pins = [sda |-> 0, scl |-> 1] /\ ~hold
         /\ chip.mode = "addr" /\ chip.n = -1 /\ chip.byte = 0 /\ chip.busy

\* A chip that pulls SDA at no time.
Silent(ch) == ch.busy /\ ch.mode # "send" /\ (ch.mode = "off" \/ ch.n # 8)

\* The modes of a chip that is listening now: an address follows a START, and the
\* second byte of a ten bit address is for no chip of this kind.
Listener(ch) ==
    IF pc = "addr" THEN ch.mode = "addr" /\ phase # "x2" ELSE ch.mode \in {"ptr", "data"}
Deaf(ch, c) ==
    ch.mode = "off" /\ (pc = "addr" => phase = "x2" \/ c \notin {WriteAddress, ReadingAddress})

\* n bits were sent, and the chip has shifted them into byte; it has all of c.
Listens(ch, n, byte) ==
    /\ ch.busy
    /\ \/ Listener(ch) /\ ch.n = n /\ ch.byte = byte
       \/ ch.mode = "off" /\ (pc = "addr" => phase = "x2")
Answers(ch, c) ==
    /\ ch.busy
    /\ \/ /\ Listener(ch) /\ ch.n = 8 /\ ch.byte = c
          /\ pc = "addr" => c \in {WriteAddress, ReadingAddress}
       \/ Deaf(ch, c)

\* The acknowledge was read as rx, and the chip goes on to the next byte.
Answered(ch, c) ==
    /\ ch.busy
    /\ \/ /\ rx = 0 /\ ch.n = 0
          /\ IF pc = "addr"
             THEN /\ c \in {WriteAddress, ReadingAddress} /\ phase # "x2"
                  /\ ch.mode = IF c = WriteAddress THEN "ptr" ELSE "send"
             ELSE ch.mode = "data"
          /\ ch.mode # "send" => ch.byte = 0
       \/ rx = 1 /\ Deaf(ch, c)

\* A chip that was told to send is at bit n, any other is off.
Sends(ch, n) ==
    ch.busy /\ IF talking THEN ch.mode = "send" /\ ch.n = n ELSE ch.mode = "off"

\* The chip where the call that comes next begins.
Ready(ch) ==
    \/ pc \in {"rep", "rep10", "stop", "retry_stop"} /\ Silent(ch)
    \/ pc \in {"addr", "send"} /\ Listens(ch, 0, 0)
    \/ pc = "read" /\ Sends(ch, 0)
    \/ pc \in {"ack", "bad_length"} /\ Sends(ch, 8)

\* SCL rises and the rest z of the call is still to do.
Pulse(cell, d, w, z) ==
    \/ todo = PulseOps(w, z) /\ Down(cell, d)
    \/ CanTimeout /\ todo = <<w>> \o z /\ Rising(cell, d)
    \/ todo = z /\ Up(cell, d)

AtStart ==
    /\ pc \in {"addr", "stop"} /\ rx = 0
    /\ pc = "addr" => phase # "x2"
    /\ \/ todo = StartOps \o CallOps /\ Free
       \/ todo = SclThen(CallOps) /\ Begun

AtRetryStart ==
    \/ todo = StartOps /\ Free
    \/ todo = SclThen(<<>>) /\ Begun
    \/ /\ todo = <<>>
       /\ \E cell \in Chip, d \in Level :
             /\ Down(cell, d) /\ cell.busy
             /\ cell.mode = "addr" /\ cell.n = 0 /\ cell.byte = 0

AtRep ==
    \/ \E cell \in Chip, d \in Level : Silent(cell) /\ Down(cell, d) /\ todo = RepStartOps
    \/ \E cell \in Chip : Silent(cell) /\ Pulse(cell, 1, "wait", <<"sda0">> \o SclThen(<<>>))
    \/ todo = SclThen(<<>>) /\ Begun
    \/ /\ todo = <<>>
       /\ \E cell \in Chip, d \in Level :
             /\ Down(cell, d) /\ cell.busy
             /\ cell.mode = "addr" /\ cell.n = 0 /\ cell.byte = 0

AtStop ==
    \/ \E cell \in Chip, d \in Level : Silent(cell) /\ Down(cell, d) /\ todo = StopOps
    \/ \E cell \in Chip : Silent(cell) /\ Pulse(cell, 0, "wait", <<"sda1">>)
    \/ todo = <<>> /\ Free

AtOutBit(c, n) ==
    \E cell \in Chip :
        /\ Listens(cell, n, c \div 2^(8 - n))
        /\ \/ todo = OutRest(c)[n + 1] /\ \E d \in Level : Down(cell, d)
           \/ Pulse(cell, BitOf(c, n), "wait_or_fail", SclThen(OutRest(c)[n + 2]))

AtOutAck(c) ==
    \E cell \in Chip :
        /\ Answers(cell, c)
        /\ \/ rx = 0 /\ todo = AckOps /\ \E d \in Level : Down(cell, d)
           \/ rx = 0 /\ Pulse(cell, 1, "wait_or_fail", GetThen(<<>>))
           \/ rx = SdaOf(1, cell) /\ todo = SclThen(<<>>) /\ Up(cell, 1)

AtOut(c) ==
    \/ rx = 0 /\ \E n \in 0..7 : AtOutBit(c, n)
    \/ AtOutAck(c)
    \/ todo = <<>> /\ \E cell \in Chip : Answered(cell, c) /\ Down(cell, 1)

\* The first n bits of what the chip sends are in rx.
Prefix(ch, n) == talking => rx = ch.byte \div 2^(8 - n)

AtIn ==
    \/ /\ rx = 0 /\ todo = InbOps
       /\ \E cell \in Chip, d \in Level : Sends(cell, 0) /\ Down(cell, d)
    \/ \E n \in 0..7, cell \in Chip :
          /\ Sends(cell, n)
          /\ \/ Prefix(cell, n) /\ Pulse(cell, 1, "wait_or_fail", GetThen(InRest[n + 2]))
             \/ Prefix(cell, n + 1) /\ todo = SclThen(InRest[n + 2]) /\ Up(cell, 1)
    \/ /\ todo = <<>>
       /\ \E cell \in Chip : Sends(cell, 8) /\ Prefix(cell, 8) /\ Down(cell, 1)

\* The level an acknowledge is sent with.
AckLevel == IF pc = "ack" /\ AckBit THEN 0 ELSE 1

AtAck ==
    \/ \E cell \in Chip :
          /\ Sends(cell, 8)
          /\ \/ AckLevel = 0 /\ Down(cell, 1) /\ todo = <<"sda0">> \o PulseOps("wait_or_fail", SclThen(<<>>))
             \/ Pulse(cell, AckLevel, "wait_or_fail", SclThen(<<>>))
    \/ /\ todo = <<>>
       /\ \E cell \in Chip, d \in Level :
             /\ Down(cell, d) /\ cell.busy
             /\ IF talking /\ AckLevel = 0 THEN cell.mode = "send" /\ cell.n = 0
                ELSE cell.mode = "off"

AtRest ==
    /\ todo = <<>>
    /\ IF pc = "idle" THEN Free /\ ~talking
       ELSE \E cell \in Chip, d \in Level : Ready(cell) /\ Down(cell, d)

\* No call is under way: the transfer has ended or has moved a message's bytes.
Rests == pc = "idle" \/ (pc \in {"send", "read"} /\ count = 0)

Place ==
    \/ pc \in {"rep", "rep10"} /\ AtRep
    \/ pc \in {"stop", "retry_stop"} /\ AtStop
    \/ pc = "retry_start" /\ AtRetryStart
    \/ Outs /\ AtOut(OutByte)
    \/ Ins /\ AtIn
    \/ pc \in {"ack", "bad_length"} /\ AtAck
    \/ Rests /\ AtRest

\* The wire where the call that comes next begins.
Begins ==
    \/ pc = "idle" /\ Free /\ ~talking
    \/ pc = "retry_start" /\ Free
    \/ \E cell \in Chip, d \in Level :
          /\ Ready(cell) /\ Down(cell, d)
          /\ pc \in {"ack", "bad_length"} => d = 1

\* The adapter drives what the program set, and no clock that is held can time
\* out unless the bounds let it.
Steady ==
    /\ err = FALSE
    /\ control = pins
    /\ hold => CanTimeout /\ held < MaxHeld

InStep == Steady /\ ~stuck /\ (AtStart \/ Place)

-----------------------------------------------------------------------------
(* The line operations of each call.                                       *)

\* The first of a sequence and the others.
LEMMA Cons ==
    ASSUME NEW x \in Ops, NEW z \in Seq(Ops)
    PROVE  /\ <<x>> \o z \in Seq(Ops)
           /\ <<x>> \o z # <<>>
           /\ Head(<<x>> \o z) = x
           /\ Tail(<<x>> \o z) = z
           /\ Len(<<x>> \o z) = Len(z) + 1
<1>1. <<x>> \in Seq(Ops) /\ Len(<<x>>) = 1 /\ <<x>>[1] = x
  OBVIOUS
<1>2. /\ <<x>> \o z \in Seq(Ops)
      /\ Len(<<x>> \o z) = Len(z) + 1
      /\ \A k \in 1..(Len(z) + 1) : (<<x>> \o z)[k] = IF k <= 1 THEN x ELSE z[k - 1]
  BY <1>1, ConcatProperties
<1>3. Len(z) \in Nat
  BY LenProperties
<1>4. <<x>> \o z # <<>>
  BY <1>2, <1>3, EmptySeq
<1>5. Head(<<x>> \o z) = x
  BY <1>2, <1>3
<1>6. Tail(<<x>> \o z) = z
  <2>1. /\ Tail(<<x>> \o z) \in Seq(Ops)
        /\ Len(Tail(<<x>> \o z)) = Len(z)
        /\ \A k \in 1..Len(z) : Tail(<<x>> \o z)[k] = (<<x>> \o z)[k + 1]
    BY <1>2, <1>3, <1>4, HeadTailProperties
  <2>2. \A k \in 1..Len(z) : Tail(<<x>> \o z)[k] = z[k]
    BY <1>2, <1>3, <2>1
  <2> QED
    BY <2>1, <2>2, SeqEqual
<1> QED
  BY <1>2, <1>4, <1>5, <1>6

\* A sequence of two is its first and then its second.
LEMMA Pair ==
    ASSUME NEW x \in Ops, NEW y \in Ops
    PROVE  <<x, y>> = <<x>> \o <<y>> /\ <<x, y>> \in Seq(Ops)
<1>1. /\ <<x, y>> \in Seq(Ops) /\ Len(<<x, y>>) = 2
      /\ <<x, y>>[1] = x /\ <<x, y>>[2] = y
  OBVIOUS
<1>2. /\ <<x>> \in Seq(Ops) /\ Len(<<x>>) = 1 /\ <<x>>[1] = x
      /\ <<y>> \in Seq(Ops) /\ Len(<<y>>) = 1 /\ <<y>>[1] = y
  OBVIOUS
<1>3. /\ <<x>> \o <<y>> \in Seq(Ops) /\ Len(<<x>> \o <<y>>) = 2
      /\ \A k \in 1..2 : (<<x>> \o <<y>>)[k] = IF k <= 1 THEN <<x>>[k] ELSE <<y>>[k - 1]
  BY <1>2, ConcatProperties
<1>4. \A k \in 1..2 : (<<x>> \o <<y>>)[k] = <<x, y>>[k]
  BY <1>1, <1>2, <1>3
<1> QED
  BY <1>1, <1>3, <1>4, SeqEqual

LEMMA Single ==
    ASSUME NEW x \in Ops
    PROVE  <<x>> = <<x>> \o <<>> /\ <<x>> \in Seq(Ops) /\ <<>> \in Seq(Ops)
OBVIOUS

\* What follows a sequence can be taken to follow its parts.
LEMMA Regroup ==
    ASSUME NEW a \in Seq(Ops), NEW b \in Seq(Ops), NEW z \in Seq(Ops)
    PROVE  (a \o b) \o z = a \o (b \o z) /\ a \o b \in Seq(Ops) /\ a \o z \in Seq(Ops)
BY ConcatAssociative, ConcatProperties

\* sclhi() and what follows it.
LEMMA Pulses ==
    ASSUME NEW w \in {"wait", "wait_or_fail"}, NEW z \in Seq(Ops)
    PROVE  /\ WaitThen(w, z) \in Seq(Ops) /\ PulseOps(w, z) \in Seq(Ops)
           /\ SclHi \in Seq(Ops) /\ SclHi \o z = PulseOps("wait_or_fail", z)
           /\ SclHiUnseen \in Seq(Ops) /\ SclHiUnseen \o z = PulseOps("wait", z)
<1>1. {"scl1", "wait", "wait_or_fail"} \subseteq Ops /\ w \in Ops
  BY DEF Ops
<1>2. WaitThen(w, z) \in Seq(Ops)
  BY <1>1, Cons DEF WaitThen
<1>3. ASSUME NEW v \in {"wait", "wait_or_fail"}
      PROVE  LET s == IF CanTimeout THEN <<v>> ELSE <<>>
             IN  s \in Seq(Ops) /\ s \o z = WaitThen(v, z)
  BY <1>1, ConcatEmptySeq DEF WaitThen
<1>4. <<"scl1">> \in Seq(Ops)
  BY <1>1
<1>5. ASSUME NEW v \in {"wait", "wait_or_fail"}
      PROVE  LET s == <<"scl1">> \o (IF CanTimeout THEN <<v>> ELSE <<>>)
             IN  s \in Seq(Ops) /\ s \o z = PulseOps(v, z)
  <2> DEFINE s == IF CanTimeout THEN <<v>> ELSE <<>>
  <2>1. s \in Seq(Ops) /\ s \o z = WaitThen(v, z)
    BY <1>3
  <2> HIDE DEF s
  <2>2. (<<"scl1">> \o s) \o z = <<"scl1">> \o (s \o z) /\ <<"scl1">> \o s \in Seq(Ops)
    BY <1>4, <2>1, Regroup
  <2> QED
    BY <2>1, <2>2 DEF PulseOps, s
<1>6. PulseOps(w, z) \in Seq(Ops)
  BY <1>1, <1>2, Cons DEF PulseOps
<1> QED
  BY <1>2, <1>5, <1>6 DEF SclHi, SclHiUnseen

LEMMA ThenOps ==
    ASSUME NEW z \in Seq(Ops)
    PROVE  SclThen(z) \in Seq(Ops) /\ GetThen(z) \in Seq(Ops)
<1>1. {"scl0", "get"} \subseteq Ops
  BY DEF Ops
<1> QED
  BY <1>1, Cons DEF SclThen, GetThen

\* The shorter calls, written one operation before the others.
LEMMA ShortCalls ==
    /\ <<>> \in Seq(Ops) /\ <<"sda1">> \in Seq(Ops)
    /\ StartOps = <<"sda0">> \o SclThen(<<>>) /\ StartOps \in Seq(Ops)
    /\ RepStartOps = <<"sda1">> \o PulseOps("wait", <<"sda0">> \o SclThen(<<>>))
    /\ RepStartOps \in Seq(Ops)
    /\ StopOps = <<"sda0">> \o PulseOps("wait", <<"sda1">>)
    /\ StopOps \in Seq(Ops)
    /\ ReadBit = PulseOps("wait_or_fail", GetThen(<<>>)) /\ ReadBit \in Seq(Ops)
    /\ \A z \in Seq(Ops) : ReadBit \o z = PulseOps("wait_or_fail", GetThen(z))
    /\ AckOps = <<"sda1">> \o ReadBit /\ AckOps \in Seq(Ops)
<1>1. {"sda0", "sda1", "scl0", "scl1", "get"} \subseteq Ops
  BY DEF Ops
<1>2. /\ <<>> \in Seq(Ops) /\ <<"sda1">> \in Seq(Ops) /\ <<"sda0">> \in Seq(Ops)
      /\ SclThen(<<>>) = <<"scl0">> /\ SclThen(<<>>) \in Seq(Ops)
  BY <1>1, Single DEF SclThen
<1>3. StartOps = <<"sda0">> \o SclThen(<<>>) /\ StartOps \in Seq(Ops)
  BY <1>1, <1>2, Pair DEF StartOps
<1>4. SclHiUnseen \in Seq(Ops)
  BY <1>2, Pulses
<1>5. RepStartOps = <<"sda1">> \o PulseOps("wait", <<"sda0">> \o SclThen(<<>>)) /\ RepStartOps \in Seq(Ops)
  <2>1. <<"sda0", "scl0">> = <<"sda0">> \o SclThen(<<>>) /\ <<"sda0", "scl0">> \in Seq(Ops)
    BY <1>3 DEF StartOps
  <2>2. (<<"sda1">> \o SclHiUnseen) \o <<"sda0", "scl0">> = <<"sda1">> \o (SclHiUnseen \o <<"sda0", "scl0">>)
    BY <1>2, <1>4, <2>1, Regroup
  <2>3. SclHiUnseen \o <<"sda0", "scl0">> = PulseOps("wait", <<"sda0", "scl0">>) /\ PulseOps("wait", <<"sda0", "scl0">>) \in Seq(Ops)
    BY <2>1, Pulses
  <2>4. RepStartOps = <<"sda1">> \o PulseOps("wait", <<"sda0", "scl0">>)
    BY <2>2, <2>3 DEF RepStartOps
  <2> QED
    BY <1>1, <2>1, <2>3, <2>4, Cons
<1>6. StopOps = <<"sda0">> \o PulseOps("wait", <<"sda1">>) /\ StopOps \in Seq(Ops)
  <2>1. (<<"sda0">> \o SclHiUnseen) \o <<"sda1">> = <<"sda0">> \o (SclHiUnseen \o <<"sda1">>)
    BY <1>2, <1>4, Regroup
  <2>2. SclHiUnseen \o <<"sda1">> = PulseOps("wait", <<"sda1">>) /\ PulseOps("wait", <<"sda1">>) \in Seq(Ops)
    BY <1>2, Pulses
  <2>3. StopOps = <<"sda0">> \o PulseOps("wait", <<"sda1">>)
    BY <2>1, <2>2 DEF StopOps
  <2> QED
    BY <1>1, <2>2, <2>3, Cons
<1>7. ASSUME NEW z \in Seq(Ops)
      PROVE  /\ ReadBit \in Seq(Ops)
             /\ ReadBit \o z = PulseOps("wait_or_fail", GetThen(z))
             /\ PulseOps("wait_or_fail", GetThen(z)) \in Seq(Ops)
  <2>1. <<"get", "scl0">> \in Seq(Ops) /\ <<"get", "scl0">> = <<"get">> \o <<"scl0">>
    BY <1>1, Pair
  <2>2. <<"get", "scl0">> \o z = GetThen(z)
    <3>1. (<<"get">> \o <<"scl0">>) \o z = <<"get">> \o (<<"scl0">> \o z)
      BY <1>1, <1>2, Single, Regroup
    <3> QED
      BY <2>1, <3>1 DEF GetThen, SclThen
  <2>3. SclHi \in Seq(Ops)
    BY <1>2, Pulses
  <2>4. (SclHi \o <<"get", "scl0">>) \o z = SclHi \o (<<"get", "scl0">> \o z) /\ ReadBit \in Seq(Ops)
    BY <2>1, <2>3, Regroup DEF ReadBit
  <2>5. GetThen(z) \in Seq(Ops)
    BY ThenOps
  <2> QED
    BY <2>2, <2>4, <2>5, Pulses DEF ReadBit
<1>8. ReadBit \o <<>> = ReadBit
  BY <1>2, <1>7, ConcatEmptySeq
<1> QED
  BY <1>1, <1>2, <1>3, <1>5, <1>6, <1>7, <1>8, Cons DEF AckOps

\* One bit of a byte that is sent.
LEMMA SendBits1 ==
    ASSUME NEW b, NEW z \in Seq(Ops)
    PROVE  /\ SendBit(b) \in Seq(Ops)
           /\ SendBit(b) \o z = <<SetSda(b)>> \o PulseOps("wait_or_fail", SclThen(z))
<1>1. {"sda0", "sda1", "scl0"} \subseteq Ops /\ SetSda(b) \in Ops
  BY DEF Ops, SetSda
<1>2. <<SetSda(b)>> \in Seq(Ops) /\ <<"scl0">> \in Seq(Ops) /\ <<>> \in Seq(Ops)
  BY <1>1, Single
<1>3. SclHi \in Seq(Ops)
  BY <1>2, Pulses
<1>4. <<SetSda(b)>> \o SclHi \in Seq(Ops) /\ SendBit(b) \in Seq(Ops)
  BY <1>2, <1>3, Regroup DEF SendBit
<1>5. SendBit(b) \o z = (<<SetSda(b)>> \o SclHi) \o SclThen(z)
  BY <1>2, <1>4, Regroup DEF SendBit, SclThen
<1>6. SclThen(z) \in Seq(Ops)
  BY ThenOps
<1>7. (<<SetSda(b)>> \o SclHi) \o SclThen(z) = <<SetSda(b)>> \o (SclHi \o SclThen(z))
  BY <1>2, <1>3, <1>6, Regroup
<1> QED
  BY <1>4, <1>5, <1>6, <1>7, Pulses

\* Eight bits and what follows them, bit by bit.
LEMMA BitByBit ==
    ASSUME NEW op \in [0..7 -> Seq(Ops)], NEW z \in Seq(Ops)
    PROVE  /\ \A n \in 0..8 : Rest(op, z)[n + 1] \in Seq(Ops)
           /\ \A n \in 0..7 : Rest(op, z)[n + 1] = op[n] \o Rest(op, z)[n + 2]
           /\ Rest(op, z)[9] = z
           /\ EightTimes(op) \o z = Rest(op, z)[1]
           /\ EightTimes(op) \in Seq(Ops)
<1> DEFINE o0 == op[0]
           o1 == op[1]
           o2 == op[2]
           o3 == op[3]
           o4 == op[4]
           o5 == op[5]
           o6 == op[6]
           o7 == op[7]
<1>0. o0 \in Seq(Ops)
  OBVIOUS
<1>1. o1 \in Seq(Ops)
  OBVIOUS
<1>2. o2 \in Seq(Ops)
  OBVIOUS
<1>3. o3 \in Seq(Ops)
  OBVIOUS
<1>4. o4 \in Seq(Ops)
  OBVIOUS
<1>5. o5 \in Seq(Ops)
  OBVIOUS
<1>6. o6 \in Seq(Ops)
  OBVIOUS
<1>7. o7 \in Seq(Ops)
  OBVIOUS
<1> HIDE DEF o0, o1, o2, o3, o4, o5, o6, o7
<1> DEFINE r7 == o7 \o z
           r6 == o6 \o r7
           r5 == o5 \o r6
           r4 == o4 \o r5
           r3 == o3 \o r4
           r2 == o2 \o r3
           r1 == o1 \o r2
           r0 == o0 \o r1
<1>17. r7 \in Seq(Ops)
  BY <1>7, Regroup
<1>16. r6 \in Seq(Ops)
  <2> HIDE DEF r7
  <2> QED BY <1>6, <1>17, Regroup
<1>15. r5 \in Seq(Ops)
  <2> HIDE DEF r6
  <2> QED BY <1>5, <1>16, Regroup
<1>14. r4 \in Seq(Ops)
  <2> HIDE DEF r5
  <2> QED BY <1>4, <1>15, Regroup
<1>13. r3 \in Seq(Ops)
  <2> HIDE DEF r4
  <2> QED BY <1>3, <1>14, Regroup
<1>12. r2 \in Seq(Ops)
  <2> HIDE DEF r3
  <2> QED BY <1>2, <1>13, Regroup
<1>11. r1 \in Seq(Ops)
  <2> HIDE DEF r2
  <2> QED BY <1>1, <1>12, Regroup
<1>10. r0 \in Seq(Ops)
  <2> HIDE DEF r1
  <2> QED BY <1>0, <1>11, Regroup
<1>20. r0 = o0 \o r1
  OBVIOUS
<1>21. r1 = o1 \o r2
  OBVIOUS
<1>22. r2 = o2 \o r3
  OBVIOUS
<1>23. r3 = o3 \o r4
  OBVIOUS
<1>24. r4 = o4 \o r5
  OBVIOUS
<1>25. r5 = o5 \o r6
  OBVIOUS
<1>26. r6 = o6 \o r7
  OBVIOUS
<1>27. r7 = o7 \o z
  OBVIOUS
<1>8. Rest(op, z) = <<r0, r1, r2, r3, r4, r5, r6, r7, z>>
  BY DEF Rest, o0, o1, o2, o3, o4, o5, o6, o7
<1> DEFINE a1 == o0 \o o1
           a2 == a1 \o o2
           a3 == a2 \o o3
           a4 == a3 \o o4
           a5 == a4 \o o5
           a6 == a5 \o o6
           a7 == a6 \o o7
<1>9. EightTimes(op) = a7
  BY DEF EightTimes, o0, o1, o2, o3, o4, o5, o6, o7
<1>31. a1 = o0 \o o1
  OBVIOUS
<1>32. a2 = a1 \o o2
  OBVIOUS
<1>33. a3 = a2 \o o3
  OBVIOUS
<1>34. a4 = a3 \o o4
  OBVIOUS
<1>35. a5 = a4 \o o5
  OBVIOUS
<1>36. a6 = a5 \o o6
  OBVIOUS
<1>37. a7 = a6 \o o7
  OBVIOUS
<1> HIDE DEF r0, r1, r2, r3, r4, r5, r6, r7, a1, a2, a3, a4, a5, a6, a7
<1>41. a1 \in Seq(Ops)
  BY <1>0, <1>1, <1>31, Regroup
<1>42. a2 \in Seq(Ops)
  BY <1>2, <1>32, <1>41, Regroup
<1>43. a3 \in Seq(Ops)
  BY <1>3, <1>33, <1>42, Regroup
<1>44. a4 \in Seq(Ops)
  BY <1>4, <1>34, <1>43, Regroup
<1>45. a5 \in Seq(Ops)
  BY <1>5, <1>35, <1>44, Regroup
<1>46. a6 \in Seq(Ops)
  BY <1>6, <1>36, <1>45, Regroup
<1>47. a7 \in Seq(Ops)
  BY <1>7, <1>37, <1>46, Regroup
<1>51. a1 \o r2 = o0 \o r1
  BY <1>1, <1>12, <1>21, <1>31, <1>0, Regroup
<1>52. a2 \o r3 = a1 \o r2
  BY <1>2, <1>13, <1>22, <1>32, <1>41, Regroup
<1>53. a3 \o r4 = a2 \o r3
  BY <1>3, <1>14, <1>23, <1>33, <1>42, Regroup
<1>54. a4 \o r5 = a3 \o r4
  BY <1>4, <1>15, <1>24, <1>34, <1>43, Regroup
<1>55. a5 \o r6 = a4 \o r5
  BY <1>5, <1>16, <1>25, <1>35, <1>44, Regroup
<1>56. a6 \o r7 = a5 \o r6
  BY <1>6, <1>17, <1>26, <1>36, <1>45, Regroup
<1>57. a7 \o z = a6 \o r7
  BY <1>7, <1>27, <1>37, <1>46, Regroup
<1>48. EightTimes(op) \o z = r0 /\ EightTimes(op) \in Seq(Ops)
  BY <1>9, <1>20, <1>47, <1>51, <1>52, <1>53, <1>54, <1>55, <1>56, <1>57, Zenon
<1> DEFINE R == Rest(op, z)
<1>61. /\ R[1] = r0 /\ R[2] = r1 /\ R[3] = r2 /\ R[4] = r3 /\ R[5] = r4
       /\ R[6] = r5 /\ R[7] = r6 /\ R[8] = r7 /\ R[9] = z
  BY <1>8
<1> HIDE DEF R
<1>62. \A n \in 0..8 : R[n + 1] \in Seq(Ops)
  <2> SUFFICES ASSUME NEW n \in 0..8 PROVE R[n + 1] \in Seq(Ops)
    OBVIOUS
  <2>1. \/ n + 1 = 1 \/ n + 1 = 2 \/ n + 1 = 3 \/ n + 1 = 4 \/ n + 1 = 5
        \/ n + 1 = 6 \/ n + 1 = 7 \/ n + 1 = 8 \/ n + 1 = 9
    OBVIOUS
  <2> QED
    BY <1>10, <1>11, <1>12, <1>13, <1>14, <1>15, <1>16, <1>17, <1>61, <2>1, Zenon
<1>63. \A n \in 0..7 : R[n + 1] = op[n] \o R[n + 2]
  <2> SUFFICES ASSUME NEW n \in 0..7 PROVE R[n + 1] = op[n] \o R[n + 2]
    OBVIOUS
  <2>1. \/ (n = 0 /\ n + 1 = 1 /\ n + 2 = 2)
        \/ (n = 1 /\ n + 1 = 2 /\ n + 2 = 3)
        \/ (n = 2 /\ n + 1 = 3 /\ n + 2 = 4)
        \/ (n = 3 /\ n + 1 = 4 /\ n + 2 = 5)
        \/ (n = 4 /\ n + 1 = 5 /\ n + 2 = 6)
        \/ (n = 5 /\ n + 1 = 6 /\ n + 2 = 7)
        \/ (n = 6 /\ n + 1 = 7 /\ n + 2 = 8)
        \/ (n = 7 /\ n + 1 = 8 /\ n + 2 = 9)
    OBVIOUS
  <2> QED
    BY <1>20, <1>21, <1>22, <1>23, <1>24, <1>25, <1>26, <1>27, <1>61, <2>1, Zenon
       DEF o0, o1, o2, o3, o4, o5, o6, o7
<1> QED
  BY <1>48, <1>61, <1>62, <1>63 DEF R

\* i2c_outb(), from each bit on.
LEMMA OutOps ==
    ASSUME NEW c
    PROVE  /\ OutbOps(c) = OutRest(c)[1] /\ OutbOps(c) \in Seq(Ops)
           /\ OutRest(c)[9] = AckOps
           /\ \A n \in 0..8 : OutRest(c)[n + 1] \in Seq(Ops)
           /\ \A n \in 0..7 :
                 OutRest(c)[n + 1] =
                     <<SetSda(BitOf(c, n))>>
                     \o PulseOps("wait_or_fail", SclThen(OutRest(c)[n + 2]))
<1>1. SendBits(c) \in [0..7 -> Seq(Ops)]
  BY SendBits1, ShortCalls DEF SendBits
<1>2. AckOps \in Seq(Ops)
  BY ShortCalls
<1>3. /\ \A n \in 0..8 : OutRest(c)[n + 1] \in Seq(Ops)
      /\ \A n \in 0..7 : OutRest(c)[n + 1] = SendBits(c)[n] \o OutRest(c)[n + 2]
      /\ OutRest(c)[9] = AckOps
      /\ EightTimes(SendBits(c)) \o AckOps = OutRest(c)[1]
      /\ EightTimes(SendBits(c)) \in Seq(Ops)
  BY <1>1, <1>2, BitByBit DEF OutRest
<1>4. OutbOps(c) = EightTimes(SendBits(c)) \o AckOps
  <2>1. <<"sda1">> \in Seq(Ops) /\ ReadBit \in Seq(Ops)
    BY ShortCalls
  <2>2. (EightTimes(SendBits(c)) \o <<"sda1">>) \o ReadBit = EightTimes(SendBits(c)) \o AckOps
    BY <1>3, <2>1, Regroup DEF AckOps
  <2> QED
    BY <2>2 DEF OutbOps, SendBits
<1>5. \A n \in 0..7 :
          SendBits(c)[n] \o OutRest(c)[n + 2] =
              <<SetSda(BitOf(c, n))>> \o PulseOps("wait_or_fail", SclThen(OutRest(c)[n + 2]))
  <2> SUFFICES ASSUME NEW n \in 0..7
               PROVE  SendBits(c)[n] \o OutRest(c)[n + 2] =
                          <<SetSda(BitOf(c, n))>>
                          \o PulseOps("wait_or_fail", SclThen(OutRest(c)[n + 2]))
    OBVIOUS
  <2>1. (n + 1) + 1 = n + 2 /\ n + 1 \in 0..8
    OBVIOUS
  <2>2. OutRest(c)[n + 2] \in Seq(Ops)
    BY <1>3, <2>1, Zenon
  <2> QED
    BY <2>2, SendBits1 DEF SendBits
<1>6. OutRest(c)[1] \in Seq(Ops)
  <2>1. 0 + 1 = 1 /\ 0 \in 0..8
    OBVIOUS
  <2> QED
    BY <1>3, <2>1, Zenon
<1> QED
  BY <1>3, <1>4, <1>5, <1>6

\* i2c_inb(), from each bit on.
LEMMA InOps ==
    /\ InbOps = <<"sda1">> \o InRest[1] /\ InbOps \in Seq(Ops)
    /\ InRest[9] = <<>>
    /\ \A n \in 0..8 : InRest[n + 1] \in Seq(Ops)
    /\ \A n \in 0..7 : InRest[n + 1] = PulseOps("wait_or_fail", GetThen(InRest[n + 2]))
<1>1. ReadBits \in [0..7 -> Seq(Ops)] /\ <<>> \in Seq(Ops)
  BY ShortCalls DEF ReadBits
<1>2. /\ \A n \in 0..8 : InRest[n + 1] \in Seq(Ops)
      /\ \A n \in 0..7 : InRest[n + 1] = ReadBits[n] \o InRest[n + 2]
      /\ InRest[9] = <<>>
      /\ EightTimes(ReadBits) \o <<>> = InRest[1]
      /\ EightTimes(ReadBits) \in Seq(Ops)
  BY <1>1, BitByBit DEF InRest
<1>3. EightTimes(ReadBits) \o <<>> = EightTimes(ReadBits)
  BY <1>2, ConcatEmptySeq
<1>4. "sda1" \in Ops
  BY DEF Ops
<1>5. \A n \in 0..7 : InRest[n + 1] = PulseOps("wait_or_fail", GetThen(InRest[n + 2]))
  <2> SUFFICES ASSUME NEW n \in 0..7
               PROVE  InRest[n + 1] = PulseOps("wait_or_fail", GetThen(InRest[n + 2]))
    OBVIOUS
  <2>1. (n + 1) + 1 = n + 2 /\ n + 1 \in 0..8
    OBVIOUS
  <2>2. InRest[n + 2] \in Seq(Ops)
    BY <1>2, <2>1, Zenon
  <2> QED
    BY <1>2, <2>2, ShortCalls DEF ReadBits
<1> QED
  BY <1>2, <1>3, <1>4, <1>5, Cons DEF InbOps, ReadBits

\* acknak()
LEMMA AckOps1 ==
    ASSUME NEW ack \in BOOLEAN
    PROVE  /\ AcknakOps(ack) \in Seq(Ops)
           /\ AcknakOps(ack) = IF ack THEN <<"sda0">> \o PulseOps("wait_or_fail", SclThen(<<>>))
                               ELSE PulseOps("wait_or_fail", SclThen(<<>>))
<1>1. <<>> \in Seq(Ops) /\ <<"sda0">> \in Seq(Ops) /\ "sda0" \in Ops
  BY Single DEF Ops
<1>2. SclThen(<<>>) = <<"scl0">> /\ SclThen(<<>>) \in Seq(Ops)
  BY <1>1, Single, ThenOps DEF SclThen, Ops
<1>3. SclHi \in Seq(Ops)
  BY <1>1, Pulses
<1>4. /\ SclHi \o SclThen(<<>>) = PulseOps("wait_or_fail", SclThen(<<>>))
      /\ PulseOps("wait_or_fail", SclThen(<<>>)) \in Seq(Ops)
  BY <1>2, Pulses
<1>5. CASE ack
  <2>1. (<<"sda0">> \o SclHi) \o SclThen(<<>>) = <<"sda0">> \o (SclHi \o SclThen(<<>>))
    BY <1>1, <1>2, <1>3, Regroup
  <2>2. AcknakOps(ack) = <<"sda0">> \o PulseOps("wait_or_fail", SclThen(<<>>))
    BY <1>2, <1>4, <1>5, <2>1 DEF AcknakOps
  <2> QED
    BY <1>1, <1>4, <1>5, <2>2, Cons
<1>6. CASE ~ack
  <2>1. <<>> \o SclHi = SclHi
    BY <1>3, ConcatEmptySeq
  <2>2. AcknakOps(ack) = PulseOps("wait_or_fail", SclThen(<<>>))
    BY <1>2, <1>4, <1>6, <2>1 DEF AcknakOps
  <2> QED
    BY <1>4, <1>6, <2>2
<1> QED
  BY <1>5, <1>6

-----------------------------------------------------------------------------
(* The bits a call has read.                                               *)

LEMMA Powers ==
    /\ 2^0 = 1 /\ 2^1 = 2 /\ 2^2 = 4 /\ 2^3 = 8 /\ 2^4 = 16
    /\ 2^5 = 32 /\ 2^6 = 64 /\ 2^7 = 128 /\ 2^8 = 256
OBVIOUS

\* One more bit doubles what fits in.
LEMMA Doubles ==
    ASSUME NEW n \in 0..8
    PROVE  /\ 2^n \in 1..256
           /\ n < 8 => 2^(n + 1) = 2 * 2^n
<1>0. CASE n = 0
  <2>1. 2^n = 1 /\ 2^(n + 1) = 2
    BY <1>0, Powers
  <2> QED
    BY <1>0, <2>1
<1>1. CASE n = 1
  <2>1. 2^n = 2 /\ 2^(n + 1) = 4
    BY <1>1, Powers
  <2> QED
    BY <1>1, <2>1
<1>2. CASE n = 2
  <2>1. 2^n = 4 /\ 2^(n + 1) = 8
    BY <1>2, Powers
  <2> QED
    BY <1>2, <2>1
<1>3. CASE n = 3
  <2>1. 2^n = 8 /\ 2^(n + 1) = 16
    BY <1>3, Powers
  <2> QED
    BY <1>3, <2>1
<1>4. CASE n = 4
  <2>1. 2^n = 16 /\ 2^(n + 1) = 32
    BY <1>4, Powers
  <2> QED
    BY <1>4, <2>1
<1>5. CASE n = 5
  <2>1. 2^n = 32 /\ 2^(n + 1) = 64
    BY <1>5, Powers
  <2> QED
    BY <1>5, <2>1
<1>6. CASE n = 6
  <2>1. 2^n = 64 /\ 2^(n + 1) = 128
    BY <1>6, Powers
  <2> QED
    BY <1>6, <2>1
<1>7. CASE n = 7
  <2>1. 2^n = 128 /\ 2^(n + 1) = 256
    BY <1>7, Powers
  <2> QED
    BY <1>7, <2>1
<1>8. CASE n = 8
  <2>1. 2^n = 256
    BY <1>8, Powers
  <2> QED
    BY <1>8, <2>1
<1> QED
  BY <1>0, <1>1, <1>2, <1>3, <1>4, <1>5, <1>6, <1>7, <1>8

LEMMA OneMoreBit ==
    ASSUME NEW n \in 0..7, NEW r \in 0..(2^n - 1), NEW s \in 2 * r .. 2 * r + 1
    PROVE  s \in 0..(2^(n + 1) - 1)
<1>1. n \in 0..8 /\ n < 8
  OBVIOUS
<1>2. 2^n \in 1..256 /\ 2^(n + 1) = 2 * 2^n
  BY <1>1, Doubles
<1> QED
  BY <1>2

LEMMA BitsFit ==
    ASSUME NEW n \in 0..8, NEW r \in 0..(2^n - 1)
    PROVE  r \in 0..255
<1>1. 2^n \in 1..256
  BY Doubles
<1> QED
  BY <1>1

\* What a line operation does to what is left and what was read.
LEMMA OneOp ==
    ASSUME NEW x \in Ops, NEW z \in Seq(Ops), todo = <<x>> \o z, LineOp,
           err \in BOOLEAN
    PROVE  /\ UNCHANGED <<vars, hold, got, temp>>
           /\ \/ /\ todo' = z /\ err' = err
                 /\ x # "get" => rx' = rx
                 /\ x = "get" => rx' \in {2 * rx + 0, 2 * rx + 1}
              \/ /\ x = "wait_or_fail" /\ hold
                 /\ todo' = <<>> /\ err' = TRUE /\ rx' = rx
<1>1. Head(todo) = x /\ Tail(todo) = z
  BY Cons
<1>2. WireSda' \in {0, 1}
  BY DEF WireSda, SdaOf
<1>3. UNCHANGED <<vars, got, temp>>
  BY DEF LineOp
<1>4. CASE /\ x \in {"sda0", "sda1", "scl0", "scl1"}
           /\ \E p : SetLines(p)
           /\ todo' = Tail(todo)
           /\ UNCHANGED <<rx, err>>
  BY <1>1, <1>3, <1>4 DEF SetLines
<1>5. CASE /\ x = "get"
           /\ \E p : SetLines(p)
           /\ rx' = 2 * rx + WireSda'
           /\ todo' = Tail(todo)
           /\ UNCHANGED err
  BY <1>1, <1>2, <1>3, <1>5 DEF SetLines
<1>6. CASE /\ x \in {"wait", "wait_or_fail"}
           /\ \/ todo' = Tail(todo) /\ UNCHANGED err
              \/ /\ hold
                 /\ todo' = IF x = "wait" THEN Tail(todo) ELSE <<>>
                 /\ err' = (err \/ x = "wait_or_fail")
           /\ UNCHANGED <<rx, hold>>
  <2>1. CASE todo' = Tail(todo) /\ UNCHANGED err
    BY <1>1, <1>3, <1>6, <2>1
  <2>2. CASE x = "wait_or_fail" /\ hold /\ todo' = <<>> /\ err' = TRUE
    BY <1>1, <1>3, <1>6, <2>2
  <2>3. CASE x = "wait" /\ todo' = Tail(todo) /\ err' = (err \/ FALSE)
    BY <1>1, <1>3, <1>6, <2>3
  <2> QED
    BY <1>6, <2>1, <2>2, <2>3
<1> QED
  BY <1>1, <1>4, <1>5, <1>6 DEF LineOp

\* A pulse that has not come to its z goes on, or gives up.
LEMMA PulseGoesOn ==
    ASSUME NEW w \in {"wait", "wait_or_fail"}, NEW z \in Seq(Ops),
           todo \in {PulseOps(w, z), <<w>> \o z}, LineOp, err \in BOOLEAN
    PROVE  \/ todo' \in PulseLeft(w, z) /\ rx' = rx /\ err' = err
           \/ hold /\ todo' = <<>> /\ err' = TRUE /\ rx' = rx
<1>1. w \in Ops /\ w # "get" /\ "scl1" \in Ops
  BY DEF Ops
<1>2. CASE todo = PulseOps(w, z)
  <2>1. WaitThen(w, z) \in Seq(Ops)
    BY Pulses
  <2>2. todo' = WaitThen(w, z) /\ err' = err /\ rx' = rx
    BY <1>1, <1>2, <2>1, OneOp DEF PulseOps
  <2> QED
    BY <2>2 DEF WaitThen, PulseLeft
<1>3. CASE todo = <<w>> \o z
  BY <1>1, <1>3, OneOp DEF PulseLeft
<1> QED
  BY <1>2, <1>3

\* The last operation of a call that reads nothing, or no more.
LEMMA NoGetGoesOn ==
    ASSUME todo \in Seq(Ops), NoGet(todo), LineOp, err \in BOOLEAN
    PROVE  /\ NoGet(todo') /\ rx' = rx
           /\ err' = err \/ (hold /\ err' = TRUE /\ todo' = <<>>)
<1>1. todo # <<>>
  BY DEF LineOp
<1>2. /\ Len(todo) \in Nat /\ Len(todo) > 0
      /\ Head(todo) = todo[1]
      /\ Tail(todo) \in Seq(Ops) /\ Len(Tail(todo)) = Len(todo) - 1
      /\ \A k \in 1..Len(Tail(todo)) : Tail(todo)[k] = todo[k + 1]
  BY <1>1, HeadTailProperties, LenProperties, EmptySeq
<1>3. Head(todo) # "get"
  BY <1>2 DEF NoGet
<1>4. NoGet(Tail(todo))
  BY <1>2 DEF NoGet
<1>5. NoGet(<<>>)
  BY DEF NoGet
<1>6. CASE todo' = Tail(todo) /\ UNCHANGED <<rx, err>>
  BY <1>4, <1>6
<1>7. CASE /\ hold
           /\ todo' = IF Head(todo) = "wait" THEN Tail(todo) ELSE <<>>
           /\ err' = (err \/ Head(todo) = "wait_or_fail")
           /\ Head(todo) \in {"wait", "wait_or_fail"}
           /\ UNCHANGED rx
  <2>1. CASE Head(todo) = "wait"
    BY <1>4, <1>7, <2>1
  <2>2. CASE Head(todo) = "wait_or_fail"
    BY <1>5, <1>7, <2>2
  <2> QED
    BY <1>7, <2>1, <2>2
<1> QED
  BY <1>3, <1>6, <1>7 DEF LineOp

LEMMA ShortNoGet ==
    /\ NoGet(<<>>) /\ NoGet(StartOps) /\ NoGet(SclThen(<<>>))
    /\ NoGet(RepStartOps) /\ NoGet(StopOps)
    /\ NoGet(AcknakOps(TRUE)) /\ NoGet(AcknakOps(FALSE))
<1>1. ASSUME NEW x \in Ops, x # "get", NEW z \in Seq(Ops), NoGet(z)
      PROVE  NoGet(<<x>> \o z) /\ <<x>> \o z \in Seq(Ops)
  <2>1. <<x>> \in Seq(Ops) /\ Len(<<x>>) = 1 /\ <<x>>[1] = x /\ Len(z) \in Nat
    BY LenProperties
  <2>2. /\ Len(<<x>> \o z) = 1 + Len(z)
        /\ \A k \in 1..(1 + Len(z)) : (<<x>> \o z)[k] = IF k <= 1 THEN x ELSE z[k - 1]
    BY <2>1, ConcatProperties
  <2>3. \A k \in 1..(1 + Len(z)) : (<<x>> \o z)[k] # "get"
    BY <1>1, <2>1, <2>2 DEF NoGet
  <2> QED
    BY <2>2, <2>3, Cons DEF NoGet
<1>2. \A x \in {"sda0", "sda1", "scl0", "scl1", "wait", "wait_or_fail"} : x \in Ops /\ x # "get"
  BY DEF Ops
<1>3. ASSUME NEW w \in {"wait", "wait_or_fail"}, NEW z \in Seq(Ops), NoGet(z)
      PROVE  NoGet(PulseOps(w, z)) /\ PulseOps(w, z) \in Seq(Ops)
  <2>1. NoGet(WaitThen(w, z)) /\ WaitThen(w, z) \in Seq(Ops)
    BY <1>1, <1>2, <1>3 DEF WaitThen
  <2> QED
    BY <1>1, <1>2, <2>1 DEF PulseOps
<1>4. NoGet(<<>>) /\ <<>> \in Seq(Ops)
  BY ShortCalls DEF NoGet
<1>5. NoGet(SclThen(<<>>)) /\ SclThen(<<>>) \in Seq(Ops)
  BY <1>1, <1>2, <1>4 DEF SclThen
<1>6. NoGet(StartOps)
  BY <1>1, <1>2, <1>5, ShortCalls
<1>7. NoGet(RepStartOps)
  <2>1. NoGet(<<"sda0">> \o SclThen(<<>>)) /\ <<"sda0">> \o SclThen(<<>>) \in Seq(Ops)
    BY <1>1, <1>2, <1>5
  <2>2. /\ NoGet(PulseOps("wait", <<"sda0">> \o SclThen(<<>>)))
        /\ PulseOps("wait", <<"sda0">> \o SclThen(<<>>)) \in Seq(Ops)
    BY <1>3, <2>1
  <2> QED
    BY <1>1, <1>2, <2>2, ShortCalls
<1>8. NoGet(StopOps)
  <2>1. NoGet(<<"sda1">> \o <<>>) /\ <<"sda1">> = <<"sda1">> \o <<>>
    BY <1>1, <1>2, <1>4, Single
  <2>2. NoGet(PulseOps("wait", <<"sda1">>)) /\ PulseOps("wait", <<"sda1">>) \in Seq(Ops)
    BY <1>3, <2>1, ShortCalls
  <2> QED
    BY <1>1, <1>2, <2>2, ShortCalls
<1>9. NoGet(AcknakOps(TRUE)) /\ NoGet(AcknakOps(FALSE))
  <2>1. /\ NoGet(PulseOps("wait_or_fail", SclThen(<<>>)))
        /\ PulseOps("wait_or_fail", SclThen(<<>>)) \in Seq(Ops)
    BY <1>3, <1>5
  <2>2. NoGet(<<"sda0">> \o PulseOps("wait_or_fail", SclThen(<<>>)))
    BY <1>1, <1>2, <2>1
  <2> QED
    BY <2>1, <2>2, AckOps1
<1> QED
  BY <1>4, <1>5, <1>6, <1>7, <1>8, <1>9

LEMMA CallOpsSeq == CallOps \in Seq(Ops)
<1>1. \A ack \in BOOLEAN : AcknakOps(ack) \in Seq(Ops)
  BY AckOps1
<1>2. AckBit \in BOOLEAN /\ FALSE \in BOOLEAN
  BY DEF AckBit
<1>3. \A c : OutbOps(c) \in Seq(Ops)
  BY OutOps
<1> QED
  BY <1>1, <1>2, <1>3, InOps, ShortCalls DEF CallOps

\* i2c_start() and what follows it.
LEMMA Starting ==
    ASSUME NEW z \in Seq(Ops)
    PROVE  /\ StartOps \o z = <<"sda0">> \o SclThen(z)
           /\ StartOps \o z \in Seq(Ops) /\ SclThen(z) \in Seq(Ops)
           /\ Len(StartOps \o z) = Len(z) + 2 /\ Len(SclThen(z)) = Len(z) + 1
           /\ StartOps \o z # <<>> /\ SclThen(z) # <<>>
<1>1. {"sda0", "scl0"} \subseteq Ops
  BY DEF Ops
<1>2. <<"sda0", "scl0">> = <<"sda0">> \o <<"scl0">> /\ <<"sda0">> \in Seq(Ops) /\ <<"scl0">> \in Seq(Ops)
  BY <1>1, Pair, Single
<1>3. (<<"sda0">> \o <<"scl0">>) \o z = <<"sda0">> \o (<<"scl0">> \o z)
  BY <1>2, Regroup
<1>4. StartOps \o z = <<"sda0">> \o SclThen(z)
  BY <1>2, <1>3 DEF StartOps, SclThen
<1>5. SclThen(z) \in Seq(Ops) /\ Len(SclThen(z)) = Len(z) + 1 /\ SclThen(z) # <<>>
  BY <1>1, Cons DEF SclThen
<1>6. Len(z) \in Nat
  BY LenProperties
<1> QED
  BY <1>1, <1>4, <1>5, <1>6, Cons

\* What a call begins with.
LEMMA CallBegins ==
    todo = CallOps /\ rx = 0 =>
        \/ Outs /\ OutLeft(OutByte)
        \/ Ins /\ InLeft
        \/ ~Outs /\ ~Ins /\ rx = 0 /\ NoGet(todo)
<1> SUFFICES ASSUME todo = CallOps, rx = 0
             PROVE  \/ Outs /\ OutLeft(OutByte)
                    \/ Ins /\ InLeft
                    \/ ~Outs /\ ~Ins /\ rx = 0 /\ NoGet(todo)
  OBVIOUS
<1>1. CASE Outs
  <2>1. todo = OutRest(OutByte)[1]
    <3>1. CallOps = OutbOps(OutByte)
      BY <1>1 DEF CallOps, Outs
    <3> QED
      BY <3>1, OutOps
  <2> QED
    BY <1>1, <2>1 DEF OutLeft
<1>2. CASE Ins
  <2>1. todo = InbOps
    BY <1>2 DEF CallOps, Ins
  <2> QED
    BY <1>2, <2>1 DEF InLeft
<1>3. CASE ~Outs /\ ~Ins
  <2>1. AckBit = TRUE \/ AckBit = FALSE
    BY DEF AckBit
  <2> QED
    BY <1>3, <2>1, ShortNoGet DEF CallOps, Outs, Ins
<1> QED
  BY <1>1, <1>2, <1>3

\* i2c_outb() goes on.
LEMMA OutGoesOn ==
    ASSUME NEW c, OutLeft(c), todo \in Seq(Ops), LineOp, err \in BOOLEAN
    PROVE  /\ rx' \in 0..1
           /\ \/ OutLeft(c)' /\ err' = err
              \/ hold /\ err' = TRUE /\ todo' = <<>>
<1>1. \A n \in 0..8 : OutRest(c)[n + 1] \in Seq(Ops)
  BY OutOps
<1>2. /\ <<>> \in Seq(Ops) /\ GetThen(<<>>) \in Seq(Ops) /\ SclThen(<<>>) \in Seq(Ops)
      /\ AckOps = <<"sda1">> \o ReadBit /\ ReadBit \in Seq(Ops)
      /\ ReadBit = PulseOps("wait_or_fail", GetThen(<<>>))
  BY ShortCalls, ThenOps
<1>3. {"scl0", "sda1", "get"} \subseteq Ops
  BY DEF Ops
<1>4. ASSUME rx \in 0..1, NoGet(todo)
      PROVE  /\ rx' \in 0..1
             /\ \/ OutLeft(c)' /\ err' = err
                \/ hold /\ err' = TRUE /\ todo' = <<>>
  <2>1. /\ NoGet(todo') /\ rx' = rx
        /\ err' = err \/ (hold /\ err' = TRUE /\ todo' = <<>>)
    BY <1>4, NoGetGoesOn
  <2> QED
    BY <1>4, <2>1 DEF OutLeft
<1>5. ASSUME rx = 0, NEW n \in 0..7, todo = OutRest(c)[n + 1]
      PROVE  rx' = 0 /\ OutLeft(c)' /\ err' = err
  <2>1. (n + 1) + 1 = n + 2 /\ n + 1 \in 0..8
    OBVIOUS
  <2>2. OutRest(c)[n + 2] \in Seq(Ops)
    BY <1>1, <2>1, Zenon
  <2> DEFINE z == SclThen(OutRest(c)[n + 2])
  <2>3. z \in Seq(Ops) /\ PulseOps("wait_or_fail", z) \in Seq(Ops)
    BY <2>2, ThenOps, Pulses
  <2>4. todo = <<SetSda(BitOf(c, n))>> \o PulseOps("wait_or_fail", z)
    BY <1>5, OutOps
  <2>5. SetSda(BitOf(c, n)) \in Ops /\ SetSda(BitOf(c, n)) \notin {"get", "wait_or_fail"}
    BY DEF SetSda, Ops
  <2> HIDE DEF z
  <2>6. todo' = PulseOps("wait_or_fail", z) /\ rx' = 0 /\ err' = err
    BY <1>5, <2>3, <2>4, <2>5, OneOp
  <2>7. todo' \in PulseLeft("wait_or_fail", z)
    BY <2>6 DEF PulseLeft
  <2> QED
    BY <2>6, <2>7 DEF OutLeft, z
<1>6. ASSUME rx = 0, NEW n \in 0..7,
             todo \in PulseLeft("wait_or_fail", SclThen(OutRest(c)[n + 2]))
      PROVE  /\ rx' = 0
             /\ \/ OutLeft(c)' /\ err' = err
                \/ hold /\ err' = TRUE /\ todo' = <<>>
  <2>1. (n + 1) + 1 = n + 2 /\ n + 1 \in 0..8
    OBVIOUS
  <2>2. OutRest(c)[n + 2] \in Seq(Ops)
    BY <1>1, <2>1, Zenon
  <2> DEFINE y == OutRest(c)[n + 2]
             z == SclThen(y)
  <2>3. z \in Seq(Ops)
    BY <2>2, ThenOps
  <2>4. CASE todo \in {PulseOps("wait_or_fail", z), <<"wait_or_fail">> \o z}
    <3>1. \/ todo' \in PulseLeft("wait_or_fail", z) /\ rx' = rx /\ err' = err
          \/ hold /\ todo' = <<>> /\ err' = TRUE /\ rx' = rx
      BY <2>3, <2>4, PulseGoesOn
    <3> QED
      BY <1>6, <3>1 DEF OutLeft
  <2>5. CASE todo = z
    <3>1. todo' = y /\ rx' = 0 /\ err' = err
      <4>1. todo = <<"scl0">> \o y
        BY <2>5 DEF SclThen
      <4> HIDE DEF y
      <4> QED
        BY <1>3, <1>6, <2>2, <4>1, OneOp DEF y
    <3>2. CASE n = 7
      <4>1. n + 2 = 9
        BY <3>2
      <4>2. y = AckOps
        BY <4>1, OutOps, Zenon
      <4> QED
        BY <3>1, <4>2 DEF OutLeft
    <3>3. CASE n # 7
      <4>1. n + 1 \in 0..7 /\ todo' = OutRest(c)[(n + 1) + 1]
        BY <2>1, <3>1, <3>3
      <4> QED
        BY <3>1, <4>1 DEF OutLeft
    <3> QED
      BY <3>2, <3>3
  <2> QED
    BY <1>6, <2>4, <2>5 DEF PulseLeft
<1>7. ASSUME rx = 0, todo = AckOps
      PROVE  rx' = 0 /\ OutLeft(c)' /\ err' = err
  <2>1. todo' = ReadBit /\ rx' = 0 /\ err' = err
    BY <1>2, <1>3, <1>7, OneOp
  <2>2. todo' \in PulseLeft("wait_or_fail", GetThen(<<>>))
    BY <1>2, <2>1 DEF PulseLeft
  <2> QED
    BY <2>1, <2>2 DEF OutLeft
<1>8. ASSUME rx = 0, todo \in PulseLeft("wait_or_fail", GetThen(<<>>))
      PROVE  /\ rx' \in 0..1
             /\ \/ OutLeft(c)' /\ err' = err
                \/ hold /\ err' = TRUE /\ todo' = <<>>
  <2> DEFINE z == GetThen(<<>>)
  <2>1. CASE todo \in {PulseOps("wait_or_fail", z), <<"wait_or_fail">> \o z}
    <3>1. \/ todo' \in PulseLeft("wait_or_fail", z) /\ rx' = rx /\ err' = err
          \/ hold /\ todo' = <<>> /\ err' = TRUE /\ rx' = rx
      BY <1>2, <2>1, PulseGoesOn
    <3> QED
      BY <1>8, <3>1 DEF OutLeft
  <2>2. CASE todo = z
    <3>1. todo' = SclThen(<<>>) /\ rx' \in {2 * rx + 0, 2 * rx + 1} /\ err' = err
      BY <1>2, <1>3, <2>2, OneOp DEF GetThen
    <3>2. NoGet(SclThen(<<>>))
      BY ShortNoGet
    <3> QED
      BY <1>8, <3>1, <3>2 DEF OutLeft
  <2> QED
    BY <1>8, <2>1, <2>2 DEF PulseLeft
<1>9. 0 \in 0..1
  OBVIOUS
<1> QED
  BY <1>4, <1>5, <1>6, <1>7, <1>8, <1>9, Zenon DEF OutLeft

\* i2c_inb() goes on.
LEMMA InGoesOn ==
    ASSUME InLeft, LineOp, err \in BOOLEAN
    PROVE  \/ InLeft' /\ err' = err
           \/ hold /\ err' = TRUE /\ todo' = <<>> /\ rx' = rx
<1>1. /\ \A n \in 0..8 : InRest[n + 1] \in Seq(Ops)
      /\ \A n \in 0..7 : InRest[n + 1] = PulseOps("wait_or_fail", GetThen(InRest[n + 2]))
  BY InOps
<1>2. {"scl0", "sda1", "get"} \subseteq Ops
  BY DEF Ops
<1>3. ASSUME NEW n \in 0..7
      PROVE  /\ n + 1 \in 1..8 /\ (n + 1) + 1 = n + 2
             /\ InRest[n + 1] \in Seq(Ops) /\ InRest[n + 2] \in Seq(Ops)
             /\ SclThen(InRest[n + 2]) \in Seq(Ops) /\ GetThen(InRest[n + 2]) \in Seq(Ops)
  <2>1. (n + 1) + 1 = n + 2 /\ n \in 0..8 /\ n + 1 \in 0..8 /\ n + 1 \in 1..8
    OBVIOUS
  <2>2. InRest[n + 1] \in Seq(Ops) /\ InRest[n + 2] \in Seq(Ops)
    BY <1>1, <2>1, Zenon
  <2> QED
    BY <2>1, <2>2, ThenOps
<1>4. ASSUME rx = 0, todo = InbOps
      PROVE  InLeft' /\ err' = err
  <2>1. InbOps = <<"sda1">> \o InRest[1] /\ InRest[0 + 1] \in Seq(Ops) /\ 0 + 1 = 1 /\ 0 \in 0..7
    BY <1>1, InOps
  <2>2. todo' = InRest[0 + 1] /\ rx' = 0 /\ err' = err
    BY <1>2, <1>4, <2>1, OneOp
  <2>3. todo' \in PulseLeft("wait_or_fail", GetThen(InRest[0 + 2]))
    BY <1>1, <2>1, <2>2 DEF PulseLeft
  <2>4. rx' \in 0..(2^0 - 1)
    BY <2>2, Powers
  <2> QED
    BY <2>1, <2>2, <2>3, <2>4 DEF InLeft
<1>5. ASSUME NEW n \in 0..7, rx \in 0..(2^n - 1),
             todo \in PulseLeft("wait_or_fail", GetThen(InRest[n + 2]))
      PROVE  \/ InLeft' /\ err' = err
             \/ hold /\ err' = TRUE /\ todo' = <<>> /\ rx' = rx
  <2> DEFINE y == InRest[n + 2]
             z == GetThen(y)
  <2>1. CASE todo \in {PulseOps("wait_or_fail", z), <<"wait_or_fail">> \o z}
    <3>1. \/ todo' \in PulseLeft("wait_or_fail", z) /\ rx' = rx /\ err' = err
          \/ hold /\ todo' = <<>> /\ err' = TRUE /\ rx' = rx
      BY <1>3, <2>1, PulseGoesOn
    <3> QED
      BY <1>5, <3>1 DEF InLeft
  <2>2. CASE todo = z
    <3>1. todo' = SclThen(y) /\ rx' \in {2 * rx + 0, 2 * rx + 1} /\ err' = err
      <4>1. todo = <<"get">> \o SclThen(y) /\ SclThen(y) \in Seq(Ops)
        BY <1>3, <2>2 DEF GetThen
      <4> HIDE DEF y
      <4> QED
        BY <1>2, <4>1, OneOp
    <3>2. 2^n \in 1..256
      <4>1. n \in 0..8
        OBVIOUS
      <4> QED
        BY <4>1, Doubles
    <3>3. rx' \in 2 * rx .. 2 * rx + 1
      BY <1>5, <3>1, <3>2
    <3>4. rx' \in 0..(2^(n + 1) - 1)
      BY <1>5, <3>3, OneMoreBit
    <3>5. n + 1 \in 1..8 /\ todo' = SclThen(InRest[(n + 1) + 1])
      BY <1>3, <3>1
    <3> QED
      BY <3>1, <3>4, <3>5 DEF InLeft
  <2> QED
    BY <1>5, <2>1, <2>2 DEF PulseLeft
<1>6. ASSUME NEW n \in 1..8, rx \in 0..(2^n - 1), todo = SclThen(InRest[n + 1])
      PROVE  InLeft' /\ err' = err
  <2>1. InRest[n + 1] \in Seq(Ops)
    BY <1>1
  <2>2. todo' = InRest[n + 1] /\ rx' = rx /\ err' = err
    BY <1>2, <1>6, <2>1, OneOp DEF SclThen
  <2> QED
    BY <1>6, <2>2 DEF InLeft
<1>7. ASSUME NEW n \in 1..8, rx \in 0..(2^n - 1), todo = InRest[n + 1]
      PROVE  \/ InLeft' /\ err' = err
             \/ hold /\ err' = TRUE /\ todo' = <<>> /\ rx' = rx
  <2>1. CASE n = 8
    <3>1. n + 1 = 9 /\ InRest[9] = <<>>
      BY <2>1, InOps
    <3>2. todo = <<>>
      BY <1>7, <3>1
    <3> QED
      BY <3>2 DEF LineOp
  <2>2. CASE n # 8
    <3>1. n \in 0..7
      BY <2>2
    <3>2. todo \in PulseLeft("wait_or_fail", GetThen(InRest[n + 2]))
      BY <1>1, <1>7, <3>1 DEF PulseLeft
    <3> QED
      BY <1>5, <1>7, <3>1, <3>2
  <2> QED
    BY <2>1, <2>2
<1> QED
  BY <1>4, <1>5, <1>6, <1>7 DEF InLeft

LEMMA CallsKept ==
    ASSUME UNCHANGED vars
    PROVE  /\ Outs' = Outs /\ Ins' = Ins /\ OutByte' = OutByte /\ CallOps' = CallOps
<1>1. OutByte' = OutByte
  BY DEF vars, OutByte, AddressByte, Cur
<1>2. Outs' = Outs /\ Ins' = Ins /\ AckBit' = AckBit
  BY DEF vars, Outs, Ins, AckBit
<1>3. CallOps' = CallOps
  BY <1>1, <1>2 DEF vars, CallOps
<1> QED
  BY <1>1, <1>2, <1>3

LEMMA InFits == InLeft => rx \in 0..255
BY BitsFit DEF InLeft

\* The forms a call takes after a step that sclhi() survives, and after one in
\* which it gives up.
LEMMA Sorted ==
    ASSUME hold' \in BOOLEAN, hold' => CanTimeout, err' = FALSE,
           todo' \in Seq(Ops), rx' \in 0..255,
           \/ rx' = 0 /\ todo' \in {StartOps \o CallOps', SclThen(CallOps')}
           \/ (Outs /\ OutLeft(OutByte))'
           \/ (Ins /\ InLeft)'
           \/ (~Outs /\ ~Ins /\ rx = 0 /\ NoGet(todo))'
    PROVE  BitsLeft'
BY Zenon DEF BitsLeft

LEMMA GaveUp ==
    ASSUME BitsLeft, hold, hold' = hold, err' = TRUE, todo' = <<>>, todo' \in Seq(Ops),
           rx' \in 0..255
    PROVE  BitsLeft'
BY Zenon DEF BitsLeft

LEMMA BitsLineOp == BitsLeft /\ LineOp => BitsLeft'
<1> SUFFICES ASSUME BitsLeft, LineOp PROVE BitsLeft'
  OBVIOUS
<1>1. UNCHANGED vars /\ hold' = hold /\ todo' \in Seq(Ops)
  <2>1. todo # <<>> /\ Tail(todo) \in Seq(Ops) /\ <<>> \in Seq(Ops)
    BY HeadTailProperties, ShortCalls DEF LineOp, BitsLeft
  <2> QED
    BY <2>1 DEF LineOp, SetLines
<1>2. Outs' = Outs /\ Ins' = Ins /\ OutByte' = OutByte /\ CallOps' = CallOps
  BY <1>1, CallsKept
<1>3. /\ hold' \in BOOLEAN /\ (hold' => CanTimeout)
      /\ err = FALSE
  <2>1. err \in BOOLEAN /\ hold \in BOOLEAN /\ (hold => CanTimeout) /\ (err => todo = <<>>)
    BY Zenon DEF BitsLeft
  <2>2. todo # <<>>
    BY DEF LineOp
  <2> QED
    BY <1>1, <2>1, <2>2, Zenon
<1>4. {"sda0", "scl0"} \subseteq Ops
  BY DEF Ops
<1>5. CASE rx = 0 /\ todo = StartOps \o CallOps
  <2>1. StartOps \o CallOps = <<"sda0">> \o SclThen(CallOps) /\ SclThen(CallOps) \in Seq(Ops)
    BY CallOpsSeq, Starting
  <2>2. todo' = SclThen(CallOps) /\ rx' = 0 /\ err' = err
    BY <1>4, <1>5, <2>1, OneOp DEF BitsLeft
  <2>3. rx' \in 0..255
    BY <2>2
  <2> QED
    BY <1>1, <1>2, <1>3, <2>2, <2>3, Sorted, Zenon
<1>6. CASE rx = 0 /\ todo = SclThen(CallOps)
  <2>1. todo' = CallOps /\ rx' = 0 /\ err' = err
    BY <1>4, <1>6, CallOpsSeq, OneOp DEF BitsLeft, SclThen
  <2>2. (todo = CallOps /\ rx = 0)'
    BY <1>2, <2>1
  <2>3. (\/ Outs /\ OutLeft(OutByte)
         \/ Ins /\ InLeft
         \/ ~Outs /\ ~Ins /\ rx = 0 /\ NoGet(todo))'
    BY <2>2, CallBegins, PTL
  <2>4. rx' \in 0..255
    BY <2>1
  <2> QED
    BY <1>1, <1>3, <2>1, <2>3, <2>4, Sorted, Zenon
<1>7. CASE Outs /\ OutLeft(OutByte)
  <2> DEFINE c == OutByte
  <2> HIDE DEF c
  <2>1. /\ rx' \in 0..1
        /\ \/ OutLeft(OutByte)' /\ err' = err
           \/ hold /\ err' = TRUE /\ todo' = <<>>
    BY <1>2, <1>7, OutGoesOn DEF BitsLeft, OutLeft
  <2>2. rx' \in 0..255
    BY <2>1
  <2>3. CASE OutLeft(OutByte)' /\ err' = err
    BY <1>1, <1>2, <1>3, <1>7, <2>2, <2>3, Sorted, Zenon
  <2>4. CASE hold /\ err' = TRUE /\ todo' = <<>>
    BY <1>1, <2>2, <2>4, GaveUp, Zenon
  <2> QED
    BY <2>1, <2>3, <2>4
<1>8. CASE Ins /\ InLeft
  <2>1. \/ InLeft' /\ err' = err
        \/ hold /\ err' = TRUE /\ todo' = <<>> /\ rx' = rx
    BY <1>8, InGoesOn DEF BitsLeft
  <2>2. (InLeft => rx \in 0..255)'
    BY InFits, PTL
  <2>3. CASE InLeft' /\ err' = err
    BY <1>1, <1>2, <1>3, <1>8, <2>2, <2>3, Sorted, Zenon
  <2>4. CASE hold /\ err' = TRUE /\ todo' = <<>> /\ rx' = rx
    <3>1. rx' \in 0..255
      BY <2>4 DEF BitsLeft
    <3> QED
      BY <1>1, <2>4, <3>1, GaveUp, Zenon
  <2> QED
    BY <2>1, <2>3, <2>4
<1>9. CASE ~Outs /\ ~Ins /\ rx = 0 /\ NoGet(todo)
  <2>1. /\ NoGet(todo') /\ rx' = rx
        /\ err' = err \/ (hold /\ err' = TRUE /\ todo' = <<>>)
    BY <1>9, NoGetGoesOn DEF BitsLeft
  <2>2. rx' \in 0..255
    BY <2>1 DEF BitsLeft
  <2>3. CASE err' = err
    BY <1>1, <1>2, <1>3, <1>9, <2>1, <2>2, <2>3, Sorted, Zenon
  <2>4. CASE hold /\ err' = TRUE /\ todo' = <<>>
    BY <1>1, <2>2, <2>4, GaveUp, Zenon
  <2> QED
    BY <2>1, <2>3, <2>4
<1> QED
  BY <1>3, <1>5, <1>6, <1>7, <1>8, <1>9 DEF BitsLeft

\* A call that begins.
LEMMA BitsCall ==
    ASSUME BitsLeft, todo' \in {CallOps', StartOps \o CallOps'}, rx' = 0, err' = FALSE,
           hold' = hold
    PROVE  BitsLeft'
<1>1. (CallOps \in Seq(Ops))'
  BY CallOpsSeq, PTL
<1>2. todo' \in Seq(Ops)
  BY <1>1, Starting
<1>4. rx' \in 0..255 /\ hold' \in BOOLEAN /\ (hold' => CanTimeout)
  <2>1. hold \in BOOLEAN /\ (hold => CanTimeout)
    BY Zenon DEF BitsLeft
  <2>2. rx' \in 0..255
    OBVIOUS
  <2> QED
    BY <2>1, <2>2, Zenon
<1>3. CASE todo' = CallOps'
  <2>1. (todo = CallOps /\ rx = 0)'
    BY <1>3
  <2>2. (\/ Outs /\ OutLeft(OutByte)
         \/ Ins /\ InLeft
         \/ ~Outs /\ ~Ins /\ rx = 0 /\ NoGet(todo))'
    BY <2>1, CallBegins, PTL
  <2> QED
    BY <1>2, <1>4, <2>2, Sorted, Zenon
<1>5. CASE todo' = StartOps \o CallOps'
  BY <1>2, <1>4, <1>5, Sorted, Zenon
<1> QED
  BY <1>3, <1>5

LEMMA BitsHardware == BitsLeft /\ Hardware => BitsLeft'
<1> SUFFICES ASSUME BitsLeft, Hardware PROVE BitsLeft'
  OBVIOUS
<1>1. UNCHANGED <<vars, todo, rx, err>> /\ hold' \in BOOLEAN /\ (hold' => CanTimeout)
  <2>1. hold \in BOOLEAN /\ (hold => CanTimeout)
    BY Zenon DEF BitsLeft
  <2>2. CASE Stretch
    BY <2>1, <2>2, Zenon DEF Stretch
  <2>3. CASE Release
    BY <2>1, <2>3, Zenon DEF Release
  <2>4. CASE Measure
    BY <2>1, <2>4, Zenon DEF Measure, wire
  <2> QED
    BY <2>2, <2>3, <2>4 DEF Hardware
<1>2. Outs' = Outs /\ Ins' = Ins /\ OutByte' = OutByte /\ CallOps' = CallOps
  BY <1>1, CallsKept
<1> QED
  BY <1>1, <1>2 DEF BitsLeft, OutLeft, InLeft

LEMMA BitsInit == WireInit => BitsLeft
<1> SUFFICES ASSUME WireInit PROVE BitsLeft
  OBVIOUS
<1>1. pc = "idle" /\ todo = <<>> /\ rx = 0 /\ err = FALSE /\ hold = FALSE
  BY DEF WireInit, Init
<1>2. ~Outs /\ ~Ins
  BY <1>1 DEF Outs, Ins
<1>3. <<>> \in Seq(Ops) /\ NoGet(<<>>)
  BY ShortCalls, ShortNoGet
<1>4. rx \in 0..255
  BY <1>1
<1> QED
  BY <1>1, <1>2, <1>3, <1>4, Zenon DEF BitsLeft

LEMMA BitsNext == BitsLeft /\ [WireNext]_wvars => BitsLeft'
<1> SUFFICES ASSUME BitsLeft, [WireNext]_wvars PROVE BitsLeft'
  OBVIOUS
<1>1. CASE LineOp
  BY <1>1, BitsLineOp
<1>2. CASE CallReturns
  BY <1>2, BitsCall DEF CallReturns, wire
<1>3. ASSUME NEW ms \in Transfers, Call(ms) PROVE BitsLeft'
  BY <1>3, BitsCall DEF Call, wire
<1>4. CASE Hardware
  BY <1>4, BitsHardware
<1>5. CASE UNCHANGED wvars
  <2>1. UNCHANGED <<vars, todo, rx, err, hold>>
    BY <1>5 DEF wvars
  <2>2. Outs' = Outs /\ Ins' = Ins /\ OutByte' = OutByte /\ CallOps' = CallOps
    BY <2>1, CallsKept
  <2> QED
    BY <2>1, <2>2 DEF BitsLeft, OutLeft, InLeft
<1> QED
  BY <1>1, <1>2, <1>3, <1>4, <1>5 DEF WireNext, Wire

\* What a call returns is what I2cXfer lets the bus answer.
LEMMA Returns ==
    ASSUME BitsLeft, todo = <<>>
    PROVE  /\ err => CanTimeout
           /\ Outs => Outb \in OutbResults
           /\ ~err => rx \in ReadValues
<1>1. (err => CanTimeout) /\ err \in BOOLEAN
  BY DEF BitsLeft
<1>2. rx \in ReadValues
  BY BytesAssumption DEF BitsLeft
<1>3. ASSUME Outs, ~err PROVE rx \in 0..1
  <2>1. ~Ins
    BY <1>3 DEF Outs, Ins
  <2>2. <<>> # StartOps \o CallOps /\ <<>> # SclThen(CallOps)
    BY CallOpsSeq, Starting
  <2>3. rx \in 0..1 \/ rx = 0
    BY <1>3, <2>1, <2>2 DEF BitsLeft, OutLeft
  <2> QED
    BY <2>3
<1>4. ASSUME Outs PROVE Outb \in OutbResults
  <2>1. CASE err
    BY <1>1, <2>1 DEF Outb, OutbResults
  <2>2. CASE ~err
    BY <1>3, <1>4, <2>2 DEF Outb, OutbResults
  <2> QED
    BY <2>1, <2>2
<1> QED
  BY <1>1, <1>2, <1>4

\* A call that returns is a step of bit_xfer().
LEMMA ReturnIsStep ==
    ASSUME BitsLeft, CallReturns
    PROVE  Master
<1>1. /\ err => CanTimeout
      /\ Outs => Outb \in OutbResults
      /\ ~err => rx \in ReadValues
  BY Returns DEF CallReturns
<1>2. CASE OutAddressBy(Outb) \/ SendByteBy(Outb)
  <2>1. Outs
    BY <1>2 DEF OutAddressBy, SendByteBy, Outs
  <2> QED
    BY <1>1, <1>2, <2>1 DEF Master, OutAddress, SendByte
<1>3. CASE RepStart \/ RepStartTen \/ RetryStop \/ RetryStart \/ DataDone \/ Stop
  BY <1>3 DEF Master
<1>4. CASE ReadTimeout \/ AckTimeout \/ NakTimeout \/ AckDone \/ NakBadLength
  BY <1>4 DEF Master, Ack, AckBadLength
<1>5. CASE ~err /\ ReadByte(rx)
  BY <1>1, <1>5 DEF Master
<1> QED
  BY <1>2, <1>3, <1>4, <1>5 DEF CallReturns

\* Each step on the wire is a step of the transfer or leaves it alone.
LEMMA WireStep == BitsLeft /\ [WireNext]_wvars => [Next]_vars
<1> SUFFICES ASSUME BitsLeft, [WireNext]_wvars PROVE [Next]_vars
  OBVIOUS
<1>1. CASE LineOp \/ Hardware \/ UNCHANGED wvars
  BY <1>1 DEF LineOp, Hardware, Stretch, Release, Measure, wvars
<1>2. CASE CallReturns
  BY <1>2, ReturnIsStep DEF Next
<1>3. ASSUME NEW ms \in Transfers, Call(ms) PROVE Next
  BY <1>3 DEF Call, Next
<1> QED
  BY <1>1, <1>2, <1>3 DEF WireNext, Wire

\* The safety part of ImplementsXfer: however the chip behaves, whatever control
\* messages are lost and however long SCL is held, the calls on the wire do to
\* the transfer what bit_xfer() does when the bus answers freely.
THEOREM WireIsXfer == WireSpec => Spec
<1>1. WireInit => Init
  BY DEF WireInit
<1> QED
  BY <1>1, BitsInit, BitsNext, WireStep, PTL DEF WireSpec, Spec

LEMMA WireInvariant == WireSpec => [](IInv /\ BitsLeft)
<1>1. WireSpec => []BitsLeft
  BY BitsInit, BitsNext, PTL DEF WireSpec
<1> QED
  BY <1>1, WireIsXfer, Invariant, PTL

\* What the transfer promises holds on the wire: one START and STOP per attempt,
\* a NAK before each, an honest result and no byte beyond a buffer.
THEOREM WireKeepsXfer ==
    WireSpec => [](BusFramed /\ ReadEndsWithNak /\ ResultHonest /\ BufferBound)
BY WireIsXfer, Framing, ReadsAreEnded, ResultsAreHonest, BuffersAreBounded, PTL

-----------------------------------------------------------------------------
(* The lines and the chip have their types.                                *)

\* A chip has the fields of one, and what it does leaves it a chip.
LEMMA ChipFields ==
    ASSUME NEW ch \in Chip
    PROVE  /\ ch.mode \in {"off", "addr", "ptr", "data", "send"}
           /\ ch.n \in -1..8 /\ ch.byte \in 0..255 /\ ch.ptr \in 0..3 /\ ch.cfg \in 0..255
           /\ ch.latch \in Word /\ ch.high \in BOOLEAN /\ ch.busy \in BOOLEAN
BY DEF Chip


LEMMA ChipMoves ==
    ASSUME NEW ch \in Chip
    PROVE  /\ Off(ch) \in Chip /\ Started(ch) \in Chip /\ Stopped(ch) \in Chip
           /\ \A b \in Level : Raised(ch, b) \in Chip
           /\ \A t \in Word : Lowered(ch, t) \in Chip
<1> DEFINE Modes == {"off", "addr", "ptr", "data", "send"}
           Bits  == -1..8
           Bytes == 0..255
           Ptrs  == 0..3
<1>1. Chip = [mode : Modes, n : Bits, byte : Bytes, ptr : Ptrs, cfg : Bytes,
              latch : Word, high : BOOLEAN, busy : BOOLEAN]
  BY DEF Chip
<1>2. {"off", "addr", "ptr", "data", "send"} \subseteq Modes /\ {-1, 0, 8} \subseteq Bits /\ 0 \in Bytes
  OBVIOUS
<1>3. \A x \in Int : x % 256 \in Bytes /\ x % 4 \in Ptrs
  OBVIOUS
<1>4. \A w \in Word : w \div 256 \in Bytes /\ w % 256 \in Bytes
  BY DEF Word
<1>5. \A n \in Bits : n < 7 => n + 1 \in Bits
  OBVIOUS
<1>6. Bytes \subseteq Int
  OBVIOUS
<1> HIDE DEF Modes, Bits, Bytes, Ptrs
<1>7. Off(ch) \in Chip
  BY <1>1, <1>2 DEF Off
<1>8. Started(ch) \in Chip /\ Stopped(ch) \in Chip
  BY <1>7, <1>1, <1>2 DEF Started, Stopped
<1>9. ASSUME NEW b \in Level PROVE Raised(ch, b) \in Chip
  <2>1. (2 * ch.byte + b) % 256 \in Bytes
    <3>1. 2 * ch.byte + b \in Int
      <4>1. ch.byte \in Bytes
        BY <1>1
      <4>2. ch.byte \in Int
        BY <1>6, <4>1
      <4> QED
        BY <4>2 DEF Level
    <3> QED
      BY <3>1, <1>3, Zenon
  <2> QED
    BY <1>7, <1>1, <2>1 DEF Raised
<1>10. ASSUME NEW t \in Word PROVE Lowered(ch, t) \in Chip
  <2>1. \A l \in Word, h \in BOOLEAN : Register(ch, l, h) \in Bytes
    BY <1>1, <1>2, <1>4 DEF Register
  <2>2. ByteIn(ch) \in Chip
    <3>1. ch.byte % 4 \in Ptrs
      BY <1>1, <1>3, <1>6
    <3> QED
      BY <1>7, <1>1, <1>2, <3>1 DEF ByteIn
  <2>3. NextByte(ch, t) \in Chip
    <3>1. Register(ch, t, TRUE) \in Bytes /\ Register(ch, ch.latch, ch.high) \in Bytes
      BY <1>1, <1>10, <2>1
    <3> QED
      BY <1>1, <1>2, <1>10, <3>1 DEF NextByte
  <2>4. ch.n < 7 => [ch EXCEPT !.n = @ + 1] \in Chip
    BY <1>1, <1>5
  <2>5. ch.n < 7 \/ ch.n = 7 \/ ch.n = 8
    BY <1>1 DEF Bits
  <2>6. ch \in Chip
    OBVIOUS
  <2> QED
    BY <2>2, <2>3, <2>4, <2>5, <2>6 DEF Lowered
<1> QED
  BY <1>7, <1>8, <1>9, <1>10

LEMMA LinesMove ==
    ASSUME NEW p \in Lines, NEW ch \in Chip, NEW b \in Level, temp \in Word
    PROVE  /\ SdaOf(p.sda, ch) \in Level
           /\ SdaMoved(p, ch, b) \in Chip
           /\ SclMoved(p, ch, b) \in Chip
<1>1. SdaOf(p.sda, ch) \in Level
  BY DEF SdaOf, Level
<1> QED
  BY <1>1, ChipMoves DEF SdaMoved, SclMoved

\* The variables the bits do not need.
LinesOK ==
    /\ control \in Lines /\ pins \in Lines
    /\ chip \in Chip
    /\ temp \in Temps
    /\ lost \in 0..MaxLost
    /\ held \in 0..MaxHeld

LEMMA SetLinesOK ==
    ASSUME LinesOK, NEW p \in Lines, SetLines(p), temp' = temp
    PROVE  LinesOK'
<1>1. temp \in Word /\ MaxLost \in Nat /\ lost \in Nat
  BY TempsAssumption, BoundsAssumption DEF LinesOK
<1>2. lost' \in 0..MaxLost
  BY <1>1 DEF LinesOK, SetLines
<1>3. CASE Drive(p)
  <2>1. /\ [pins EXCEPT !.sda = p.sda] \in Lines /\ [pins EXCEPT !.scl = p.scl] \in Lines
        /\ p.sda \in Level /\ p.scl \in Level
    BY DEF LinesOK, Lines
  <2>2. chip' \in Chip
    <3>1. SdaMoved(pins, chip, p.sda) \in Chip /\ SclMoved(pins, chip, p.scl) \in Chip
      BY <1>1, <2>1, LinesMove DEF LinesOK
    <3> QED
      BY <1>1, <1>3, <2>1, <3>1, LinesMove DEF Drive
  <2> QED
    BY <1>2, <1>3, <2>2 DEF LinesOK, SetLines, Drive
<1>4. CASE UNCHANGED <<pins, chip>>
  BY <1>2, <1>4 DEF LinesOK, SetLines
<1> QED
  BY <1>3, <1>4 DEF SetLines

LEMMA LinesNext == LinesOK /\ [WireNext]_wvars => LinesOK'
<1> SUFFICES ASSUME LinesOK, [WireNext]_wvars PROVE LinesOK'
  OBVIOUS
<1>1. temp \in Word /\ MaxHeld \in Nat /\ held \in Nat
  BY TempsAssumption, BoundsAssumption DEF LinesOK
<1>2. CASE LineOp
  <2>1. \A b \in {0, 1} : [control EXCEPT !.sda = b] \in Lines /\ [control EXCEPT !.scl = b] \in Lines
    BY DEF LinesOK, Lines, Level
  <2>2. ASSUME NEW p \in Lines, SetLines(p) PROVE LinesOK'
    BY <1>2, <2>2, SetLinesOK DEF LineOp
  <2>3. CASE Head(todo) \in {"wait", "wait_or_fail"}
    <3>1. held' \in 0..MaxHeld
      BY <1>1, <1>2, <2>3 DEF LinesOK, LineOp
    <3> QED
      BY <1>2, <2>3, <3>1 DEF LinesOK, LineOp
  <2> QED
    BY <1>2, <2>1, <2>2, <2>3 DEF LineOp
<1>3. CASE Release
  <2>1. WireSda \in Level
    BY DEF WireSda, SdaOf, Level
  <2>2. chip' \in Chip
    BY <1>3, <2>1, ChipMoves DEF Release, LinesOK
  <2> QED
    BY <1>3, <2>2 DEF Release, LinesOK
<1>4. CASE Measure
  BY <1>4 DEF Measure, wire, LinesOK
<1>5. CASE UNCHANGED <<control, pins, chip, temp, lost, held>>
  BY <1>5 DEF LinesOK
<1> QED
  BY <1>2, <1>3, <1>4, <1>5
  DEF WireNext, Wire, CallReturns, Call, Hardware, Stretch, wire, wvars

LEMMA LinesInit == WireInit => LinesOK
<1> SUFFICES ASSUME WireInit PROVE LinesOK
  OBVIOUS
<1>1. High \in Lines
  BY DEF High, Lines, Level
<1>2. PoweredUp \in Chip
  <2>1. 0 \in Word
    BY DEF Word
  <2> QED
    BY <2>1 DEF PoweredUp, Chip
<1>3. 0 \in 0..MaxLost /\ 0 \in 0..MaxHeld
  BY BoundsAssumption
<1> QED
  BY <1>1, <1>2, <1>3 DEF WireInit, LinesOK

\* The lines, the bits and the chip have their types, whatever is lost or held.
THEOREM WireTypeCorrect == WireSpec => []WireTypeOK
<1>1. BitsLeft /\ LinesOK => WireTypeOK
  BY DEF BitsLeft, LinesOK, WireTypeOK
<1> QED
  BY <1>1, WireInvariant, LinesInit, LinesNext, PTL DEF WireSpec

-----------------------------------------------------------------------------
(* Each line operation, while nothing disturbs it.                         *)

\* No control message is lost and sclhi() does not give up.
Undisturbed == UNCHANGED <<lost, held>>

LEMMA Types ==
    LinesOK => /\ pins.sda \in Level /\ pins.scl \in Level
               /\ pins = [sda |-> pins.sda, scl |-> pins.scl]
               /\ temp \in Word
               /\ lost \in Nat /\ held \in Nat /\ MaxLost \in Nat /\ MaxHeld \in Nat
BY TempsAssumption, BoundsAssumption DEF LinesOK, Lines

\* A message that arrives moves the lines and tells the chip.
LEMMA Arrives ==
    ASSUME LinesOK, Undisturbed, NEW p, SetLines(p)
    PROVE  control' = p /\ Drive(p) /\ hold' = hold
BY Types DEF SetLines, Undisturbed

\* One line moves.
LEMMA SdaStep ==
    ASSUME LinesOK, Steady, Undisturbed, LineOp, NEW b \in Level, NEW z \in Seq(Ops),
           todo = <<SetSda(b)>> \o z
    PROVE  /\ UNCHANGED <<vars, hold, temp, rx, err>> /\ todo' = z
           /\ control' = pins' /\ pins' = [sda |-> b, scl |-> pins.scl]
           /\ chip' = SdaMoved(pins, chip, b)
<1>1. SetSda(b) = (IF b = 1 THEN "sda1" ELSE "sda0") /\ SetSda(b) \in Ops
  BY DEF SetSda, Ops
<1>2. Head(todo) = SetSda(b) /\ Tail(todo) = z
  BY <1>1, Cons
<1>3. /\ SetLines([control EXCEPT !.sda = IF Head(todo) = "sda1" THEN 1 ELSE 0])
      /\ todo' = Tail(todo) /\ UNCHANGED <<vars, temp, rx, err>>
  BY <1>1, <1>2 DEF LineOp
<1>4. (IF Head(todo) = "sda1" THEN 1 ELSE 0) = b
  BY <1>1, <1>2 DEF Level
<1>5. [pins EXCEPT !.sda = b] = [sda |-> b, scl |-> pins.scl]
  BY Types
<1> DEFINE p == [sda |-> b, scl |-> pins.scl]
<1>6. control' = p /\ Drive(p) /\ hold' = hold
  BY <1>3, <1>4, <1>5, Arrives DEF Steady
<1>7. p.sda = b /\ p.scl = pins.scl /\ [pins EXCEPT !.scl = p.scl] = pins
  BY Types
<1>8. [pins EXCEPT !.sda = p.sda] = p
  BY <1>5
<1>9. SclMoved(p, SdaMoved(pins, chip, b), pins.scl) = SdaMoved(pins, chip, b)
  BY <1>7 DEF SclMoved
<1>10. SclMoved(pins, chip, pins.scl) = chip
  BY DEF SclMoved
<1>11. pins' = p /\ chip' = SdaMoved(pins, chip, b)
  <2> HIDE DEF p
  <2> QED
    BY <1>6, <1>7, <1>8, <1>9, <1>10 DEF Drive
<1> QED
  BY <1>2, <1>3, <1>6, <1>11

LEMMA SclStep ==
    ASSUME LinesOK, Steady, Undisturbed, LineOp, NEW z \in Seq(Ops),
           NEW x \in {"scl0", "scl1"}, NEW b \in Level, b = (IF x = "scl1" THEN 1 ELSE 0),
           todo = <<x>> \o z
    PROVE  /\ UNCHANGED <<vars, hold, temp, rx, err>> /\ todo' = z
           /\ control' = pins' /\ pins' = [sda |-> pins.sda, scl |-> b]
           /\ chip' = SclMoved(pins, chip, b)
<1>2. Head(todo) = x /\ Tail(todo) = z
  BY Cons DEF Ops
<1>3. /\ SetLines([control EXCEPT !.scl = IF Head(todo) = "scl1" THEN 1 ELSE 0])
      /\ todo' = Tail(todo) /\ UNCHANGED <<vars, temp, rx, err>>
  BY <1>2 DEF LineOp
<1>5. [pins EXCEPT !.scl = b] = [sda |-> pins.sda, scl |-> b]
  BY Types
<1> DEFINE p == [sda |-> pins.sda, scl |-> b]
<1>6. control' = p /\ Drive(p) /\ hold' = hold
  BY <1>2, <1>3, <1>5, Arrives DEF Steady
<1>7. p.scl = b /\ p.sda = pins.sda /\ [pins EXCEPT !.sda = p.sda] = pins
  BY Types
<1>8. [pins EXCEPT !.scl = p.scl] = p
  BY <1>5
<1>9. SdaMoved(p, SclMoved(pins, chip, b), pins.sda) = SclMoved(pins, chip, b)
  BY <1>7 DEF SdaMoved
<1>10. SdaMoved(pins, chip, pins.sda) = chip
  BY DEF SdaMoved
<1>11. pins' = p /\ chip' = SclMoved(pins, chip, b)
  <2> HIDE DEF p
  <2> QED
    BY <1>6, <1>7, <1>8, <1>9, <1>10 DEF Drive
<1> QED
  BY <1>2, <1>3, <1>6, <1>11

\* sclhi() waits while the chip holds SCL.
LEMMA WaitStep ==
    ASSUME LinesOK, Steady, Undisturbed, LineOp, NEW z \in Seq(Ops),
           NEW w \in {"wait", "wait_or_fail"}, todo = <<w>> \o z
    PROVE  /\ UNCHANGED <<vars, hold, temp, rx, err, control, pins, chip>>
           /\ todo' = z /\ ~hold
<1>1. Head(todo) = w /\ Tail(todo) = z
  BY Cons DEF Ops
<1>2. hold => held < MaxHeld
  BY DEF Steady
<1>3. ~(hold /\ held' = (IF held < MaxHeld THEN held + 1 ELSE held))
  BY <1>2, Types DEF Undisturbed
<1> QED
  BY <1>1, <1>3 DEF LineOp

\* temper_getsda() on a line that is let go already.
LEMMA GetStep ==
    ASSUME LinesOK, Steady, Undisturbed, LineOp, NEW z \in Seq(Ops), NEW s \in Level,
           todo = GetThen(z), pins = [sda |-> 1, scl |-> s]
    PROVE  /\ UNCHANGED <<vars, hold, temp, err, control, pins, chip>>
           /\ todo' = SclThen(z) /\ rx' = 2 * rx + SdaOf(1, chip)
<1>1. SclThen(z) \in Seq(Ops) /\ "get" \in Ops
  BY ThenOps DEF Ops
<1>2. Head(todo) = "get" /\ Tail(todo) = SclThen(z)
  BY <1>1, Cons DEF GetThen
<1>3. /\ SetLines([control EXCEPT !.sda = 1])
      /\ rx' = 2 * rx + WireSda'
      /\ todo' = Tail(todo) /\ UNCHANGED <<vars, temp, err>>
  BY <1>2 DEF LineOp
<1>4. [control EXCEPT !.sda = 1] = pins
  BY DEF Steady
<1>5. control' = pins /\ Drive(pins) /\ hold' = hold
  BY <1>3, <1>4, Arrives
<1>6. SdaMoved(pins, chip, pins.sda) = chip /\ SclMoved(pins, chip, pins.scl) = chip
  BY DEF SdaMoved, SclMoved
<1>7. [pins EXCEPT !.sda = pins.sda] = pins /\ [pins EXCEPT !.scl = pins.scl] = pins
  OBVIOUS
<1>8. pins' = pins /\ chip' = chip
  BY <1>5, <1>6, <1>7 DEF Drive
<1>9. WireSda' = SdaOf(1, chip)
  BY <1>8 DEF WireSda
<1> QED
  BY <1>2, <1>3, <1>5, <1>8, <1>9 DEF Steady

\* What a step inside a call leaves alone.
Kept == UNCHANGED <<vars, hold, temp, err>> /\ control' = pins'

\* SDA moves while SCL is low: the chip does not look.
LEMMA DownSda ==
    ASSUME LinesOK, Steady, Undisturbed, LineOp, NEW z \in Seq(Ops),
           NEW cell, NEW d \in Level, NEW b \in Level,
           Down(cell, d), todo = <<SetSda(b)>> \o z
    PROVE  Down(cell, b)' /\ todo' = z /\ rx' = rx /\ Kept
<1>1. pins.scl = 0 /\ chip = cell
  BY DEF Down
<1>2. SdaMoved(pins, chip, b) = cell
  BY <1>1 DEF SdaMoved
<1>3. /\ UNCHANGED <<vars, hold, temp, rx, err>> /\ todo' = z
      /\ control' = pins' /\ pins' = [sda |-> b, scl |-> pins.scl]
      /\ chip' = SdaMoved(pins, chip, b)
  BY SdaStep
<1> QED
  BY <1>1, <1>2, <1>3 DEF Down, Kept

\* SCL rises, and then has risen.
LEMMA PulseStep ==
    ASSUME LinesOK, Steady, Undisturbed, LineOp, NEW z \in Seq(Ops),
           NEW w \in {"wait", "wait_or_fail"}, NEW cell \in Chip, NEW d \in Level,
           Pulse(cell, d, w, z)
    PROVE  \/ Pulse(cell, d, w, z)' /\ rx' = rx /\ Kept
           \/ todo = z /\ Up(cell, d)
<1>1. CASE todo = PulseOps(w, z) /\ Down(cell, d)
  <2>1. WaitThen(w, z) \in Seq(Ops) /\ PulseOps(w, z) = <<"scl1">> \o WaitThen(w, z)
    BY Pulses DEF PulseOps
  <2>2. /\ UNCHANGED <<vars, hold, temp, rx, err>> /\ todo' = WaitThen(w, z)
        /\ control' = pins' /\ pins' = [sda |-> pins.sda, scl |-> 1]
        /\ chip' = SclMoved(pins, chip, 1)
    BY <1>1, <2>1, SclStep DEF Level
  <2>3. pins.sda = d /\ pins.scl = 0 /\ chip = cell
    BY <1>1 DEF Down
  <2>4. chip' = IF hold' THEN cell ELSE Raised(cell, SdaOf(d, cell))
    BY <2>2, <2>3 DEF SclMoved
  <2>5. Rising(cell, d)'
    BY <2>2, <2>3, <2>4 DEF Rising
  <2>6. CASE CanTimeout
    BY <2>2, <2>5, <2>6 DEF Pulse, Kept, WaitThen
  <2>7. CASE ~CanTimeout
    <3>1. ~hold'
      BY <2>2, <2>7 DEF Steady
    <3>2. todo' = z
      BY <2>2, <2>7 DEF WaitThen
    <3> QED
      BY <2>2, <2>5, <3>1, <3>2 DEF Pulse, Kept, Up
  <2> QED
    BY <2>6, <2>7
<1>2. CASE CanTimeout /\ todo = <<w>> \o z /\ Rising(cell, d)
  <2>1. /\ UNCHANGED <<vars, hold, temp, rx, err, control, pins, chip>>
        /\ todo' = z /\ ~hold
    BY <1>2, WaitStep
  <2>2. Up(cell, d)'
    BY <1>2, <2>1 DEF Up, Rising
  <2> QED
    BY <2>1, <2>2 DEF Pulse, Kept, Steady
<1> QED
  BY <1>1, <1>2 DEF Pulse

\* SCL falls.
LEMMA Fall ==
    ASSUME LinesOK, Steady, Undisturbed, LineOp, NEW z \in Seq(Ops),
           NEW cell \in Chip, NEW d \in Level, Up(cell, d), todo = SclThen(z)
    PROVE  /\ todo' = z /\ rx' = rx /\ Kept
           /\ \E low \in Chip :
                 low = Lowered(Raised(cell, SdaOf(d, cell)), temp) /\ Down(low, d)'
<1>1. /\ UNCHANGED <<vars, hold, temp, rx, err>> /\ todo' = z
      /\ control' = pins' /\ pins' = [sda |-> pins.sda, scl |-> 0]
      /\ chip' = SclMoved(pins, chip, 0)
  BY SclStep DEF SclThen, Level
<1>2. pins.scl = 1 /\ pins.sda = d /\ ~hold /\ chip = Raised(cell, SdaOf(d, cell))
  BY DEF Up, Rising
<1>3. chip' = Lowered(Raised(cell, SdaOf(d, cell)), temp)
  BY <1>1, <1>2 DEF SclMoved
<1>4. SdaOf(d, cell) \in Level /\ temp \in Word
  BY Types DEF SdaOf, Level
<1>5. Lowered(Raised(cell, SdaOf(d, cell)), temp) \in Chip
  BY <1>4, ChipMoves
<1>6. PICK low \in Chip : low = Lowered(Raised(cell, SdaOf(d, cell)), temp)
  BY <1>5
<1>7. Down(low, d)'
  BY <1>1, <1>2, <1>3, <1>6 DEF Down
<1> QED
  BY <1>1, <1>6, <1>7 DEF Kept

\* A START and a STOP on a bus where nobody pulls SDA.
LEMMA StartStep ==
    ASSUME LinesOK, Steady, Undisturbed, LineOp, NEW z \in Seq(Ops),
           pins = High, ~hold, ~Pulls(chip), todo = <<"sda0">> \o z,
           chip \in Chip
    PROVE  Begun' /\ todo' = z /\ rx' = rx /\ Kept
<1>1. SetSda(0) = "sda0" /\ 0 \in Level
  BY DEF SetSda, Level
<1>2. /\ UNCHANGED <<vars, hold, temp, rx, err>> /\ todo' = z
      /\ control' = pins' /\ pins' = [sda |-> 0, scl |-> pins.scl]
      /\ chip' = SdaMoved(pins, chip, 0)
  BY <1>1, SdaStep
<1>3. pins.scl = 1 /\ pins.sda = 1
  BY DEF High
<1>4. chip' = Started(chip)
  BY <1>2, <1>3 DEF SdaMoved, SdaOf
<1>5. /\ chip'.mode = "addr" /\ chip'.n = -1 /\ chip'.byte = 0 /\ chip'.busy
  <2>1. Off(chip) \in Chip
    BY ChipMoves
  <2>2. Off(chip).n = -1 /\ Off(chip).byte = 0
    BY DEF Off, Chip
  <2> QED
    BY <1>4, <2>1, <2>2 DEF Started, Chip
<1> QED
  BY <1>2, <1>3, <1>5 DEF Begun, Kept

LEMMA StopStep ==
    ASSUME LinesOK, Steady, Undisturbed, LineOp, NEW z \in Seq(Ops),
           pins = [sda |-> 0, scl |-> 1], ~hold, ~Pulls(chip), todo = <<"sda1">> \o z,
           chip \in Chip
    PROVE  Free' /\ todo' = z /\ rx' = rx /\ Kept
<1>1. SetSda(1) = "sda1" /\ 1 \in Level
  BY DEF SetSda, Level
<1>2. /\ UNCHANGED <<vars, hold, temp, rx, err>> /\ todo' = z
      /\ control' = pins' /\ pins' = [sda |-> 1, scl |-> pins.scl]
      /\ chip' = SdaMoved(pins, chip, 1)
  BY <1>1, SdaStep
<1>3. pins.scl = 1 /\ pins.sda = 0
  OBVIOUS
<1>4. chip' = Stopped(chip)
  BY <1>2, <1>3 DEF SdaMoved, SdaOf
<1>5. chip'.mode = "off" /\ ~chip'.busy
  <2>1. Off(chip) \in Chip
    BY ChipMoves
  <2>2. Off(chip).mode = "off"
    BY DEF Off, Chip
  <2> QED
    BY <1>4, <2>1, <2>2 DEF Stopped, Chip
<1> QED
  BY <1>2, <1>3, <1>5 DEF Free, Kept, High

\* The first fall of SCL after a START.
LEMMA BegunFalls ==
    ASSUME LinesOK, Steady, Undisturbed, LineOp, NEW z \in Seq(Ops),
           Begun, todo = SclThen(z)
    PROVE  /\ todo' = z /\ rx' = rx /\ Kept
           /\ \E cell \in Chip :
                 /\ Down(cell, 0)' /\ cell.busy
                 /\ cell.mode = "addr" /\ cell.n = 0 /\ cell.byte = 0
<1>1. /\ UNCHANGED <<vars, hold, temp, rx, err>> /\ todo' = z
      /\ control' = pins' /\ pins' = [sda |-> pins.sda, scl |-> 0]
      /\ chip' = SclMoved(pins, chip, 0)
  BY SclStep DEF SclThen, Level
<1>2. pins.scl = 1 /\ pins.sda = 0 /\ ~hold
  BY DEF Begun
<1>3. chip' = Lowered(chip, temp)
  BY <1>1, <1>2 DEF SclMoved
<1>4. chip \in Chip /\ temp \in Word
  BY Types DEF LinesOK
<1>5. chip' \in Chip
  BY <1>3, <1>4, ChipMoves
<1>6. chip' = [chip EXCEPT !.n = @ + 1]
  BY <1>3 DEF Lowered, Begun
<1>7. chip'.busy /\ chip'.mode = "addr" /\ chip'.n = 0 /\ chip'.byte = 0
  BY <1>4, <1>6 DEF Begun, Chip
<1>8. PICK cell \in Chip : chip' = cell
  BY <1>5
<1>9. Down(cell, 0)'
  BY <1>1, <1>2, <1>8 DEF Down
<1> QED
  BY <1>1, <1>7, <1>8, <1>9 DEF Kept

-----------------------------------------------------------------------------
(* What the chip makes of one pulse of SCL.                                *)


\* A bit of a byte is a bit.
LEMMA Bit == \A c \in 0..255, n \in 0..7 : BitOf(c, n) \in Level
<1> SUFFICES ASSUME NEW c \in 0..255, NEW n \in 0..7 PROVE BitOf(c, n) \in Level
  OBVIOUS
<1>1. n \in {0, 1, 2, 3, 4, 5, 6, 7}
  OBVIOUS
<1> QED
  BY <1>1 DEF BitOf, Level

\* The bits of a byte, the highest first.
LEMMA Bits ==
    ASSUME NEW c \in 0..255, NEW n \in 0..7
    PROVE  /\ 2 * (c \div 2^(8 - n)) + BitOf(c, n) = c \div 2^(8 - (n + 1))
           /\ c \div 2^(8 - (n + 1)) \in 0..255
           /\ BitOf(c, n) \in Level
<1>1. BitOf(c, n) \in Level
  BY Bit
<1>2. CASE n = 0
  <2>1. 2^(8 - n) = 256 /\ 2^(7 - n) = 128 /\ 2^(8 - (n + 1)) = 128
    BY <1>2, Powers
  <2> QED
    BY <1>1, <2>1 DEF BitOf
<1>3. CASE n = 1
  <2>1. 2^(8 - n) = 128 /\ 2^(7 - n) = 64 /\ 2^(8 - (n + 1)) = 64
    BY <1>3, Powers
  <2> QED
    BY <1>1, <2>1 DEF BitOf
<1>4. CASE n = 2
  <2>1. 2^(8 - n) = 64 /\ 2^(7 - n) = 32 /\ 2^(8 - (n + 1)) = 32
    BY <1>4, Powers
  <2> QED
    BY <1>1, <2>1 DEF BitOf
<1>5. CASE n = 3
  <2>1. 2^(8 - n) = 32 /\ 2^(7 - n) = 16 /\ 2^(8 - (n + 1)) = 16
    BY <1>5, Powers
  <2> QED
    BY <1>1, <2>1 DEF BitOf
<1>6. CASE n = 4
  <2>1. 2^(8 - n) = 16 /\ 2^(7 - n) = 8 /\ 2^(8 - (n + 1)) = 8
    BY <1>6, Powers
  <2> QED
    BY <1>1, <2>1 DEF BitOf
<1>7. CASE n = 5
  <2>1. 2^(8 - n) = 8 /\ 2^(7 - n) = 4 /\ 2^(8 - (n + 1)) = 4
    BY <1>7, Powers
  <2> QED
    BY <1>1, <2>1 DEF BitOf
<1>8. CASE n = 6
  <2>1. 2^(8 - n) = 4 /\ 2^(7 - n) = 2 /\ 2^(8 - (n + 1)) = 2
    BY <1>8, Powers
  <2> QED
    BY <1>1, <2>1 DEF BitOf
<1>9. CASE n = 7
  <2>1. 2^(8 - n) = 2 /\ 2^(7 - n) = 1 /\ 2^(8 - (n + 1)) = 1
    BY <1>9, Powers
  <2> QED
    BY <1>1, <2>1 DEF BitOf
<1> QED
  BY <1>2, <1>3, <1>4, <1>5, <1>6, <1>7, <1>8, <1>9

LEMMA AllBits ==
    ASSUME NEW c \in 0..255
    PROVE  c \div 2^(8 - 0) = 0 /\ c \div 2^(8 - 8) = c
<1>1. 8 - 0 = 8 /\ 8 - 8 = 0
  OBVIOUS
<1>2. c \div 256 = 0 /\ c \div 1 = c
  OBVIOUS
<1> QED
  BY <1>1, <1>2, Powers

\* A bit that is sent is shifted in; the last one completes the byte.
LEMMA BitHeard ==
    ASSUME NEW cell \in Chip, NEW c \in 0..255, NEW n \in 0..7,
           Listens(cell, n, c \div 2^(8 - n)), NEW t \in Word
    PROVE  LET low == Lowered(Raised(cell, SdaOf(BitOf(c, n), cell)), t)
           IN  /\ n < 7 => Listens(low, n + 1, c \div 2^(8 - (n + 1)))
               /\ n = 7 => Answers(low, c)
<1> DEFINE up  == Raised(cell, SdaOf(BitOf(c, n), cell))
           low == Lowered(up, t)
           all == c \div 2^(8 - (n + 1))
<1>1. BitOf(c, n) \in Level /\ all \in 0..255 /\ 2 * (c \div 2^(8 - n)) + BitOf(c, n) = all
  BY Bits
<1>2. n = 7 => all = c
  BY AllBits
<1>3. SdaOf(BitOf(c, n), cell) \in Level
  BY DEF SdaOf, Level
<1>4. up \in Chip
  BY <1>3, ChipMoves
<1>5. CASE cell.mode = "off"
  <2>1. up = cell /\ low = cell
    BY <1>5 DEF Raised, Lowered
  <2> QED
    BY <1>5, <2>1 DEF Listens, Listener, Answers, Deaf
<1>6. CASE Listener(cell) /\ cell.n = n /\ cell.byte = c \div 2^(8 - n)
  <2>1. cell.mode \in {"addr", "ptr", "data"} /\ cell.n \in 0..7
    BY <1>6 DEF Listener
  <2>2. ~Pulls(cell)
    BY <1>6, <2>1 DEF Pulls
  <2>3. SdaOf(BitOf(c, n), cell) = BitOf(c, n)
    BY <1>1, <2>2 DEF SdaOf, Level
  <2>4. (2 * cell.byte + BitOf(c, n)) % 256 = all
    <3>1. 2 * cell.byte + BitOf(c, n) = all
      BY <1>1, <1>6
    <3>2. all % 256 = all
      <4> HIDE DEF all
      <4> QED
        BY <1>1
    <3> QED
      BY <3>1, <3>2
  <2>5. up = [cell EXCEPT !.byte = all]
    BY <2>1, <2>3, <2>4 DEF Raised
  <2> HIDE DEF all
  <2>6. /\ up.mode = cell.mode /\ up.n = n /\ up.byte = all /\ up.busy = cell.busy
        /\ up.ptr = cell.ptr
    BY <1>6, <2>5 DEF Chip
  <2>7. cell.busy
    BY DEF Listens
  <2> HIDE DEF up
  <2>8. CASE n < 7
    <3>1. low = [up EXCEPT !.n = @ + 1]
      BY <2>1, <2>6, <2>8 DEF Lowered
    <3>2. low.mode = up.mode /\ low.n = n + 1 /\ low.byte = all /\ low.busy
      BY <1>4, <2>6, <2>7, <3>1 DEF Chip
    <3> HIDE DEF low
    <3>3. Listens(low, n + 1, all)
      BY <1>6, <2>6, <3>2 DEF Listens, Listener
    <3> QED
      BY <2>8, <3>3 DEF low, up, all
  <2>9. CASE n = 7
    <3>1. low = ByteIn(up)
      BY <2>1, <2>6, <2>9 DEF Lowered
    <3>2. all = c
      BY <1>2, <2>9
    <3>3. CASE up.mode = "addr" /\ up.byte \notin {WriteAddress, ReadingAddress}
      <4>1. low = Off(up)
        BY <3>1, <3>3 DEF ByteIn
      <4>2. low.mode = "off" /\ low.busy = up.busy
        BY <1>4, <4>1 DEF Off, Chip
      <4>3. pc = "addr"
        BY <1>6, <2>6, <3>3 DEF Listener
      <4> QED
        BY <2>6, <2>7, <3>2, <3>3, <4>2, <4>3, <2>9 DEF Answers, Deaf, up
    <3>4. CASE ~(up.mode = "addr" /\ up.byte \notin {WriteAddress, ReadingAddress})
      <4>1. low.mode = up.mode /\ low.n = 8 /\ low.byte = up.byte /\ low.busy = up.busy
        BY <1>4, <3>1, <3>4 DEF ByteIn, Chip
      <4>2. Listener(low)
        BY <1>6, <2>6, <4>1 DEF Listener
      <4>3. pc = "addr" => c \in {WriteAddress, ReadingAddress}
        BY <1>6, <2>6, <3>2, <3>4 DEF Listener
      <4> HIDE DEF low
      <4>4. Answers(low, c)
        BY <2>6, <2>7, <3>2, <4>1, <4>2, <4>3 DEF Answers
      <4> QED
        BY <2>9, <4>4 DEF low, up
    <3> QED
      BY <3>3, <3>4
  <2> QED
    BY <2>8, <2>9 DEF all
<1> QED
  BY <1>5, <1>6 DEF Listens

\* The acknowledge of a byte: it is read, and the chip goes on.
LEMMA AckHeard ==
    ASSUME NEW cell \in Chip, NEW c \in 0..255, Answers(cell, c), NEW t \in Word
    PROVE  LET up == Raised(cell, SdaOf(1, cell))
           IN  /\ SdaOf(1, up) = SdaOf(1, cell)
               /\ rx = SdaOf(1, cell) => Answered(Lowered(up, t), c)
<1> DEFINE up == Raised(cell, SdaOf(1, cell))
           low == Lowered(cell, t)
<1>1. up = cell
  BY DEF Answers, Deaf, Listener, Raised
<1>2. CASE Deaf(cell, c)
  <2>1. ~Pulls(cell) /\ low = cell
    BY <1>2 DEF Deaf, Pulls, Lowered
  <2>2. SdaOf(1, cell) = 1
    BY <2>1 DEF SdaOf
  <2> QED
    BY <1>1, <1>2, <2>1, <2>2 DEF Answered, Answers
<1>3. CASE /\ Listener(cell) /\ cell.n = 8 /\ cell.byte = c
           /\ pc = "addr" => c \in {WriteAddress, ReadingAddress}
  <2>1. Pulls(cell) /\ cell.busy
    BY <1>3 DEF Pulls, Listener, Answers
  <2>2. SdaOf(1, cell) = 0
    BY <2>1 DEF SdaOf
  <2>3. low = NextByte(cell, t)
    BY <1>3 DEF Lowered, Listener
  <2>4. CASE pc = "addr"
    <3>1. cell.mode = "addr" /\ phase # "x2" /\ c \in {WriteAddress, ReadingAddress}
      BY <1>3, <2>4 DEF Listener
    <3>2. /\ low.n = 0 /\ low.busy
          /\ low.mode = IF c = WriteAddress THEN "ptr" ELSE "send"
          /\ low.mode # "send" => low.byte = 0
      BY <1>3, <2>1, <2>3, <3>1 DEF NextByte, Chip, WriteAddress, ReadingAddress
    <3> HIDE DEF low
    <3>3. rx = 0 => Answered(low, c)
      BY <2>4, <3>1, <3>2 DEF Answered
    <3> QED
      BY <1>1, <2>2, <3>3 DEF low
  <2>5. CASE pc # "addr"
    <3>1. cell.mode \in {"ptr", "data"}
      BY <1>3, <2>5 DEF Listener
    <3>2. low.n = 0 /\ low.busy /\ low.mode = "data" /\ low.byte = 0
      BY <2>1, <2>3, <3>1 DEF NextByte, Chip
    <3> HIDE DEF low
    <3>3. rx = 0 => Answered(low, c)
      BY <2>5, <3>2 DEF Answered
    <3> QED
      BY <1>1, <2>2, <3>3 DEF low
  <2> QED
    BY <2>4, <2>5
<1> QED
  BY <1>2, <1>3 DEF Answers

\* A bit that the chip sends, and what of the byte the master then has.
LEMMA BitSent ==
    ASSUME NEW cell \in Chip, NEW n \in 0..7, Sends(cell, n), NEW t \in Word
    PROVE  LET up  == Raised(cell, SdaOf(1, cell))
               low == Lowered(up, t)
           IN  /\ Sends(low, n + 1)
               /\ talking => low.byte = cell.byte
               /\ talking => SdaOf(1, up) = BitOf(cell.byte, n)
<1>1. Raised(cell, SdaOf(1, cell)) = cell
  BY DEF Sends, Raised
<1>2. cell.byte \in 0..255
  BY ChipFields
<1>3. BitOf(cell.byte, n) \in Level
  BY <1>2, Bit
<1> DEFINE low == Lowered(cell, t)
<1>4. CASE talking
  <2>1. cell.mode = "send" /\ cell.n = n /\ cell.busy
    BY <1>4 DEF Sends
  <2>2. low.mode = "send" /\ low.n = n + 1 /\ low.busy /\ low.byte = cell.byte
    <3>1. CASE n < 7
      <4>1. low = [cell EXCEPT !.n = @ + 1]
        BY <2>1, <3>1 DEF Lowered
      <4> QED
        BY <2>1, <4>1 DEF Chip
    <3>2. CASE n = 7
      <4>1. low = [cell EXCEPT !.n = 8]
        BY <2>1, <3>2 DEF Lowered, ByteIn
      <4> QED
        BY <2>1, <3>2, <4>1 DEF Chip
    <3> QED
      BY <3>1, <3>2
  <2>3. SdaOf(1, cell) = BitOf(cell.byte, n)
    BY <1>3, <2>1 DEF SdaOf, Pulls, Level
  <2> HIDE DEF low
  <2>4. Sends(low, n + 1)
    BY <1>4, <2>2 DEF Sends
  <2> QED
    BY <1>1, <2>2, <2>3, <2>4 DEF low
<1>5. CASE ~talking
  <2>1. cell.mode = "off" /\ cell.busy
    BY <1>5 DEF Sends
  <2>2. low = cell
    BY <2>1 DEF Lowered
  <2> QED
    BY <1>1, <1>5, <2>1, <2>2 DEF Sends
<1> QED
  BY <1>4, <1>5

\* The acknowledge that the master sends at level a.
LEMMA AckSent ==
    ASSUME NEW cell \in Chip, Sends(cell, 8), NEW a \in Level, NEW t \in Word
    PROVE  LET low == Lowered(Raised(cell, SdaOf(a, cell)), t)
           IN  /\ low.busy
               /\ IF talking /\ a = 0 THEN low.mode = "send" /\ low.n = 0
                  ELSE low.mode = "off"
<1> DEFINE up == Raised(cell, SdaOf(a, cell))
<1>1. ~Pulls(cell) /\ cell.busy
  BY DEF Sends, Pulls
<1>2. SdaOf(a, cell) = a
  BY <1>1 DEF SdaOf, Level
<1>3. CASE ~talking
  <2>1. cell.mode = "off"
    BY <1>3 DEF Sends
  <2>2. up = cell /\ Lowered(up, t) = cell
    BY <2>1 DEF Raised, Lowered
  <2> QED
    BY <1>1, <1>3, <2>1, <2>2
<1>4. CASE talking /\ a = 0
  <2>1. cell.mode = "send" /\ cell.n = 8
    BY <1>4 DEF Sends
  <2>2. up = cell
    BY <1>2, <1>4, <2>1 DEF Raised
  <2>3. Lowered(cell, t) = NextByte(cell, t)
    BY <2>1 DEF Lowered
  <2>4. NextByte(cell, t).mode = "send" /\ NextByte(cell, t).n = 0 /\ NextByte(cell, t).busy
    BY <1>1, <2>1 DEF NextByte, Chip
  <2> QED
    BY <1>4, <2>2, <2>3, <2>4
<1>5. CASE talking /\ a = 1
  <2>1. cell.mode = "send" /\ cell.n = 8
    BY <1>5 DEF Sends
  <2>2. up = Off(cell)
    BY <1>2, <1>5, <2>1 DEF Raised
  <2>3. Off(cell).mode = "off" /\ Off(cell).busy
    BY <1>1 DEF Off, Chip
  <2>4. Lowered(Off(cell), t) = Off(cell)
    BY <2>3 DEF Lowered
  <2> QED
    BY <1>5, <2>2, <2>3, <2>4
<1> QED
  BY <1>3, <1>4, <1>5 DEF Level

\* A silent chip stays one while SCL rises.
LEMMA StaysSilent ==
    ASSUME NEW cell \in Chip, Silent(cell), NEW d \in Level
    PROVE  ~Pulls(Raised(cell, SdaOf(d, cell)))
<1>1. CASE cell.mode \in {"addr", "ptr", "data"} /\ cell.n \in 0..7
  <2>1. /\ Raised(cell, SdaOf(d, cell)).mode = cell.mode
        /\ Raised(cell, SdaOf(d, cell)).n = cell.n
    BY <1>1 DEF Raised, Chip
  <2> QED
    BY <1>1, <2>1 DEF Pulls
<1>2. CASE ~(cell.mode \in {"addr", "ptr", "data"} /\ cell.n \in 0..7)
  <2>1. Raised(cell, SdaOf(d, cell)) = cell
    BY <1>2 DEF Raised, Silent
  <2> QED
    BY <2>1 DEF Pulls, Silent
<1> QED
  BY <1>1, <1>2

-----------------------------------------------------------------------------
(* Each call goes on, while nothing disturbs it.                           *)

\* What is said of the chip depends on the transfer alone.
LEMMA SameChip ==
    ASSUME UNCHANGED vars
    PROVE  /\ \A ch, n, b : Listens(ch, n, b)' = Listens(ch, n, b)
           /\ \A ch, c : Answers(ch, c)' = Answers(ch, c)
           /\ \A ch, n : Sends(ch, n)' = Sends(ch, n)
<1>1. UNCHANGED <<pc, phase, talking>>
  BY DEF vars
<1> QED
  BY <1>1 DEF Listens, Answers, Sends, Listener, Deaf

LEMMA OutStep ==
    ASSUME LinesOK, Steady, Undisturbed, LineOp, NEW c \in 0..255, AtOut(c)
    PROVE  AtOut(c)' /\ Kept
<1>1. todo # <<>>
  BY DEF LineOp
<1>2. /\ OutRest(c)[9] = AckOps /\ \A n \in 0..8 : OutRest(c)[n + 1] \in Seq(Ops)
      /\ \A n \in 0..7 : OutRest(c)[n + 1] = <<SetSda(BitOf(c, n))>>
                              \o PulseOps("wait_or_fail", SclThen(OutRest(c)[n + 2]))
  BY OutOps
<1>3. /\ <<>> \in Seq(Ops) /\ ReadBit \in Seq(Ops) /\ GetThen(<<>>) \in Seq(Ops)
      /\ AckOps = <<"sda1">> \o ReadBit
      /\ ReadBit = PulseOps("wait_or_fail", GetThen(<<>>))
  BY ShortCalls, ThenOps
<1>4. SetSda(1) = "sda1" /\ 1 \in Level /\ temp \in Word
  BY Types DEF SetSda, Level
<1>5. ASSUME rx = 0, NEW n \in 0..7, NEW cell \in Chip, Listens(cell, n, c \div 2^(8 - n)),
             \/ todo = OutRest(c)[n + 1] /\ \E d \in Level : Down(cell, d)
             \/ Pulse(cell, BitOf(c, n), "wait_or_fail", SclThen(OutRest(c)[n + 2]))
      PROVE  AtOut(c)' /\ Kept
  <2> DEFINE rest == OutRest(c)[n + 2]
             b    == BitOf(c, n)
  <2>1. rest \in Seq(Ops)
    <3>1. (n + 1) + 1 = n + 2 /\ n + 1 \in 0..8
      OBVIOUS
    <3> QED
      BY <1>2, <3>1, Zenon
  <2>2. OutRest(c)[n + 1] = <<SetSda(b)>> \o PulseOps("wait_or_fail", SclThen(rest))
    BY <1>2
  <2>3. b \in Level
    BY Bits
  <2>4. /\ SclThen(rest) \in Seq(Ops) /\ PulseOps("wait_or_fail", SclThen(rest)) \in Seq(Ops)
    BY <2>1, ThenOps, Pulses
  <2>5. ASSUME Pulse(cell, b, "wait_or_fail", SclThen(rest))', rx' = 0, Kept
        PROVE  AtOut(c)'
    <3>1. Listens(cell, n, c \div 2^(8 - n))'
      BY <1>5, <2>5, SameChip DEF Kept
    <3> QED
      BY <2>5, <3>1 DEF AtOut, AtOutBit
  <2> HIDE DEF rest, b
  <2>6. ASSUME todo = OutRest(c)[n + 1], NEW d \in Level, Down(cell, d)
        PROVE  AtOut(c)' /\ Kept
    <3>1. Down(cell, b)' /\ todo' = PulseOps("wait_or_fail", SclThen(rest)) /\ rx' = rx /\ Kept
      BY <2>2, <2>3, <2>4, <2>6, DownSda
    <3>2. Pulse(cell, b, "wait_or_fail", SclThen(rest))'
      BY <3>1 DEF Pulse
    <3> QED
      BY <1>5, <2>5, <3>1, <3>2
  <2>7. ASSUME Pulse(cell, b, "wait_or_fail", SclThen(rest)) PROVE AtOut(c)' /\ Kept
    <3>1. CASE Pulse(cell, b, "wait_or_fail", SclThen(rest))' /\ rx' = rx /\ Kept
      BY <1>5, <2>5, <3>1
    <3>2. CASE todo = SclThen(rest) /\ Up(cell, b)
      <4>0. PICK low \in Chip :
               low = Lowered(Raised(cell, SdaOf(b, cell)), temp) /\ Down(low, b)'
        BY <2>1, <2>3, <3>2, Fall
      <4>1. Down(low, b)' /\ todo' = rest /\ rx' = 0 /\ Kept
        BY <1>5, <2>1, <2>3, <3>2, <4>0, Fall
      <4>2. /\ n < 7 => Listens(low, n + 1, c \div 2^(8 - (n + 1)))
            /\ n = 7 => Answers(low, c)
        BY <1>4, <1>5, <4>0, BitHeard DEF b
      <4>3. CASE n < 7
        <5>1. Listens(low, n + 1, c \div 2^(8 - (n + 1)))'
          BY <4>1, <4>2, <4>3, SameChip DEF Kept
        <5>2. n + 1 \in 0..7 /\ (n + 1) + 1 = n + 2
          BY <4>3
        <5>3. todo' = OutRest(c)[(n + 1) + 1]
          BY <4>1, <5>2 DEF rest
        <5>4. AtOutBit(c, n + 1)'
          BY <2>3, <4>1, <5>1, <5>3 DEF AtOutBit
        <5> QED
          BY <4>1, <5>2, <5>4 DEF AtOut
      <4>4. CASE n = 7
        <5>1. Answers(low, c)'
          BY <4>1, <4>2, <4>4, SameChip DEF Kept
        <5>2. n + 2 = 9
          BY <4>4
        <5>3. todo' = AckOps
          BY <1>2, <4>1, <5>2 DEF rest
        <5>4. AtOutAck(c)'
          BY <2>3, <4>1, <5>1, <5>3 DEF AtOutAck
        <5> QED
          BY <4>1, <5>4 DEF AtOut
      <4> QED
        BY <4>3, <4>4
    <3> QED
      BY <2>3, <2>4, <2>7, <3>1, <3>2, PulseStep
  <2> QED
    BY <1>5, <2>6, <2>7 DEF rest, b
<1>6. ASSUME NEW cell \in Chip, Answers(cell, c),
             \/ rx = 0 /\ todo = AckOps /\ \E d \in Level : Down(cell, d)
             \/ rx = 0 /\ Pulse(cell, 1, "wait_or_fail", GetThen(<<>>))
             \/ rx = SdaOf(1, cell) /\ todo = SclThen(<<>>) /\ Up(cell, 1)
      PROVE  AtOut(c)' /\ Kept
  <2>1. ASSUME Kept PROVE Answers(cell, c)'
    BY <1>6, <2>1, SameChip DEF Kept
  <2>2. ASSUME rx = 0, todo = AckOps, NEW d \in Level, Down(cell, d)
        PROVE  AtOut(c)' /\ Kept
    <3>1. Down(cell, 1)' /\ todo' = ReadBit /\ rx' = rx /\ Kept
      BY <1>3, <1>4, <2>2, DownSda
    <3>2. Pulse(cell, 1, "wait_or_fail", GetThen(<<>>))'
      BY <1>3, <3>1 DEF Pulse
    <3>3. AtOutAck(c)'
      BY <2>1, <2>2, <3>1, <3>2 DEF AtOutAck
    <3> QED
      BY <3>1, <3>3 DEF AtOut
  <2>3. ASSUME rx = 0, Pulse(cell, 1, "wait_or_fail", GetThen(<<>>))
        PROVE  AtOut(c)' /\ Kept
    <3>1. CASE Pulse(cell, 1, "wait_or_fail", GetThen(<<>>))' /\ rx' = rx /\ Kept
      <4>1. AtOutAck(c)'
        BY <2>1, <2>3, <3>1 DEF AtOutAck
      <4> QED
        BY <3>1, <4>1 DEF AtOut
    <3>2. CASE todo = GetThen(<<>>) /\ Up(cell, 1)
      <4>1. pins = [sda |-> 1, scl |-> 1] /\ chip = Raised(cell, SdaOf(1, cell)) /\ ~hold
        BY <3>2 DEF Up, Rising
      <4>2. /\ UNCHANGED <<vars, hold, temp, err, control, pins, chip>>
            /\ todo' = SclThen(<<>>) /\ rx' = 2 * rx + SdaOf(1, chip)
        BY <1>3, <1>4, <3>2, <4>1, GetStep
      <4>3. SdaOf(1, chip) = SdaOf(1, cell) /\ SdaOf(1, cell) \in 0..1
        <5>1. SdaOf(1, Raised(cell, SdaOf(1, cell))) = SdaOf(1, cell)
          BY <1>4, <1>6, AckHeard
        <5> QED
          BY <4>1, <5>1 DEF SdaOf
      <4>4. rx' = SdaOf(1, cell)
        BY <2>3, <4>2, <4>3
      <4>5. Up(cell, 1)'
        BY <4>1, <4>2 DEF Up, Rising
      <4>6. Kept
        BY <4>2 DEF Kept, Steady
      <4>7. AtOutAck(c)'
        BY <2>1, <4>2, <4>4, <4>5, <4>6 DEF AtOutAck
      <4> QED
        BY <4>6, <4>7 DEF AtOut
    <3> QED
      BY <1>3, <1>4, <2>3, <3>1, <3>2, PulseStep
  <2>4. ASSUME rx = SdaOf(1, cell), todo = SclThen(<<>>), Up(cell, 1)
        PROVE  AtOut(c)' /\ Kept
    <3>0. PICK low \in Chip :
             low = Lowered(Raised(cell, SdaOf(1, cell)), temp) /\ Down(low, 1)'
      BY <1>3, <1>4, <2>4, Fall
    <3>1. Down(low, 1)' /\ todo' = <<>> /\ rx' = rx /\ Kept
      BY <1>3, <1>4, <2>4, <3>0, Fall
    <3>2. Answered(low, c)
      BY <1>4, <1>6, <2>4, <3>0, AckHeard
    <3>3. Answered(low, c)'
      BY <3>1, <3>2 DEF Answered, Deaf, Kept, vars
    <3> QED
      BY <3>1, <3>3 DEF AtOut
  <2> QED
    BY <1>6, <2>2, <2>3, <2>4
<1> QED
  BY <1>1, <1>5, <1>6 DEF AtOut, AtOutBit, AtOutAck

LEMMA InStepIn ==
    ASSUME LinesOK, Steady, Undisturbed, LineOp, AtIn
    PROVE  AtIn' /\ Kept
<1>1. todo # <<>>
  BY DEF LineOp
<1>2. /\ InRest[9] = <<>> /\ \A n \in 0..8 : InRest[n + 1] \in Seq(Ops)
      /\ \A n \in 0..7 : InRest[n + 1] = PulseOps("wait_or_fail", GetThen(InRest[n + 2]))
      /\ InbOps = <<"sda1">> \o InRest[1]
  BY InOps
<1>3. SetSda(1) = "sda1" /\ 1 \in Level /\ temp \in Word
  BY Types DEF SetSda, Level
<1>4. ASSUME rx = 0, todo = InbOps,
             NEW cell \in Chip, NEW d \in Level, Sends(cell, 0), Down(cell, d)
      PROVE  AtIn' /\ Kept
  <2>1. 0 + 1 = 1 /\ 0 + 2 = 2 /\ 0 \in 0..8 /\ 0 \in 0..7
    OBVIOUS
  <2>2. InRest[1] \in Seq(Ops) /\ InRest[1] = PulseOps("wait_or_fail", GetThen(InRest[2]))
    BY <1>2, <2>1, Zenon
  <2>3. Down(cell, 1)' /\ todo' = InRest[1] /\ rx' = 0 /\ Kept
    BY <1>2, <1>3, <1>4, <2>2, DownSda
  <2>4. Pulse(cell, 1, "wait_or_fail", GetThen(InRest[2]))'
    BY <2>2, <2>3 DEF Pulse
  <2>5. Sends(cell, 0)'
    BY <1>4, <2>3, SameChip DEF Kept
  <2>6. cell.byte \in 0..255
    BY ChipFields
  <2>7. Prefix(cell, 0)'
    BY <2>3, <2>6, AllBits DEF Prefix
  <2> QED
    BY <2>1, <2>3, <2>4, <2>5, <2>7 DEF AtIn
<1>5. ASSUME NEW n \in 0..7, NEW cell \in Chip, Sends(cell, n),
             \/ Prefix(cell, n) /\ Pulse(cell, 1, "wait_or_fail", GetThen(InRest[n + 2]))
             \/ Prefix(cell, n + 1) /\ todo = SclThen(InRest[n + 2]) /\ Up(cell, 1)
      PROVE  AtIn' /\ Kept
  <2> DEFINE rest == InRest[n + 2]
  <2>1. rest \in Seq(Ops)
    <3>1. (n + 1) + 1 = n + 2 /\ n + 1 \in 0..8
      OBVIOUS
    <3> QED
      BY <1>2, <3>1, Zenon
  <2> HIDE DEF rest
  <2>2. GetThen(rest) \in Seq(Ops) /\ SclThen(rest) \in Seq(Ops)
    BY <2>1, ThenOps
  <2>3. cell.byte \in 0..255
    BY ChipFields
  <2> DEFINE up == Raised(cell, SdaOf(1, cell))
  <2>4. /\ Sends(Lowered(up, temp), n + 1)
        /\ talking => Lowered(up, temp).byte = cell.byte
        /\ talking => SdaOf(1, up) = BitOf(cell.byte, n)
    BY <1>3, <1>5, BitSent
  <2>5. ASSUME Kept PROVE Sends(cell, n)' /\ talking' = talking
    BY <1>5, <2>5, SameChip DEF Kept, vars
  <2> HIDE DEF up
  <2>6. ASSUME Prefix(cell, n), Pulse(cell, 1, "wait_or_fail", GetThen(rest))
        PROVE  AtIn' /\ Kept
    <3>1. CASE Pulse(cell, 1, "wait_or_fail", GetThen(rest))' /\ rx' = rx /\ Kept
      <4>1. Prefix(cell, n)'
        BY <2>5, <2>6, <3>1 DEF Prefix
      <4> QED
        BY <2>5, <3>1, <4>1 DEF AtIn, rest
    <3>2. CASE todo = GetThen(rest) /\ Up(cell, 1)
      <4>1. pins = [sda |-> 1, scl |-> 1] /\ chip = up /\ ~hold
        BY <3>2 DEF Up, Rising, up
      <4>2. /\ UNCHANGED <<vars, hold, temp, err, control, pins, chip>>
            /\ todo' = SclThen(rest) /\ rx' = 2 * rx + SdaOf(1, chip)
        BY <1>3, <2>1, <3>2, <4>1, GetStep
      <4>3. Kept
        BY <4>2 DEF Kept, Steady
      <4>4. Prefix(cell, n + 1)'
        <5>1. CASE talking
          <6>1. rx = cell.byte \div 2^(8 - n)
            BY <2>6, <5>1 DEF Prefix
          <6>2. rx' = 2 * (cell.byte \div 2^(8 - n)) + BitOf(cell.byte, n)
            BY <2>4, <4>1, <4>2, <5>1, <6>1
          <6>3. rx' = cell.byte \div 2^(8 - (n + 1))
            BY <2>3, <6>2, Bits
          <6> QED
            BY <6>3 DEF Prefix
        <5>2. CASE ~talking
          BY <2>5, <4>3, <5>2 DEF Prefix
        <5> QED
          BY <5>1, <5>2
      <4>5. Up(cell, 1)'
        BY <4>1, <4>2 DEF Up, Rising, up
      <4> QED
        BY <2>5, <4>2, <4>3, <4>4, <4>5 DEF AtIn, rest
    <3> QED
      BY <1>3, <2>2, <2>6, <3>1, <3>2, PulseStep
  <2>7. ASSUME Prefix(cell, n + 1), todo = SclThen(rest), Up(cell, 1)
        PROVE  AtIn' /\ Kept
    <3>0. PICK low \in Chip : low = Lowered(up, temp) /\ Down(low, 1)'
      BY <1>3, <2>1, <2>7, Fall DEF up
    <3>1. Down(low, 1)' /\ todo' = rest /\ rx' = rx /\ Kept
      BY <1>3, <2>1, <2>7, <3>0, Fall
    <3>2. Sends(low, n + 1)'
      BY <2>4, <3>0, <3>1, SameChip DEF Kept
    <3>3. Prefix(low, n + 1)'
      BY <2>4, <2>5, <2>7, <3>0, <3>1 DEF Prefix
    <3>4. CASE n < 7
      <4>1. n + 1 \in 0..7 /\ (n + 1) + 1 = n + 2 /\ (n + 1) + 2 = n + 3
        BY <3>4
      <4>2. rest = PulseOps("wait_or_fail", GetThen(InRest[(n + 1) + 2]))
        BY <1>2, <4>1, Zenon DEF rest
      <4>3. Pulse(low, 1, "wait_or_fail", GetThen(InRest[(n + 1) + 2]))'
        BY <3>1, <4>2 DEF Pulse
      <4> QED
        BY <3>1, <3>2, <3>3, <4>1, <4>3 DEF AtIn
    <3>5. CASE n = 7
      <4>1. n + 2 = 9 /\ n + 1 = 8
        BY <3>5
      <4>2. rest = <<>>
        BY <1>2, <4>1 DEF rest
      <4> QED
        BY <3>1, <3>2, <3>3, <4>1, <4>2 DEF AtIn
    <3> QED
      BY <3>4, <3>5
  <2> QED
    BY <1>5, <2>6, <2>7 DEF rest
<1> QED
  BY <1>1, <1>4, <1>5 DEF AtIn

LEMMA AckStep ==
    ASSUME LinesOK, Steady, Undisturbed, LineOp, AtAck
    PROVE  AtAck' /\ Kept
<1> DEFINE tail == SclThen(<<>>)
<1>1. todo # <<>>
  BY DEF LineOp
<1>2. <<>> \in Seq(Ops) /\ tail \in Seq(Ops) /\ PulseOps("wait_or_fail", tail) \in Seq(Ops)
  BY ShortCalls, ThenOps, Pulses
<1>3. SetSda(0) = "sda0" /\ 0 \in Level /\ 1 \in Level /\ temp \in Word /\ AckLevel \in Level
  BY Types DEF SetSda, Level, AckLevel
<1>4. ASSUME Kept PROVE AckLevel' = AckLevel /\ talking' = talking
  BY <1>4 DEF Kept, vars, AckLevel, AckBit
<1>5. ASSUME NEW cell \in Chip, Sends(cell, 8), Kept PROVE Sends(cell, 8)'
  BY <1>5, SameChip DEF Kept
<1> HIDE DEF tail
<1>6. ASSUME NEW cell \in Chip, Sends(cell, 8), AckLevel = 0, Down(cell, 1),
             todo = <<"sda0">> \o PulseOps("wait_or_fail", tail)
      PROVE  AtAck' /\ Kept
  <2>1. Down(cell, 0)' /\ todo' = PulseOps("wait_or_fail", tail) /\ Kept
    BY <1>2, <1>3, <1>6, DownSda
  <2>2. Pulse(cell, 0, "wait_or_fail", tail)'
    BY <2>1 DEF Pulse
  <2>3. Sends(cell, 8)' /\ AckLevel' = 0
    BY <1>4, <1>5, <1>6, <2>1
  <2> QED
    BY <2>1, <2>2, <2>3 DEF AtAck, tail
<1>7. ASSUME NEW cell \in Chip, Sends(cell, 8), NEW a \in Level, a = AckLevel,
             Pulse(cell, a, "wait_or_fail", tail)
      PROVE  AtAck' /\ Kept
  <2>1. CASE Pulse(cell, a, "wait_or_fail", tail)' /\ Kept
    <3>1. Sends(cell, 8)' /\ AckLevel' = a
      BY <1>4, <1>5, <1>7, <2>1
    <3> QED
      BY <2>1, <3>1 DEF AtAck, tail
  <2>2. CASE todo = tail /\ Up(cell, a)
    <3>1. PICK low \in Chip :
             low = Lowered(Raised(cell, SdaOf(a, cell)), temp) /\ Down(low, a)'
      BY <1>2, <1>7, <2>2, Fall DEF tail
    <3>2. Kept /\ todo' = <<>>
      BY <1>2, <1>7, <2>2, Fall DEF tail
    <3>3. /\ low.busy
          /\ IF talking /\ a = 0 THEN low.mode = "send" /\ low.n = 0
             ELSE low.mode = "off"
      BY <1>3, <1>7, <3>1, AckSent
    <3>4. talking' = talking /\ AckLevel' = a
      BY <1>4, <1>7, <3>2
    <3> QED
      BY <1>7, <3>1, <3>2, <3>3, <3>4 DEF AtAck
  <2> QED
    BY <1>2, <1>7, <2>1, <2>2, PulseStep
<1> QED
  BY <1>1, <1>3, <1>6, <1>7 DEF AtAck, tail

\* A chip that has seen the START.
Woken ==
    \E cell \in Chip, d \in Level :
        Down(cell, d) /\ cell.busy /\ cell.mode = "addr" /\ cell.n = 0 /\ cell.byte = 0

LEMMA WokenStep ==
    ASSUME LinesOK, Steady, Undisturbed, LineOp, NEW z \in Seq(Ops), Begun, todo = SclThen(z)
    PROVE  Woken' /\ todo' = z /\ rx' = rx /\ Kept
BY BegunFalls DEF Woken, Level

LEMMA RepStep ==
    ASSUME LinesOK, Steady, Undisturbed, LineOp, AtRep
    PROVE  AtRep' /\ Kept
<1> DEFINE fall == SclThen(<<>>)
           tail == <<"sda0">> \o fall
<1>1. todo # <<>>
  BY DEF LineOp
<1>2. /\ <<>> \in Seq(Ops) /\ fall \in Seq(Ops) /\ tail \in Seq(Ops)
      /\ RepStartOps = <<"sda1">> \o PulseOps("wait", tail)
  <2>1. "sda0" \in Ops
    BY DEF Ops
  <2> QED
    BY <2>1, ShortCalls, ThenOps, Cons
<1>3. PulseOps("wait", tail) \in Seq(Ops)
  BY <1>2, Pulses
<1>4. SetSda(1) = "sda1" /\ 0 \in Level /\ 1 \in Level
  BY DEF SetSda, Level
<1> HIDE DEF tail
<1>5. ASSUME NEW cell \in Chip, NEW d \in Level, Silent(cell), Down(cell, d), todo = RepStartOps
      PROVE  AtRep' /\ Kept
  <2>1. Down(cell, 1)' /\ todo' = PulseOps("wait", tail) /\ Kept
    BY <1>2, <1>3, <1>4, <1>5, DownSda
  <2>2. Pulse(cell, 1, "wait", tail)'
    BY <2>1 DEF Pulse
  <2> QED
    BY <1>5, <2>1, <2>2 DEF AtRep, tail
<1>6. ASSUME NEW cell \in Chip, Silent(cell), Pulse(cell, 1, "wait", tail)
      PROVE  AtRep' /\ Kept
  <2>1. CASE Pulse(cell, 1, "wait", tail)' /\ Kept
    BY <1>6, <2>1 DEF AtRep, tail
  <2>2. CASE todo = tail /\ Up(cell, 1)
    <3>1. pins = High /\ ~hold /\ ~Pulls(chip)
      BY <1>4, <1>6, <2>2, StaysSilent DEF Up, Rising, High
    <3>2. chip \in Chip
      BY DEF LinesOK
    <3>3. Begun' /\ todo' = fall /\ Kept
      BY <1>2, <2>2, <3>1, <3>2, StartStep DEF tail
    <3> QED
      BY <3>3 DEF AtRep
  <2> QED
    BY <1>2, <1>4, <1>6, <2>1, <2>2, PulseStep
<1>7. CASE todo = fall /\ Begun
  <2>1. Woken' /\ todo' = <<>> /\ Kept
    BY <1>2, <1>7, WokenStep
  <2> QED
    BY <2>1 DEF AtRep, Woken
<1> QED
  BY <1>1, <1>5, <1>6, <1>7 DEF AtRep, tail

LEMMA StopsStep ==
    ASSUME LinesOK, Steady, Undisturbed, LineOp, AtStop
    PROVE  AtStop' /\ Kept
<1> DEFINE tail == <<"sda1">>
<1>1. todo # <<>>
  BY DEF LineOp
<1>2. /\ <<>> \in Seq(Ops) /\ tail \in Seq(Ops) /\ tail = <<"sda1">> \o <<>>
      /\ StopOps = <<"sda0">> \o PulseOps("wait", tail)
  <2>1. "sda1" \in Ops
    BY DEF Ops
  <2> QED
    BY <2>1, ShortCalls, Single
<1>3. PulseOps("wait", tail) \in Seq(Ops)
  BY <1>2, Pulses
<1>4. SetSda(0) = "sda0" /\ 0 \in Level
  BY DEF SetSda, Level
<1> HIDE DEF tail
<1>5. ASSUME NEW cell \in Chip, NEW d \in Level, Silent(cell), Down(cell, d), todo = StopOps
      PROVE  AtStop' /\ Kept
  <2>1. Down(cell, 0)' /\ todo' = PulseOps("wait", tail) /\ Kept
    BY <1>2, <1>3, <1>4, <1>5, DownSda
  <2>2. Pulse(cell, 0, "wait", tail)'
    BY <2>1 DEF Pulse
  <2> QED
    BY <1>5, <2>1, <2>2 DEF AtStop, tail
<1>6. ASSUME NEW cell \in Chip, Silent(cell), Pulse(cell, 0, "wait", tail)
      PROVE  AtStop' /\ Kept
  <2>1. CASE Pulse(cell, 0, "wait", tail)' /\ Kept
    BY <1>6, <2>1 DEF AtStop, tail
  <2>2. CASE todo = tail /\ Up(cell, 0)
    <3>1. pins = [sda |-> 0, scl |-> 1] /\ ~hold /\ ~Pulls(chip)
      BY <1>4, <1>6, <2>2, StaysSilent DEF Up, Rising
    <3>2. chip \in Chip
      BY DEF LinesOK
    <3>3. Free' /\ todo' = <<>> /\ Kept
      BY <1>2, <2>2, <3>1, <3>2, StopStep
    <3> QED
      BY <3>3 DEF AtStop
  <2> QED
    BY <1>2, <1>4, <1>6, <2>1, <2>2, PulseStep
<1> QED
  BY <1>1, <1>5, <1>6 DEF AtStop, tail

\* i2c_start() on a free bus.
LEMMA FreeStarts ==
    ASSUME LinesOK, Steady, Undisturbed, LineOp, NEW z \in Seq(Ops), Free,
           todo = <<"sda0">> \o SclThen(z)
    PROVE  Begun' /\ todo' = SclThen(z) /\ rx' = rx /\ Kept
<1>1. ~Pulls(chip) /\ pins = High /\ ~hold
  BY DEF Free, Pulls
<1>2. chip \in Chip
  BY DEF LinesOK
<1> QED
  BY <1>1, <1>2, ThenOps, StartStep

LEMMA RetryStartStep ==
    ASSUME LinesOK, Steady, Undisturbed, LineOp, AtRetryStart
    PROVE  AtRetryStart' /\ Kept
<1>1. todo # <<>>
  BY DEF LineOp
<1>2. <<>> \in Seq(Ops) /\ StartOps = <<"sda0">> \o SclThen(<<>>)
  BY ShortCalls
<1>3. CASE todo = StartOps /\ Free
  <2>1. Begun' /\ todo' = SclThen(<<>>) /\ Kept
    BY <1>2, <1>3, FreeStarts
  <2> QED
    BY <2>1 DEF AtRetryStart
<1>4. CASE todo = SclThen(<<>>) /\ Begun
  <2>1. Woken' /\ todo' = <<>> /\ Kept
    BY <1>2, <1>4, WokenStep
  <2> QED
    BY <2>1 DEF AtRetryStart, Woken
<1> QED
  BY <1>1, <1>3, <1>4 DEF AtRetryStart

\* What CallOps is, and where its last and its other operations leave the wire.
LEMMA StartsStep ==
    ASSUME LinesOK, Steady, Undisturbed, LineOp, AtStart, Outs => OutByte \in 0..255
    PROVE  (AtStart \/ Place)' /\ Kept
<1>1. CallOps \in Seq(Ops) /\ StartOps \o CallOps = <<"sda0">> \o SclThen(CallOps)
  BY CallOpsSeq, Starting
<1>2. ASSUME Kept
      PROVE  /\ Outs' = Outs /\ OutByte' = OutByte /\ CallOps' = CallOps
             /\ pc' = pc /\ phase' = phase
  <2>1. UNCHANGED vars
    BY <1>2 DEF Kept
  <2> QED
    BY <2>1, CallsKept DEF vars
<1>3. pc \in {"addr", "stop"} /\ (pc = "addr" => phase # "x2") /\ rx = 0
  BY DEF AtStart
<1>4. CASE todo = StartOps \o CallOps /\ Free
  <2>1. Begun' /\ todo' = SclThen(CallOps) /\ rx' = rx /\ Kept
    BY <1>1, <1>4, FreeStarts
  <2> QED
    BY <1>2, <1>3, <2>1 DEF AtStart
<1>5. CASE todo = SclThen(CallOps) /\ Begun
  <2>1. Woken' /\ todo' = CallOps /\ rx' = 0 /\ Kept
    BY <1>1, <1>3, <1>5, WokenStep
  <2>2. PICK cell \in Chip, d \in Level :
           Down(cell, d)' /\ cell.busy /\ cell.mode = "addr" /\ cell.n = 0 /\ cell.byte = 0
    BY <2>1 DEF Woken
  <2>3. CASE pc = "addr"
    <3> DEFINE c == OutByte
    <3>1. CallOps = OutRest(c)[1]
      BY <2>3, OutOps DEF CallOps
    <3>2. c \in 0..255 /\ c \div 2^(8 - 0) = 0
      BY <2>3, AllBits DEF Outs
    <3> HIDE DEF c
    <3>3. ASSUME NEW k, k = c PROVE AtOut(k)'
      <4>1. Listens(cell, 0, k \div 2^(8 - 0))'
        BY <1>2, <1>3, <2>1, <2>2, <2>3, <3>2, <3>3 DEF Listens, Listener
      <4>2. 0 + 1 = 1 /\ 0 \in 0..7
        OBVIOUS
      <4>3. AtOutBit(k, 0)'
        BY <2>1, <2>2, <3>1, <3>3, <4>1, <4>2 DEF AtOutBit
      <4> QED
        BY <2>1, <4>2, <4>3 DEF AtOut
    <3>4. AtOut(OutByte)' /\ Outs' /\ pc' = "addr"
      BY <1>2, <2>1, <2>3, <3>3 DEF c, Outs
    <3> QED
      BY <2>1, <3>4 DEF Place
  <2>4. CASE pc = "stop"
    <3>1. CallOps = StopOps
      BY <2>4 DEF CallOps
    <3>2. Silent(cell)
      BY <2>2 DEF Silent
    <3>3. AtStop' /\ pc' = "stop"
      BY <1>2, <2>1, <2>2, <2>4, <3>1, <3>2 DEF AtStop
    <3> QED
      BY <2>1, <3>3 DEF Place
  <2> QED
    BY <1>3, <2>3, <2>4
<1> QED
  BY <1>4, <1>5 DEF AtStart

\* One line operation keeps the wire in step with the transfer.
LEMMA LineKeeps ==
    ASSUME LinesOK, InStep, Undisturbed, LineOp, Outs => OutByte \in 0..255
    PROVE  InStep'
<1>1. Steady /\ ~stuck
  BY DEF InStep
<1>2. ASSUME Kept
      PROVE  /\ Outs' = Outs /\ Ins' = Ins /\ OutByte' = OutByte /\ Rests' = Rests
             /\ pc' = pc /\ Steady' /\ ~stuck'
  <2>1. UNCHANGED vars
    BY <1>2 DEF Kept
  <2> QED
    BY <1>1, <1>2, <2>1, CallsKept DEF vars, Kept, Steady, Rests, Undisturbed
<1>3. ASSUME Kept, (AtStart \/ Place)' PROVE InStep'
  BY <1>2, <1>3 DEF InStep
<1>4. CASE AtStart
  BY <1>1, <1>3, <1>4, StartsStep
<1>5. CASE pc \in {"rep", "rep10"} /\ AtRep
  <2>1. AtRep' /\ Kept
    BY <1>1, <1>5, RepStep
  <2> QED
    BY <1>2, <1>3, <1>5, <2>1 DEF Place
<1>6. CASE pc \in {"stop", "retry_stop"} /\ AtStop
  <2>1. AtStop' /\ Kept
    BY <1>1, <1>6, StopsStep
  <2> QED
    BY <1>2, <1>3, <1>6, <2>1 DEF Place
<1>7. CASE pc = "retry_start" /\ AtRetryStart
  <2>1. AtRetryStart' /\ Kept
    BY <1>1, <1>7, RetryStartStep
  <2> QED
    BY <1>2, <1>3, <1>7, <2>1 DEF Place
<1>8. CASE Outs /\ AtOut(OutByte)
  <2>1. PICK c \in 0..255 : c = OutByte
    BY <1>8
  <2>2. AtOut(c)' /\ Kept
    BY <1>1, <1>8, <2>1, OutStep
  <2>3. AtOut(OutByte)'
    BY <1>2, <2>1, <2>2
  <2> QED
    BY <1>2, <1>3, <1>8, <2>2, <2>3 DEF Place
<1>9. CASE Ins /\ AtIn
  <2>1. AtIn' /\ Kept
    BY <1>1, <1>9, InStepIn
  <2> QED
    BY <1>2, <1>3, <1>9, <2>1 DEF Place
<1>10. CASE pc \in {"ack", "bad_length"} /\ AtAck
  <2>1. AtAck' /\ Kept
    BY <1>1, <1>10, AckStep
  <2> QED
    BY <1>2, <1>3, <1>10, <2>1 DEF Place
<1>11. CASE Rests /\ AtRest
  BY <1>11 DEF AtRest, LineOp
<1> QED
  BY <1>4, <1>5, <1>6, <1>7, <1>8, <1>9, <1>10, <1>11 DEF InStep, Place

-----------------------------------------------------------------------------
(* The chip holds SCL, lets it go and measures.                            *)

\* A step that is none of the program's.
Aside ==
    /\ UNCHANGED <<vars, todo, rx, err, control, pins, held>>
    /\ \A cell \in Chip, d \in Level :
          /\ Down(cell, d) => Down(cell, d)'
          /\ Rising(cell, d) => Rising(cell, d)'
          /\ Up(cell, d) => Up(cell, d)'
    /\ Free => Free'
    /\ Begun => Begun'
    /\ hold' => CanTimeout /\ held < MaxHeld

LEMMA HardwareAside ==
    ASSUME LinesOK, Steady, Hardware
    PROVE  Aside
<1>1. CASE Stretch
  BY <1>1 DEF Stretch, Aside, Down, Rising, Up, Free, Begun, High
<1>2. CASE Release
  <2>1. ASSUME NEW cell \in Chip, NEW d \in Level, Rising(cell, d) PROVE Rising(cell, d)'
    BY <1>2, <2>1 DEF Release, Rising, WireSda
  <2>2. ASSUME NEW cell \in Chip, NEW d \in Level, Down(cell, d) PROVE Down(cell, d)'
    BY <1>2, <2>2 DEF Release, Down
  <2> QED
    BY <1>2, <2>1, <2>2 DEF Release, Aside, Up, Free, Begun
<1>3. CASE Measure
  BY <1>3 DEF Measure, wire, Aside, Down, Rising, Up, Free, Begun, Steady
<1> QED
  BY <1>1, <1>2, <1>3 DEF Hardware

LEMMA Stays ==
    ASSUME Aside, InStep, Outs => OutByte \in 0..255
    PROVE  InStep'
<1>1. UNCHANGED <<vars, todo, rx, err, control, pins, held>>
  BY DEF Aside
<1>2. UNCHANGED <<pc, count, phase, talking, stuck>>
  BY <1>1 DEF vars
<1>3. /\ Outs' = Outs /\ Ins' = Ins /\ OutByte' = OutByte /\ CallOps' = CallOps
      /\ Rests' = Rests /\ AckLevel' = AckLevel
  BY <1>1, <1>2, CallsKept DEF Rests, AckLevel, AckBit
<1>4. /\ \A ch, n, b : Listens(ch, n, b)' = Listens(ch, n, b)
      /\ \A ch, c : Answers(ch, c)' = Answers(ch, c)
      /\ \A ch, n : Sends(ch, n)' = Sends(ch, n)
  BY <1>1, SameChip
<1>5. \A ch, c : Answered(ch, c)' = Answered(ch, c)
  BY <1>1, <1>2 DEF Answered, Deaf
<1>6. /\ \A ch, n : Prefix(ch, n)' = Prefix(ch, n)
      /\ \A ch : Ready(ch)' = Ready(ch)
  BY <1>1, <1>2, <1>4 DEF Prefix, Ready
<1>7. ASSUME NEW cell \in Chip, NEW d \in Level, NEW w, NEW z, Pulse(cell, d, w, z)
      PROVE  Pulse(cell, d, w, z)'
  BY <1>1, <1>7 DEF Pulse, Aside
<1>8. 0 \in Level /\ 1 \in Level
  BY DEF Level
<1>9. AtStart => AtStart'
  BY <1>1, <1>2, <1>3 DEF AtStart, Aside
<1>10. AtRetryStart => AtRetryStart'
  BY <1>1 DEF AtRetryStart, Aside
<1>11. AtRep => AtRep'
  BY <1>1, <1>7, <1>8 DEF AtRep, Aside
<1>12. AtStop => AtStop'
  BY <1>1, <1>7, <1>8 DEF AtStop, Aside
<1>13. ASSUME NEW c, c = OutByte, Outs, AtOut(c) PROVE AtOut(c)'
  <2>1. \A n \in 0..7 : BitOf(c, n) \in Level
    BY <1>13, Bit
  <2> QED
    BY <1>1, <1>4, <1>5, <1>7, <1>8, <1>13, <2>1 DEF AtOut, AtOutBit, AtOutAck, Aside
<1>14. AtIn => AtIn'
  BY <1>1, <1>4, <1>6, <1>7, <1>8 DEF AtIn, Aside
<1>15. AtAck => AtAck'
  <2>1. AckLevel \in Level
    BY DEF AckLevel, Level
  <2> QED
    BY <1>1, <1>2, <1>3, <1>4, <1>7, <1>8, <2>1 DEF AtAck, Aside
<1>16. AtRest => AtRest'
  BY <1>1, <1>2, <1>6 DEF AtRest, Aside
<1>17. Place => Place'
  BY <1>2, <1>3, <1>10, <1>11, <1>12, <1>13, <1>14, <1>15, <1>16 DEF Place
<1> QED
  BY <1>1, <1>2, <1>9, <1>17 DEF InStep, Steady, Aside

-----------------------------------------------------------------------------
(* Orderly transfers leave no chip sending.                                *)

\* A write has as many bytes left as its buffer; the second byte of a ten bit
\* address follows the first at once.
Ordered ==
    /\ Orderly(msgs)
    /\ pc = "send" => ~msgs[i].rd /\ moved[i] + count = Len(msgs[i].buf)
    /\ pc \in {"rep", "retry_stop", "retry_start"} => phase # "x2"

LEMMA MsgData ==
    ASSUME NEW ms \in Seq(Msg)
    PROVE  /\ Len(ms) \in Nat
           /\ \A k \in 1..Len(ms) :
                 ms[k].buf \in Seq(0..255) /\ Len(ms[k].buf) \in Nat /\ ms[k].addr \in 0..1023
<1>1. Len(ms) \in Nat
  BY LenProperties
<1>2. ASSUME NEW k \in 1..Len(ms)
      PROVE  ms[k].buf \in Seq(0..255) /\ ms[k].addr \in 0..1023
  <2> DEFINE m == ms[k]
             B == Seq(0..255)
             A == 0..1023
             L == 0..MaxLen
  <2>1. m \in Msg
    BY ElementOfSeq
  <2>2. m \in [addr : A, rd : BOOLEAN, ten : BOOLEAN, nostart : BOOLEAN, ignNak : BOOLEAN,
               noRdAck : BOOLEAN, recvLen : BOOLEAN, rev : BOOLEAN, len : L, buf : B]
    BY <2>1 DEF Msg
  <2> HIDE DEF m, A, B, L
  <2>3. m.buf \in B /\ m.addr \in A
    BY <2>2
  <2> QED
    BY <2>3 DEF m, A, B
<1>3. \A k \in 1..Len(ms) : Len(ms[k].buf) \in Nat
  BY <1>2, LenProperties
<1> QED
  BY <1>1, <1>2, <1>3

\* The messages of a transfer under way, and where it is in them.
Messages ==
    /\ Len(msgs) \in Nat
    /\ \A k \in 1..Len(msgs) :
          msgs[k].buf \in Seq(0..255) /\ Len(msgs[k].buf) \in Nat /\ msgs[k].addr \in 0..1023
    /\ i \in 1..(Len(msgs) + 1) /\ (pc \notin {"idle", "stop"} => i \in 1..Len(msgs))

LEMMA MessagesOK == TypeOK => Messages
<1> SUFFICES ASSUME TypeOK PROVE Messages
  OBVIOUS
<1>1. msgs \in Seq(Msg) /\ i \in 1..(Len(msgs) + 1) /\ (pc \notin {"idle", "stop"} => i <= Len(msgs))
  BY DEF TypeOK
<1> QED
  BY <1>1, MsgData DEF Messages

LEMMA EnterMsgOrdered ==
    ASSUME NEW k \in 1..(Len(msgs') + 1), Len(msgs') \in Nat, EnterMsg(k, msgs'), Orderly(msgs'),
           k <= Len(msgs') => moved'[k] = 0,
           \A j \in 1..Len(msgs') : Len(msgs'[j].buf) \in Nat
    PROVE  Ordered'
<1>1. i' = k
  BY DEF EnterMsg
<1>2. CASE k > Len(msgs') /\ pc' = "stop"
  BY <1>2 DEF Ordered
<1>3. CASE k <= Len(msgs') /\ msgs'[k].nostart /\ EnterData(k, msgs')
  <2>1. /\ pc' = IF msgs'[k].rd THEN "read" ELSE "send"
        /\ count' = msgs'[k].len
    BY <1>3 DEF EnterData
  <2>2. ~msgs'[k].rd => 0 + msgs'[k].len = Len(msgs'[k].buf)
    BY <1>3 DEF Orderly
  <2> QED
    BY <1>1, <1>3, <2>1, <2>2 DEF Ordered
<1>4. CASE /\ k <= Len(msgs') /\ ~msgs'[k].nostart
           /\ pc' = IF k > 1 THEN "rep" ELSE "addr"
           /\ phase' = FirstPhase(msgs'[k])
  BY <1>4 DEF Ordered, FirstPhase
<1> QED
  BY <1>2, <1>3, <1>4 DEF EnterMsg

LEMMA XferOrdered ==
    ASSUME IInv', NEW ms, Xfer(ms), Orderly(ms)
    PROVE  Ordered'
<1>1. Messages'
  <2>1. (TypeOK => Messages)'
    BY MessagesOK, PTL
  <2> QED
    BY <2>1 DEF IInv
<1>2. Len(msgs') \in Nat /\ \A k \in 1..Len(msgs') : Len(msgs'[k].buf) \in Nat
  BY <1>1 DEF Messages
<1>3. msgs' = ms /\ EnterMsg(1, ms) /\ moved' = [k \in 1..Len(ms) |-> 0] 
  BY DEF Xfer
<1>4. 1 \in 1..(Len(msgs') + 1) /\ (1 <= Len(msgs') => moved'[1] = 0)
  BY <1>2, <1>3
<1> QED
  BY <1>2, <1>3, <1>4, EnterMsgOrdered

LEMMA MasterOrdered ==
    ASSUME IInv, IInv', Ordered, Master
    PROVE  Ordered'
<1>0. Messages /\ Messages'
  <2>1. TypeOK /\ TypeOK'
    BY DEF IInv
  <2>2. (TypeOK => Messages)'
    BY MessagesOK, PTL
  <2> QED
    BY <2>1, <2>2, MessagesOK
<1>1. /\ Len(msgs) \in Nat /\ Len(msgs') \in Nat
      /\ i \in 1..(Len(msgs) + 1) /\ (pc \notin {"idle", "stop"} => i \in 1..Len(msgs))
  BY <1>0 DEF Messages
<1>2. /\ \A k \in 1..Len(msgs) : Len(msgs[k].buf) \in Nat
      /\ \A k \in 1..Len(msgs') : Len(msgs'[k].buf) \in Nat
  BY <1>0 DEF Messages
<1>3. ASSUME EndData, pc \in {"send", "read"}, UNCHANGED <<msgs, moved>> PROVE Ordered'
  <2>1. CASE Fail(EREMOTEIO)
    BY <1>3, <2>1 DEF Fail, Ordered
  <2>2. CASE EnterMsg(i + 1, msgs)
    <3>1. i + 1 \in 1..(Len(msgs') + 1)
      BY <1>1, <1>3
    <3>2. i + 1 <= Len(msgs') => moved'[i + 1] = 0
      BY <1>1, <1>3 DEF IInv, Tally
    <3>3. Orderly(msgs') /\ EnterMsg(i + 1, msgs')
      BY <1>3, <2>2 DEF Ordered
    <3> QED
      BY <1>1, <1>2, <3>1, <3>2, <3>3, EnterMsgOrdered
  <2> QED
    BY <1>3, <2>1, <2>2 DEF EndData
<1>4. ASSUME NEW r \in OutbResults, OutAddressBy(r) PROVE Ordered'
  <2>1. moved[i] = 0 /\ UNCHANGED <<msgs, moved>> /\ i \in 1..Len(msgs)
    BY <1>1, <1>4 DEF OutAddressBy, IInv, Tally
  <2>2. CASE pc' = "retry_stop" /\ phase # "x2" /\ phase' = phase
    BY <2>1, <2>2 DEF Ordered
  <2>3. CASE pc' \in {"stop", "addr", "rep10"}
    BY <2>1, <2>3 DEF Ordered
  <2>4. CASE EnterData(i, msgs) /\ i' = i
    <3>1. ~msgs[i].rd => 0 + msgs[i].len = Len(msgs[i].buf)
      BY <1>2, <2>1 DEF Ordered, Orderly
    <3> QED
      BY <2>1, <2>4, <3>1 DEF Ordered, EnterData
  <2> QED
    BY <1>4, <2>2, <2>3, <2>4 DEF OutAddressBy, AddressEnd, Fail
<1>5. ASSUME NEW r \in OutbResults, SendByteBy(r) PROVE Ordered'
  <2>1. i \in 1..Len(msgs) /\ moved \in [1..Len(msgs) -> Nat] /\ count \in Nat /\ msgs' = msgs
    BY <1>1, <1>5 DEF IInv, TypeOK, SendByteBy
  <2>2. CASE /\ count' = count - 1 /\ count > 0
             /\ moved' = [moved EXCEPT ![i] = @ + 1]
             /\ UNCHANGED <<pc, i, phase>>
    BY <1>5, <2>1, <2>2 DEF Ordered, SendByteBy
  <2>3. CASE pc' = "stop"
    BY <2>1, <2>3 DEF Ordered
  <2> QED
    BY <1>5, <2>2, <2>3 DEF SendByteBy, Fail
<1>6. CASE DataDone \/ ReadTimeout
  BY <1>3, <1>6 DEF DataDone, ReadTimeout
<1>7. CASE \/ RepStart \/ RepStartTen \/ RetryStop \/ RetryStart \/ Ack \/ AckBadLength \/ Stop
           \/ \E v \in ReadValues : ReadByte(v)
  BY <1>7 DEF RepStart, RepStartTen, RetryStop, RetryStart, Ack, AckDone, AckTimeout, AckBadLength,
              NakBadLength, NakTimeout, Stop, ReadByte, Acknowledged, Fail, Ordered
<1> QED
  BY <1>4, <1>5, <1>6, <1>7 DEF Master, OutAddress, SendByte

LEMMA OrderedNext ==
    ASSUME \A ms \in Transfers : Orderly(ms), IInv, IInv', Ordered, [Next]_vars
    PROVE  Ordered'
<1>1. CASE Master
  BY <1>1, MasterOrdered
<1>2. ASSUME NEW ms \in Transfers, Xfer(ms) PROVE Ordered'
  BY <1>2, XferOrdered
<1>3. CASE UNCHANGED vars
  BY <1>3 DEF vars, Ordered
<1> QED
  BY <1>1, <1>2, <1>3 DEF Next

\* No chip is left sending where the transfer goes on without an acknowledge.
LEMMA NobodySends ==
    ASSUME IInv, Ordered, ~stuck
    PROVE  /\ pc \in {"addr", "retry_stop", "retry_start", "rep10", "send", "rep", "stop"} => ~talking
           /\ pc = "read" /\ count = 0 => ~talking
<1>1. ~Excused
  BY DEF Excused, Ordered, Orderly
<1> QED
  BY <1>1 DEF IInv, Quiet

\* An address byte is one, and odd where it asks the chip to send.
LEMMA AddressBytes ==
    ASSUME TypeOK, i \in 1..Len(msgs)
    PROVE  /\ AddressByte \in 0..255
           /\ phase \in {"x1", "x3"} => AddressByte \notin {WriteAddress, ReadingAddress}
           /\ phase = "a7" /\ AddressByte = WriteAddress => Cur.rd = Cur.rev
           /\ phase = "a7" /\ AddressByte = ReadingAddress => Cur.rd # Cur.rev
<1>1. Cur.addr \in 0..1023 /\ Cur.rd \in BOOLEAN /\ Cur.rev \in BOOLEAN
  <2>1. Cur.addr \in 0..1023
    BY MessagesOK DEF Messages, Cur
  <2>2. Cur.rd \in BOOLEAN /\ Cur.rev \in BOOLEAN
    BY MsgFields DEF TypeOK, Cur
  <2> QED
    BY <2>1, <2>2
<1> DEFINE a == Cur.addr
           e == 240 + ((a \div 128) % 4)
<1>2. /\ e \in 240..243 /\ e + 1 - (e % 2) \in 240..244 /\ a % 128 \in 0..127
      /\ (2 * a) % 256 \in 0..254 /\ (2 * a) % 256 # 159 /\ ((2 * a) % 256) + 1 # 158
  <2> HIDE DEF a
  <2>1. a \in 0..1023
    BY <1>1 DEF a
  <2>2. (a \div 128) % 4 \in 0..3
    BY <2>1
  <2>3. (2 * a) % 256 = 2 * (a % 128)
    BY <2>1
  <2>4. a % 128 \in 0..127
    BY <2>1
  <2>5. e \in 240..243
    BY <2>2
  <2> HIDE DEF e
  <2>6. e + 1 - (e % 2) \in 240..244
    BY <2>5
  <2>7. (2 * a) % 256 \in 0..254 /\ (2 * a) % 256 # 159 /\ ((2 * a) % 256) + 1 # 158
    <3> DEFINE h == a % 128
    <3>1. h \in 0..127 /\ (2 * a) % 256 = 2 * h
      BY <2>3, <2>4
    <3> HIDE DEF h
    <3>2. 2 * h \in 0..254 /\ 2 * h # 159 /\ 2 * h + 1 # 158
      BY <3>1
    <3> QED
      BY <3>1, <3>2
  <2> QED
    BY <2>4, <2>5, <2>6, <2>7
<1>3. phase = "a7" \/ phase = "x1" \/ phase = "x2" \/ phase = "x3"
  BY DEF TypeOK
<1>4. CASE phase = "a7"
  <2>1. AddressByte = ((2 * a) % 256) + (IF Cur.rd # Cur.rev THEN 1 ELSE 0)
    BY <1>4 DEF AddressByte
  <2> DEFINE h == (2 * a) % 256
  <2>2. h \in 0..254 /\ h # 159 /\ h + 1 # 158
    BY <1>2, Zenon
  <2>3. AddressByte = h + (IF Cur.rd # Cur.rev THEN 1 ELSE 0)
    BY <2>1
  <2> HIDE DEF h
  <2>4. CASE Cur.rd = Cur.rev
    <3>0. (IF Cur.rd # Cur.rev THEN 1 ELSE 0) = 0
      BY <2>4
    <3>1. AddressByte = h
      <4>1. AddressByte = h + 0
        BY <2>3, <3>0, Zenon
      <4> QED
        BY <2>2, <4>1
    <3>2. AddressByte \in 0..255 /\ AddressByte # ReadingAddress
      BY <2>2, <3>1 DEF ReadingAddress
    <3> QED
      BY <1>4, <2>4, <3>2
  <2>5. CASE Cur.rd # Cur.rev
    <3>0. (IF Cur.rd # Cur.rev THEN 1 ELSE 0) = 1
      BY <2>5
    <3>1. AddressByte = h + 1
      BY <2>3, <3>0, Zenon
    <3>2. AddressByte \in 0..255 /\ AddressByte # WriteAddress
      BY <2>2, <3>1 DEF WriteAddress
    <3> QED
      BY <1>4, <2>5, <3>2
  <2> QED
    BY <2>4, <2>5
<1>5. CASE phase = "x1"
  <2>1. AddressByte = e
    BY <1>5 DEF AddressByte
  <2> HIDE DEF e
  <2> QED
    BY <1>2, <1>5, <2>1 DEF WriteAddress, ReadingAddress
<1>6. CASE phase = "x2"
  <2>1. AddressByte = a % 128
    BY <1>6 DEF AddressByte
  <2> HIDE DEF a
  <2>2. AddressByte \in 0..255
    BY <1>2, <2>1
  <2> QED
    BY <1>6, <2>2
<1>7. CASE phase = "x3"
  <2>1. AddressByte = e + 1 - (e % 2)
    BY <1>7 DEF AddressByte
  <2> HIDE DEF e
  <2> QED
    BY <1>2, <1>7, <2>1 DEF WriteAddress, ReadingAddress
<1> QED
  BY <1>3, <1>4, <1>5, <1>6, <1>7, Zenon

\* What i2c_outb() sends is a byte.
LEMMA OutByteOK == IInv /\ Ordered => (Outs => OutByte \in 0..255)
<1> SUFFICES ASSUME IInv, Ordered PROVE Outs => OutByte \in 0..255
  OBVIOUS
<1>0. TypeOK /\ Messages
  BY MessagesOK DEF IInv
<1>1. CASE pc = "addr"
  <2>1. TypeOK /\ i \in 1..Len(msgs)
    BY <1>0, <1>1 DEF Messages
  <2> QED
    BY <1>1, <2>1, AddressBytes DEF OutByte
<1>2. CASE pc = "send" /\ count > 0
  <2>1. /\ i \in 1..Len(msgs) /\ msgs[i].buf \in Seq(0..255)
        /\ moved[i] \in Nat /\ count \in Nat
    BY <1>0, <1>2 DEF TypeOK, Messages
  <2>2. moved[i] + count = Len(msgs[i].buf)
    BY <1>2 DEF Ordered
  <2>3. moved[i] + 1 \in 1..Len(msgs[i].buf)
    BY <1>2, <2>1, <2>2
  <2>4. msgs[i].buf[moved[i] + 1] \in 0..255
    BY <2>1, <2>3, ElementOfSeq
  <2> QED
    BY <1>2, <2>4 DEF OutByte, Cur
<1> QED
  BY <1>1, <1>2 DEF Outs

-----------------------------------------------------------------------------
(* Where each call ends.                                                   *)

\* A call that has something left to do is not at its end.
LEMMA NotEmpty ==
    ASSUME NEW z \in Seq(Ops), NEW w \in {"wait", "wait_or_fail"}, NEW b
    PROVE  /\ <<w>> \o z # <<>> /\ PulseOps(w, z) # <<>>
           /\ SclThen(z) # <<>> /\ GetThen(z) # <<>>
           /\ <<"sda0">> \o z # <<>> /\ <<"sda1">> \o z # <<>> /\ <<SetSda(b)>> \o z # <<>>
<1>1. {"sda0", "sda1", "scl0", "scl1", "get"} \subseteq Ops /\ w \in Ops /\ SetSda(b) \in Ops
  BY DEF Ops, SetSda
<1>2. WaitThen(w, z) \in Seq(Ops) /\ SclThen(z) \in Seq(Ops)
  BY Pulses, ThenOps
<1> QED
  BY <1>1, <1>2, Cons DEF PulseOps, SclThen, GetThen

LEMMA PulseNotEmpty ==
    ASSUME NEW z \in Seq(Ops), z # <<>>, NEW w \in {"wait", "wait_or_fail"},
           NEW cell, NEW d, Pulse(cell, d, w, z)
    PROVE  todo # <<>>
BY NotEmpty DEF Pulse

\* Which call is under way decides what the others say.
LEMMA Kinds ==
    /\ Outs => pc \in {"addr", "send"} /\ ~Ins /\ ~Rests
    /\ Ins => pc = "read" /\ ~Outs /\ ~Rests
    /\ Rests => pc \in {"idle", "send", "read"} /\ ~Outs /\ ~Ins
BY DEF Outs, Ins, Rests

\* The wire where a call has no line operation left.
Ended ==
    /\ pc \in {"rep", "rep10", "retry_start"} => Woken
    /\ pc \in {"stop", "retry_stop"} => Free
    /\ Outs => \E cell \in Chip : Answered(cell, OutByte) /\ Down(cell, 1)
    /\ Ins => \E cell \in Chip : Sends(cell, 8) /\ Prefix(cell, 8) /\ Down(cell, 1)
    /\ pc \in {"ack", "bad_length"} =>
          \E cell \in Chip, d \in Level :
             /\ Down(cell, d) /\ cell.busy
             /\ IF talking /\ AckLevel = 0 THEN cell.mode = "send" /\ cell.n = 0
                ELSE cell.mode = "off"
    /\ Rests => AtRest

LEMMA AtEnd ==
    ASSUME InStep, todo = <<>>, Outs => OutByte \in 0..255
    PROVE  Ended
<1> DEFINE fall == SclThen(<<>>)
           take == GetThen(<<>>)
<1>1. <<>> \in Seq(Ops) /\ fall \in Seq(Ops) /\ take \in Seq(Ops) /\ CallOps \in Seq(Ops)
  BY ShortCalls, ThenOps, CallOpsSeq
<1>2. fall # <<>> /\ take # <<>> /\ SclThen(CallOps) # <<>>
  BY <1>1, NotEmpty
<1>3. /\ RepStartOps # <<>> /\ StopOps # <<>> /\ StartOps # <<>> /\ AckOps # <<>>
      /\ <<"sda0">> \o fall \in Seq(Ops) /\ <<"sda0">> \o fall # <<>>
  <2>1. <<"sda0">> \o fall \in Seq(Ops) /\ <<"sda1">> \in Seq(Ops) /\ ReadBit \in Seq(Ops)
    <3>1. "sda0" \in Ops
      BY DEF Ops
    <3> QED
      BY <1>1, <3>1, ShortCalls, Cons
  <2>2. PulseOps("wait", <<"sda0">> \o fall) \in Seq(Ops) /\ PulseOps("wait", <<"sda1">>) \in Seq(Ops)
    BY <2>1, Pulses
  <2> QED
    BY <1>1, <2>1, <2>2, ShortCalls, NotEmpty
<1>4. <<"sda1">> \in Seq(Ops) /\ <<"sda1">> # <<>>
  BY ShortCalls
<1>5. StartOps \o CallOps # <<>>
  BY <1>1, Starting, ThenOps, NotEmpty
<1> HIDE DEF fall, take
<1>6. ~AtStart
  BY <1>2, <1>5 DEF AtStart
<1>7. Place
  BY <1>6 DEF InStep
<1>8. AtRep => Woken
  <2>1. ASSUME NEW cell \in Chip, Pulse(cell, 1, "wait", <<"sda0">> \o fall) PROVE FALSE
    BY <1>3, <2>1, PulseNotEmpty
  <2> QED
    BY <1>2, <1>3, <2>1 DEF AtRep, Woken, fall
<1>9. AtStop => Free
  <2>1. ASSUME NEW cell \in Chip, Pulse(cell, 0, "wait", <<"sda1">>) PROVE FALSE
    BY <1>4, <2>1, PulseNotEmpty
  <2> QED
    BY <1>3, <2>1 DEF AtStop
<1>10. AtRetryStart => Woken
  BY <1>2, <1>3 DEF AtRetryStart, Woken, fall
<1>11. ASSUME NEW c \in 0..255, AtOut(c)
       PROVE  \E cell \in Chip : Answered(cell, c) /\ Down(cell, 1)
  <2>1. ASSUME NEW n \in 0..7, AtOutBit(c, n) PROVE FALSE
    <3>1. OutRest(c)[n + 1] # <<>> /\ OutRest(c)[n + 2] \in Seq(Ops)
      <4>1. \A k \in 0..8 : OutRest(c)[k + 1] \in Seq(Ops)
        BY OutOps
      <4>2. (n + 1) + 1 = n + 2 /\ n + 1 \in 0..8
        OBVIOUS
      <4>3. OutRest(c)[n + 2] \in Seq(Ops)
        BY <4>1, <4>2, Zenon
      <4>4. OutRest(c)[n + 1] = <<SetSda(BitOf(c, n))>>
                                 \o PulseOps("wait_or_fail", SclThen(OutRest(c)[n + 2]))
        BY OutOps
      <4>5. PulseOps("wait_or_fail", SclThen(OutRest(c)[n + 2])) \in Seq(Ops)
        BY <4>3, ThenOps, Pulses
      <4> QED
        BY <4>3, <4>4, <4>5, NotEmpty
    <3>2. SclThen(OutRest(c)[n + 2]) \in Seq(Ops) /\ SclThen(OutRest(c)[n + 2]) # <<>>
      BY <3>1, ThenOps, NotEmpty
    <3> QED
      BY <2>1, <3>1, <3>2, PulseNotEmpty DEF AtOutBit
  <2>2. ~AtOutAck(c)
    <3>1. ASSUME NEW cell \in Chip, Pulse(cell, 1, "wait_or_fail", take) PROVE FALSE
      BY <1>1, <1>2, <3>1, PulseNotEmpty
    <3> QED
      BY <1>2, <1>3, <3>1 DEF AtOutAck, fall, take
  <2> QED
    BY <1>11, <2>1, <2>2 DEF AtOut
<1>12. AtIn => \E cell \in Chip : Sends(cell, 8) /\ Prefix(cell, 8) /\ Down(cell, 1)
  <2>1. ASSUME NEW n \in 0..7
        PROVE  /\ SclThen(InRest[n + 2]) # <<>>
               /\ GetThen(InRest[n + 2]) \in Seq(Ops) /\ GetThen(InRest[n + 2]) # <<>>
    <3>1. InRest[n + 2] \in Seq(Ops)
      <4>1. \A k \in 0..8 : InRest[k + 1] \in Seq(Ops)
        BY InOps
      <4>2. (n + 1) + 1 = n + 2 /\ n + 1 \in 0..8
        OBVIOUS
      <4> QED
        BY <4>1, <4>2, Zenon
    <3> QED
      BY <3>1, ThenOps, NotEmpty
  <2>2. ASSUME NEW n \in 0..7, NEW cell \in Chip,
               Pulse(cell, 1, "wait_or_fail", GetThen(InRest[n + 2]))
        PROVE  FALSE
    BY <2>1, <2>2, PulseNotEmpty
  <2>3. InbOps # <<>>
    <3>1. InRest[1] \in Seq(Ops) /\ InbOps = <<"sda1">> \o InRest[1]
      <4>1. \A k \in 0..8 : InRest[k + 1] \in Seq(Ops)
        BY InOps
      <4>2. 0 + 1 = 1 /\ 0 \in 0..8
        OBVIOUS
      <4> QED
        BY <4>1, <4>2, InOps, Zenon
    <3> QED
      BY <3>1, NotEmpty
  <2> QED
    BY <2>1, <2>2, <2>3 DEF AtIn
<1>13. AtAck => \E cell \in Chip, d \in Level :
                   /\ Down(cell, d) /\ cell.busy
                   /\ IF talking /\ AckLevel = 0 THEN cell.mode = "send" /\ cell.n = 0
                      ELSE cell.mode = "off"
  <2>1. PulseOps("wait_or_fail", fall) \in Seq(Ops)
    BY <1>1, Pulses
  <2>2. <<"sda0">> \o PulseOps("wait_or_fail", fall) # <<>>
    BY <2>1, NotEmpty
  <2>3. ASSUME NEW cell \in Chip, Pulse(cell, AckLevel, "wait_or_fail", fall) PROVE FALSE
    BY <1>1, <1>2, <2>3, PulseNotEmpty
  <2> QED
    BY <2>2, <2>3 DEF AtAck, fall
<1>14. CASE pc \in {"rep", "rep10"} /\ AtRep
  BY <1>8, <1>14, Kinds DEF Ended
<1>15. CASE pc \in {"stop", "retry_stop"} /\ AtStop
  BY <1>9, <1>15, Kinds DEF Ended
<1>16. CASE pc = "retry_start" /\ AtRetryStart
  BY <1>10, <1>16, Kinds DEF Ended
<1>17. CASE Outs /\ AtOut(OutByte)
  <2>1. \E cell \in Chip : Answered(cell, OutByte) /\ Down(cell, 1)
    BY <1>11, <1>17
  <2> QED
    BY <1>17, <2>1, Kinds DEF Ended
<1>18. CASE Ins /\ AtIn
  BY <1>12, <1>18, Kinds DEF Ended
<1>19. CASE pc \in {"ack", "bad_length"} /\ AtAck
  BY <1>13, <1>19, Kinds DEF Ended
<1>20. CASE Rests /\ AtRest
  BY <1>20, Kinds DEF Ended
<1> QED
  BY <1>7, <1>14, <1>15, <1>16, <1>17, <1>18, <1>19, <1>20 DEF Place

-----------------------------------------------------------------------------
(* Where the next call begins.                                             *)

\* A call that begins where it may is under way.
LEMMA BeginPlace ==
    todo = CallOps /\ rx = 0 /\ Begins /\ pc \in PC /\ count \in Nat
        /\ (Outs => OutByte \in 0..255) => Place
<1> SUFFICES ASSUME todo = CallOps, rx = 0, Begins, pc \in PC, count \in Nat,
                    Outs => OutByte \in 0..255
             PROVE  Place
  OBVIOUS
<1>1. CASE pc = "idle"
  <2>1. CallOps = <<>> /\ Free /\ ~talking
    BY <1>1 DEF CallOps, Begins, Ready
  <2> QED
    BY <1>1, <2>1 DEF Place, Rests, AtRest
<1>2. CASE pc = "retry_start"
  <2>1. CallOps = StartOps /\ Free
    BY <1>2 DEF CallOps, Begins, Ready
  <2> QED
    BY <1>2, <2>1 DEF Place, AtRetryStart
<1>3. ASSUME pc \notin {"idle", "retry_start"} PROVE Place
  <2>1. PICK cell \in Chip, d \in Level :
           Ready(cell) /\ Down(cell, d) /\ (pc \in {"ack", "bad_length"} => d = 1)
    BY <1>3 DEF Begins
  <2>2. CASE pc \in {"rep", "rep10"}
    <3>1. CallOps = RepStartOps /\ Silent(cell)
      BY <2>1, <2>2 DEF CallOps, Ready
    <3> QED
      BY <2>1, <2>2, <3>1 DEF Place, AtRep
  <2>3. CASE pc \in {"stop", "retry_stop"}
    <3>1. CallOps = StopOps /\ Silent(cell)
      BY <2>1, <2>3 DEF CallOps, Ready
    <3> QED
      BY <2>1, <2>3, <3>1 DEF Place, AtStop
  <2>4. CASE Outs
    <3> DEFINE c == OutByte
    <3>1. CallOps = OutbOps(c) /\ Listens(cell, 0, 0)
      BY <2>1, <2>4 DEF CallOps, Outs, Ready
    <3>2. CallOps = OutRest(c)[1]
      BY <3>1, OutOps
    <3>3. c \div 2^(8 - 0) = 0
      BY <2>4, AllBits
    <3>4. 0 + 1 = 1 /\ 0 \in 0..7
      OBVIOUS
    <3> HIDE DEF c
    <3>5. AtOutBit(c, 0)
      BY <2>1, <3>1, <3>2, <3>3, <3>4 DEF AtOutBit
    <3>6. AtOut(c)
      BY <3>4, <3>5 DEF AtOut
    <3> QED
      BY <2>4, <3>6 DEF Place, c
  <2>5. CASE Ins
    <3>1. CallOps = InbOps /\ Sends(cell, 0)
      BY <2>1, <2>5 DEF CallOps, Ins, Ready
    <3>2. AtIn
      BY <2>1, <3>1 DEF AtIn
    <3> QED
      BY <2>5, <3>2 DEF Place
  <2>6. CASE pc \in {"ack", "bad_length"}
    <3>1. CallOps = AcknakOps(IF pc = "ack" THEN AckBit ELSE FALSE) /\ Sends(cell, 8)
      BY <2>1, <2>6 DEF CallOps, Ready
    <3>2. CallOps = IF AckLevel = 0 THEN <<"sda0">> \o PulseOps("wait_or_fail", SclThen(<<>>))
                    ELSE PulseOps("wait_or_fail", SclThen(<<>>))
      <4>1. AckBit \in BOOLEAN
        BY DEF AckBit
      <4>2. (AckLevel = 0) <=> (IF pc = "ack" THEN AckBit ELSE FALSE)
        BY <2>6 DEF AckLevel
      <4>3. (IF pc = "ack" THEN AckBit ELSE FALSE) \in BOOLEAN
        BY <4>1
      <4> QED
        BY <3>1, <4>2, <4>3, AckOps1
    <3>3. Down(cell, 1)
      BY <2>1, <2>6
    <3>4. CASE AckLevel = 0
      <4>1. AtAck
        BY <3>1, <3>2, <3>3, <3>4 DEF AtAck
      <4> QED
        BY <2>6, <4>1 DEF Place
    <3>5. CASE AckLevel # 0
      <4>1. AckLevel = 1
        BY <3>5 DEF AckLevel
      <4>2. Pulse(cell, AckLevel, "wait_or_fail", SclThen(<<>>))
        BY <3>2, <3>3, <4>1 DEF Pulse
      <4>3. AtAck
        BY <3>1, <4>2 DEF AtAck
      <4> QED
        BY <2>6, <4>3 DEF Place
    <3> QED
      BY <3>4, <3>5
  <2>7. CASE Rests
    <3>1. ~(count > 0) /\ pc \in {"send", "read"}
      BY <1>3, <2>7 DEF Rests
    <3>2. CallOps = <<>>
      BY <3>1 DEF CallOps
    <3> QED
      BY <1>3, <2>1, <2>7, <3>2 DEF Place, AtRest
  <2>8. pc \in {"addr", "send", "read", "rep", "rep10", "stop", "retry_stop", "ack", "bad_length"}
    BY <1>3 DEF PC
  <2>9. pc \in {"addr", "send", "read"} => Outs \/ Ins \/ Rests
    BY <2>8 DEF Outs, Ins, Rests
  <2> QED
    BY <2>2, <2>3, <2>4, <2>5, <2>6, <2>7, <2>8, <2>9
<1> QED
  BY <1>1, <1>2, <1>3

\* The adapter does nothing between two calls.
LEMMA LinesRest ==
    ASSUME UNCHANGED <<wire, temp>>, err' = FALSE, Steady
    PROVE  /\ Steady'
           /\ \A cell, d : Down(cell, d)' = Down(cell, d)
           /\ Free' = Free
BY DEF wire, Steady, Down, Free

\* i2c_outb() of an address byte returns.
LEMMA AddressReturns ==
    ASSUME IInv, Ordered, Ended, Steady, ~stuck, NEW r, r = 1 - rx, OutAddressBy(r),
           OutByte \in 0..255, UNCHANGED <<wire, temp>>, err' = FALSE
    PROVE  Begins' /\ ~stuck'
<1>1. pc = "addr" /\ Outs /\ OutByte = AddressByte
  BY DEF OutAddressBy, Outs, OutByte
<1> DEFINE c == OutByte
<1>2. PICK cell \in Chip : Answered(cell, c) /\ Down(cell, 1)
  BY <1>1 DEF Ended
<1>3. \A ch, d : Down(ch, d)' = Down(ch, d)
  BY LinesRest
<1>4. Down(cell, 1)' /\ 1 \in Level
  BY <1>2, <1>3 DEF Level
<1>5. rx \in {0, 1}
  BY <1>2 DEF Answered
<1>6. r \in {0, 1} /\ (r = 1 <=> rx = 0)
  BY <1>5
<1>7. ~stuck'
  <2>1. r # ETIMEDOUT
    BY <1>6 DEF ETIMEDOUT
  <2>2. stuck' = (stuck \/ r = ETIMEDOUT)
    BY DEF OutAddressBy
  <2> QED
    BY <2>1, <2>2, Zenon
<1>8. i \in 1..Len(msgs) /\ TypeOK
  BY <1>1, MessagesOK DEF IInv, Messages
<1>9. ~Cur.rev /\ Cur.rd \in BOOLEAN
  BY <1>8, MsgFields DEF Ordered, Orderly, Cur, TypeOK
<1>10. CASE rx = 1
  <2>1. cell.busy /\ cell.mode = "off"
    BY <1>2, <1>10 DEF Answered, Deaf
  <2>2. talking' = FALSE
    <3>1. r # 1
      BY <1>6, <1>10
    <3>2. talking' = (r = 1 /\ ReadAddress)
      BY DEF OutAddressBy
    <3> QED
      BY <3>1, <3>2, Zenon
  <2>3. \/ pc' \in {"retry_stop", "stop", "rep10", "send", "read"}
        \/ pc' = "addr" /\ phase' = "x2"
    BY DEF OutAddressBy, AddressEnd, EnterData, Fail
  <2>4. Ready(cell)'
    BY <2>1, <2>2, <2>3 DEF Ready, Silent, Listens, Sends
  <2> QED
    BY <1>4, <1>7, <2>3, <2>4 DEF Begins
<1>11. CASE rx = 0
  <2>1. /\ cell.busy /\ cell.n = 0
        /\ c \in {WriteAddress, ReadingAddress} /\ phase # "x2"
        /\ cell.mode = IF c = WriteAddress THEN "ptr" ELSE "send"
        /\ cell.mode # "send" => cell.byte = 0
    BY <1>1, <1>2, <1>11 DEF Answered
  <2>2. /\ phase \in {"x1", "x3"} => c \notin {WriteAddress, ReadingAddress}
        /\ phase = "a7" /\ c = WriteAddress => Cur.rd = Cur.rev
        /\ phase = "a7" /\ c = ReadingAddress => Cur.rd # Cur.rev
    BY <1>1, <1>8, AddressBytes
  <2>3. phase = "a7"
    BY <1>8, <2>1, <2>2 DEF TypeOK
  <2> HIDE DEF c
  <2>4. r = 1 /\ EnterData(i, msgs)
    BY <1>6, <1>11, <2>3 DEF OutAddressBy, AddressEnd
  <2>5. pc' = IF Cur.rd THEN "read" ELSE "send"
    BY <2>4 DEF EnterData, Cur
  <2>6. talking' = (Cur.rd # Cur.rev)
    BY <2>3, <2>4 DEF OutAddressBy, ReadAddress
  <2>7. CASE Cur.rd
    <3>1. Cur.rd # Cur.rev
      BY <1>9, <2>7
    <3>2. pc' = "read" /\ talking' = TRUE /\ c # WriteAddress
      BY <2>2, <2>3, <2>5, <2>6, <2>7, <3>1
    <3>3. cell.mode = "send"
      BY <2>1, <3>2
    <3>4. Ready(cell)'
      BY <2>1, <3>2, <3>3 DEF Ready, Sends
    <3> QED
      BY <1>4, <1>7, <3>2, <3>4 DEF Begins
  <2>8. CASE ~Cur.rd
    <3>1. pc' = "send"
      BY <2>5, <2>8
    <3>2. ~(c = ReadingAddress)
      <4>1. ASSUME c = ReadingAddress PROVE FALSE
        <5>1. Cur.rd # Cur.rev
          BY <2>2, <2>3, <4>1
        <5>2. TypeOK /\ Cur.rev \in BOOLEAN
          BY <1>8, MsgFields DEF Cur, TypeOK
        <5> QED
          BY <1>9, <2>8, <5>1, <5>2
      <4> QED
        BY <4>1
    <3>3. cell.mode = "ptr" /\ cell.byte = 0
      BY <2>1, <3>2
    <3>4. Ready(cell)'
      BY <2>1, <3>1, <3>3 DEF Ready, Listens, Listener
    <3> QED
      BY <1>4, <1>7, <3>1, <3>4 DEF Begins
  <2> QED
    BY <2>7, <2>8
<1> QED
  BY <1>5, <1>10, <1>11

\* i2c_outb() of a data byte returns.
LEMMA ByteReturns ==
    ASSUME Ended, Steady, ~stuck, NEW r, r = 1 - rx, SendByteBy(r),
           UNCHANGED <<wire, temp>>, err' = FALSE
    PROVE  Begins' /\ ~stuck'
<1>1. pc = "send" /\ Outs
  BY DEF SendByteBy, Outs
<1>2. PICK cell \in Chip : Answered(cell, OutByte) /\ Down(cell, 1)
  BY <1>1 DEF Ended
<1>3. Down(cell, 1)' /\ 1 \in Level
  <2>1. \A ch, d : Down(ch, d)' = Down(ch, d)
    BY LinesRest
  <2> QED
    BY <1>2, <2>1 DEF Level
<1>4. rx \in {0, 1}
  BY <1>2 DEF Answered
<1>5. r \in {0, 1} /\ (r = 1 <=> rx = 0)
  BY <1>4
<1>6. ~stuck'
  <2>1. r # ETIMEDOUT
    BY <1>5 DEF ETIMEDOUT
  <2>2. stuck' = (stuck \/ r = ETIMEDOUT)
    BY DEF SendByteBy
  <2> QED
    BY <2>1, <2>2, Zenon
<1>7. /\ cell.busy
      /\ \/ cell.mode = "data" /\ cell.n = 0 /\ cell.byte = 0
         \/ cell.mode = "off"
  BY <1>1, <1>2 DEF Answered, Deaf
<1>8. pc' \in {"send", "stop"}
  BY <1>1 DEF SendByteBy, Fail
<1>9. Ready(cell)'
  BY <1>7, <1>8 DEF Ready, Silent, Listens, Listener
<1> QED
  BY <1>3, <1>6, <1>8, <1>9 DEF Begins

\* A message's bytes are done.
LEMMA DataReturns ==
    ASSUME IInv, Ordered, Ended, Steady, ~stuck, DataDone,
           UNCHANGED <<wire, temp>>, err' = FALSE
    PROVE  Begins' /\ ~stuck'
<1>1. Rests /\ pc \in {"send", "read"}
  BY DEF DataDone, Rests
<1>2. PICK cell \in Chip, d \in Level : Ready(cell) /\ Down(cell, d)
  BY <1>1 DEF Ended, AtRest
<1>3. Down(cell, d)'
  BY <1>2, LinesRest
<1>4. ~talking /\ ~stuck' /\ talking' = talking
  BY <1>1, NobodySends DEF DataDone
<1>5. /\ cell.busy
      /\ \/ pc = "send" /\ cell.mode \in {"ptr", "data"} /\ cell.n = 0 /\ cell.byte = 0
         \/ cell.mode = "off"
  BY <1>1, <1>2, <1>4 DEF Ready, Listens, Listener, Sends
<1>6. i \in 1..Len(msgs) /\ TypeOK
  BY <1>1, MessagesOK DEF IInv, Messages
<1>7. \/ pc' \in {"stop", "rep", "send"}
      \/ pc' = "read" /\ pc = "read"
  <2>1. CASE Fail(EREMOTEIO)
    BY <2>1 DEF Fail
  <2>2. CASE EnterMsg(i + 1, msgs)
    <3>1. i + 1 > 1 /\ (i + 1) - 1 = i
      BY <1>6
    <3>2. CASE i + 1 <= Len(msgs) /\ msgs[i + 1].nostart /\ msgs[i + 1].rd
      <4>1. i + 1 \in 1..Len(msgs)
        BY <1>6, <3>2
      <4>2. msgs[i].rd
        BY <3>1, <3>2, <4>1 DEF Ordered, Orderly
      <4>3. pc = "read"
        BY <1>1, <4>2 DEF Ordered
      <4> QED
        BY <2>2, <3>1, <3>2, <4>3 DEF EnterMsg, EnterData
    <3> QED
      BY <2>2, <3>1, <3>2 DEF EnterMsg, EnterData
  <2> QED
    BY <2>1, <2>2 DEF DataDone, EndData
<1>8. Ready(cell)'
  BY <1>4, <1>5, <1>7 DEF Ready, Silent, Listens, Listener, Sends
<1> QED
  BY <1>3, <1>4, <1>7, <1>8 DEF Begins

\* i2c_inb() returns, and acknak().
LEMMA ReadReturns ==
    ASSUME IInv, Ordered, Ended, Steady, ~stuck, ReadByte(rx) \/ AckDone \/ NakBadLength,
           UNCHANGED <<wire, temp>>, err' = FALSE
    PROVE  Begins' /\ ~stuck'
<1>1. CASE ReadByte(rx)
  <2>1. Ins /\ pc = "read"
    BY <1>1 DEF ReadByte, Ins
  <2>2. PICK cell \in Chip : Sends(cell, 8) /\ Down(cell, 1)
    BY <2>1 DEF Ended
  <2>3. Down(cell, 1)' /\ 1 \in Level
    <3>1. \A ch, d : Down(ch, d)' = Down(ch, d)
      BY LinesRest
    <3> QED
      BY <2>2, <3>1 DEF Level
  <2>4. i \in 1..Len(msgs)
    BY <2>1, MessagesOK DEF IInv, Messages
  <2>5. pc' \in {"bad_length", "ack"} /\ ~stuck' /\ talking' = talking
    BY <1>1, <2>4 DEF ReadByte, Acknowledged, Cur, Ordered, Orderly
  <2>6. Ready(cell)'
    BY <2>2, <2>5 DEF Ready, Sends
  <2> QED
    BY <2>3, <2>5, <2>6 DEF Begins
<1>2. CASE AckDone \/ NakBadLength
  <2>1. pc \in {"ack", "bad_length"}
    BY <1>2 DEF AckDone, NakBadLength
  <2>2. PICK cell \in Chip, d \in Level :
           /\ Down(cell, d) /\ cell.busy
           /\ IF talking /\ AckLevel = 0 THEN cell.mode = "send" /\ cell.n = 0
              ELSE cell.mode = "off"
    BY <2>1 DEF Ended
  <2>3. Down(cell, d)'
    BY <2>2, LinesRest
  <2>4. CASE AckDone
    <3>0. AckLevel = 0 <=> AckBit
      BY <2>4 DEF AckDone, AckLevel
    <3>1. pc' = "read" /\ ~stuck' /\ (talking' <=> (talking /\ AckLevel = 0))
      BY <2>4, <3>0, Zenon DEF AckDone
    <3>2. Ready(cell)'
      BY <2>2, <3>1 DEF Ready, Sends
    <3> QED
      BY <2>3, <3>1, <3>2 DEF Begins
  <2>5. CASE NakBadLength
    <3>1. pc' = "stop" /\ ~stuck' /\ AckLevel # 0
      BY <2>5 DEF NakBadLength, AckLevel
    <3>2. Ready(cell)'
      BY <2>2, <3>1 DEF Ready, Silent
    <3> QED
      BY <2>3, <3>1, <3>2 DEF Begins
  <2> QED
    BY <1>2, <2>4, <2>5
<1> QED
  BY <1>1, <1>2

\* i2c_start(), i2c_repstart() and i2c_stop() return.
LEMMA ConditionReturns ==
    ASSUME IInv, Ordered, Ended, Steady, ~stuck,
           RepStart \/ RepStartTen \/ RetryStart \/ RetryStop \/ Stop,
           UNCHANGED <<wire, temp>>, err' = FALSE
    PROVE  Begins' /\ ~stuck'
<1>1. CASE RepStart \/ RepStartTen \/ RetryStart
  <2>1. pc \in {"rep", "rep10", "retry_start"}
    BY <1>1 DEF RepStart, RepStartTen, RetryStart
  <2>2. PICK cell \in Chip, d \in Level :
           Down(cell, d) /\ cell.busy /\ cell.mode = "addr" /\ cell.n = 0 /\ cell.byte = 0
    BY <2>1 DEF Ended, Woken
  <2>3. Down(cell, d)'
    BY <2>2, LinesRest
  <2>4. pc' = "addr" /\ phase' # "x2" /\ ~stuck'
    BY <1>1, <2>1 DEF RepStart, RepStartTen, RetryStart, Ordered
  <2>5. Ready(cell)'
    BY <2>2, <2>4 DEF Ready, Listens, Listener
  <2> QED
    BY <2>3, <2>4, <2>5 DEF Begins
<1>2. CASE RetryStop
  <2>1. pc = "retry_stop" /\ pc' = "retry_start" /\ ~stuck'
    BY <1>2 DEF RetryStop
  <2>2. Free'
    BY <2>1, LinesRest DEF Ended
  <2> QED
    BY <2>1, <2>2 DEF Begins
<1>3. CASE Stop
  <2>1. pc = "stop" /\ pc' = "idle" /\ ~stuck' /\ talking' = talking
    BY <1>3 DEF Stop
  <2>2. Free' /\ ~talking'
    BY <2>1, LinesRest, NobodySends DEF Ended
  <2> QED
    BY <2>1, <2>2 DEF Begins
<1> QED
  BY <1>1, <1>2, <1>3

\* Every call that returns leaves the wire where the next one may begin.
LEMMA CallKeeps ==
    ASSUME IInv, IInv', Ordered, InStep, Outs => OutByte \in 0..255,
           (Outs => OutByte \in 0..255)', CallReturns
    PROVE  InStep'
<1>1. todo = <<>> /\ Steady /\ ~stuck /\ err = FALSE /\ UNCHANGED <<wire, temp>> /\ err' = FALSE
  BY DEF CallReturns, InStep, Steady
<1>2. Ended
  BY <1>1, AtEnd
<1>3. Outb = 1 - rx
  BY <1>1 DEF Outb
<1>4. Begins' /\ ~stuck'
  <2>1. CASE OutAddressBy(Outb)
    <3>1. OutByte \in 0..255
      BY <2>1 DEF OutAddressBy, Outs
    <3> QED
      BY <1>1, <1>2, <1>3, <2>1, <3>1, AddressReturns
  <2>2. CASE SendByteBy(Outb)
    BY <1>1, <1>2, <1>3, <2>2, ByteReturns
  <2>3. CASE DataDone
    BY <1>1, <1>2, <2>3, DataReturns
  <2>4. CASE ReadByte(rx) \/ AckDone \/ NakBadLength
    BY <1>1, <1>2, <2>4, ReadReturns
  <2>5. CASE RepStart \/ RepStartTen \/ RetryStart \/ RetryStop \/ Stop
    BY <1>1, <1>2, <2>5, ConditionReturns
  <2> QED
    BY <1>1, <2>1, <2>2, <2>3, <2>4, <2>5 DEF CallReturns
<1>5. Steady'
  BY <1>1, LinesRest
<1>6. (pc \in PC /\ count \in Nat)'
  BY DEF IInv, TypeOK
<1>7. (todo = CallOps)' /\ (rx = 0)'
  BY DEF CallReturns
<1>8. (todo = CallOps /\ rx = 0 /\ Begins /\ pc \in PC /\ count \in Nat
        /\ (Outs => OutByte \in 0..255) => Place)'
  BY BeginPlace, PTL
<1>9. Place'
  BY <1>4, <1>6, <1>7, <1>8
<1> QED
  BY <1>4, <1>5, <1>9 DEF InStep

\* bit_xfer() is called on a bus that is free.
LEMMA XferStarts ==
    ASSUME IInv', Steady, Free, NEW ms, Call(ms), Orderly(ms)
    PROVE  InStep' /\ (ms # <<>> => pc' = "addr" /\ phase' = FirstPhase(ms[1]))
<1>1. todo = <<>> /\ UNCHANGED <<wire, temp>> /\ err' = FALSE
  BY DEF Call
<1>2. Free' /\ Steady'
  BY <1>1, LinesRest
<1>3. msgs' = ms /\ Len(ms) \in Nat /\ ms \in Seq(Msg)
  <2>1. msgs' = ms
    BY DEF Call, Xfer
  <2>2. (TypeOK => Messages)'
    BY MessagesOK, PTL
  <2> QED
    BY <2>1, <2>2 DEF IInv, Messages, TypeOK
<1>4. EnterMsg(1, ms) /\ ~stuck'
  BY DEF Call, Xfer
<1>5. ~(1 <= Len(ms) /\ ms[1].nostart)
  <2>1. ASSUME 1 <= Len(ms), ms[1].nostart PROVE FALSE
    <3>1. 1 \in 1..Len(ms)
      BY <1>3, <2>1
    <3> QED
      BY <2>1, <3>1 DEF Orderly
  <2> QED
    BY <2>1
<1>6. /\ pc' \in {"addr", "stop"} /\ (pc' = "addr" => phase' # "x2")
      /\ 1 <= Len(ms) => pc' = "addr" /\ phase' = FirstPhase(ms[1])
  BY <1>3, <1>4, <1>5 DEF EnterMsg, FirstPhase
<1>7. AtStart'
  BY <1>2, <1>6 DEF AtStart, Call
<1>8. ms # <<>> => 1 <= Len(ms)
  BY <1>3, EmptySeq
<1> QED
  BY <1>2, <1>4, <1>6, <1>7, <1>8 DEF InStep

LEMMA XferKeeps ==
    ASSUME IInv', InStep, Outs => OutByte \in 0..255, NEW ms, Call(ms), Orderly(ms)
    PROVE  InStep'
<1>1. todo = <<>> /\ pc = "idle" /\ Steady
  BY DEF Call, Xfer, InStep
<1>2. Free
  BY <1>1, AtEnd DEF Ended, Rests, AtRest
<1> QED
  BY <1>1, <1>2, XferStarts

-----------------------------------------------------------------------------
(* The wire stays in step until something disturbs it.                     *)

\* No control message was lost and sclhi() has not given up.
Calm == lost = 0 /\ held = 0

\* The inductive invariant, with that of the transfer and BitsLeft.
Follows == LinesOK /\ Ordered /\ (Calm => InStep)

LEMMA FollowsInit == WireInit => Follows
<1> SUFFICES ASSUME WireInit PROVE Follows
  OBVIOUS
<1>1. LinesOK
  BY LinesInit
<1>2. pc = "idle" /\ msgs = <<>> /\ talking = FALSE /\ stuck = FALSE
  BY DEF WireInit, Init
<1>3. Len(msgs) = 0
  BY <1>2, EmptySeq
<1>4. Orderly(msgs)
  BY <1>3 DEF Orderly
<1>5. Ordered
  BY <1>2, <1>4 DEF Ordered
<1>6. Steady /\ Free /\ todo = <<>>
  BY DEF WireInit, Steady, Free, PoweredUp
<1>7. Place
  BY <1>2, <1>6 DEF Place, Rests, AtRest
<1> QED
  BY <1>1, <1>2, <1>5, <1>6, <1>7 DEF Follows, InStep

\* What was lost or held up stays so.
LEMMA Disturbed ==
    ASSUME LinesOK, [WireNext]_wvars
    PROVE  Calm' => Calm /\ Undisturbed
<1>1. lost \in Nat /\ held \in Nat
  BY Types
<1>2. CASE LineOp
  <2>1. lost' \in {lost, lost + 1} /\ held' \in {held, held + 1}
    BY <1>2 DEF LineOp, SetLines
  <2> QED
    BY <1>1, <2>1 DEF Calm, Undisturbed
<1>3. CASE UNCHANGED <<lost, held>>
  BY <1>3 DEF Calm, Undisturbed
<1> QED
  BY <1>2, <1>3 DEF WireNext, Wire, CallReturns, Call, Hardware, Stretch, Release, Measure, wire, wvars

LEMMA FollowsNext ==
    ASSUME \A ms \in Transfers : Orderly(ms), IInv, IInv', BitsLeft, Follows, [WireNext]_wvars
    PROVE  Follows'
<1>1. LinesOK'
  BY LinesNext DEF Follows
<1>2. Ordered'
  BY WireStep, OrderedNext DEF Follows
<1>3. ASSUME Calm' PROVE InStep'
  <2>1. LinesOK /\ Ordered /\ InStep /\ Undisturbed
    BY <1>3, Disturbed DEF Follows
  <2>2. Outs => OutByte \in 0..255
    BY <2>1, OutByteOK
  <2>3. (Outs => OutByte \in 0..255)'
    <3>1. (IInv /\ Ordered => (Outs => OutByte \in 0..255))'
      BY OutByteOK, PTL
    <3> QED
      BY <1>2, <3>1
  <2>4. CASE LineOp
    BY <2>1, <2>2, <2>4, LineKeeps
  <2>5. CASE CallReturns
    BY <2>1, <2>2, <2>3, <2>5, CallKeeps
  <2>6. ASSUME NEW ms \in Transfers, Call(ms) PROVE InStep'
    BY <2>1, <2>2, <2>6, XferKeeps
  <2>7. CASE Hardware
    <3>1. Aside
      BY <2>1, <2>7, HardwareAside DEF InStep
    <3> QED
      BY <2>1, <2>2, <3>1, Stays
  <2>8. CASE UNCHANGED wvars
    <3>1. Aside
      BY <2>1, <2>8 DEF wvars, Aside, Down, Rising, Up, Free, Begun, InStep, Steady
    <3> QED
      BY <2>1, <2>2, <3>1, Stays
  <2> QED
    BY <2>4, <2>5, <2>6, <2>7, <2>8 DEF WireNext, Wire
<1> QED
  BY <1>1, <1>2, <1>3 DEF Follows

\* The wire is in step with every transfer of orderly messages.
LEMMA FollowsInvariant ==
    ASSUME \A ms \in Transfers : Orderly(ms)
    PROVE  WireSpec => []Follows
<1>1. IInv /\ IInv' /\ BitsLeft /\ Follows /\ [WireNext]_wvars => Follows'
  BY FollowsNext
<1> QED
  BY <1>1, FollowsInit, WireInvariant, PTL DEF WireSpec

-----------------------------------------------------------------------------
(* What the runs check of the wire.                                        *)

\* The first operation of what a call has left.
LEMMA Heads ==
    ASSUME NEW z \in Seq(Ops), NEW w \in {"wait", "wait_or_fail"}, NEW b
    PROVE  /\ Head(<<w>> \o z) = w /\ Head(PulseOps(w, z)) = "scl1"
           /\ Head(SclThen(z)) = "scl0" /\ Head(GetThen(z)) = "get"
           /\ Head(<<"sda0">> \o z) = "sda0" /\ Head(<<"sda1">> \o z) = "sda1"
           /\ Head(<<SetSda(b)>> \o z) \in {"sda0", "sda1"}
<1>1. {"sda0", "sda1", "scl0", "scl1", "get"} \subseteq Ops /\ w \in Ops /\ SetSda(b) \in Ops
  BY DEF Ops, SetSda
<1>2. WaitThen(w, z) \in Seq(Ops) /\ SclThen(z) \in Seq(Ops)
  BY Pulses, ThenOps
<1>3. SetSda(b) \in {"sda0", "sda1"}
  BY DEF SetSda
<1> QED
  BY <1>1, <1>2, <1>3, Cons DEF PulseOps, SclThen, GetThen

\* What each call does on the lines.
LEMMA Calls ==
    /\ pc \in {"rep", "rep10"} => CallOps = RepStartOps
    /\ pc \in {"stop", "retry_stop"} => CallOps = StopOps
    /\ pc = "retry_start" => CallOps = StartOps
    /\ Outs => CallOps = OutRest(OutByte)[1]
    /\ Ins => CallOps = InbOps
    /\ pc \in {"ack", "bad_length"} =>
          CallOps = IF AckLevel = 0 THEN <<"sda0">> \o PulseOps("wait_or_fail", SclThen(<<>>))
                    ELSE PulseOps("wait_or_fail", SclThen(<<>>))
<1>1. /\ pc \in {"rep", "rep10"} => CallOps = RepStartOps
      /\ pc \in {"stop", "retry_stop"} => CallOps = StopOps
      /\ pc = "retry_start" => CallOps = StartOps
  BY DEF CallOps
<1>2. Outs => CallOps = OutRest(OutByte)[1]
  <2>1. Outs => CallOps = OutbOps(OutByte)
    BY DEF CallOps, Outs
  <2> QED
    BY <2>1, OutOps
<1>3. Ins => CallOps = InbOps
  BY DEF CallOps, Ins
<1>4. ASSUME pc \in {"ack", "bad_length"}
      PROVE  CallOps = IF AckLevel = 0 THEN <<"sda0">> \o PulseOps("wait_or_fail", SclThen(<<>>))
                       ELSE PulseOps("wait_or_fail", SclThen(<<>>))
  <2> DEFINE ack == IF pc = "ack" THEN AckBit ELSE FALSE
  <2>1. CallOps = AcknakOps(ack)
    BY <1>4 DEF CallOps
  <2>2. (AckLevel = 0) <=> ack
    BY <1>4 DEF AckLevel
  <2>3. ack \in BOOLEAN
    <3>1. AckBit \in BOOLEAN
      BY DEF AckBit
    <3> QED
      BY <3>1
  <2> QED
    BY <2>1, <2>2, <2>3, AckOps1
<1> QED
  BY <1>1, <1>2, <1>3, <1>4

\* What i2c_outb() has left at each bit, and at its acknowledge.
LEMMA OutParts ==
    ASSUME NEW c, NEW n \in 0..7
    PROVE  /\ OutRest(c)[n + 1] \in Seq(Ops) /\ OutRest(c)[n + 1] # <<>>
           /\ Head(OutRest(c)[n + 1]) \in {"sda0", "sda1"}
           /\ OutRest(c)[n + 2] \in Seq(Ops) /\ OutRest(c)[n + 2] # <<>>
           /\ SclThen(OutRest(c)[n + 2]) \in Seq(Ops)
           /\ Len(OutRest(c)[n + 2]) < Len(OutRest(c)[n + 1])
<1>1. \A k \in 0..8 : OutRest(c)[k + 1] \in Seq(Ops)
  BY OutOps
<1>2. \A k \in 0..7 : OutRest(c)[k + 1] =
          <<SetSda(BitOf(c, k))>> \o PulseOps("wait_or_fail", SclThen(OutRest(c)[k + 2]))
  BY OutOps
<1>3. OutRest(c)[n + 2] \in Seq(Ops) /\ OutRest(c)[n + 1] \in Seq(Ops)
  <2>1. (n + 1) + 1 = n + 2 /\ n + 1 \in 0..8 /\ n \in 0..8
    OBVIOUS
  <2> QED
    BY <1>1, <2>1, Zenon
<1> DEFINE r == OutRest(c)[n + 2]
           s == SclThen(r)
           p == PulseOps("wait_or_fail", s)
           q == WaitThen("wait_or_fail", s)
<1>4. OutRest(c)[n + 1] = <<SetSda(BitOf(c, n))>> \o p
  BY <1>2
<1>5. s \in Seq(Ops) /\ p \in Seq(Ops) /\ q \in Seq(Ops)
  BY <1>3, ThenOps, Pulses
<1>6. OutRest(c)[n + 1] # <<>> /\ Head(OutRest(c)[n + 1]) \in {"sda0", "sda1"}
  BY <1>4, <1>5, NotEmpty, Heads
<1>7. Len(r) < Len(OutRest(c)[n + 1])
  <2>1. {"scl0", "scl1", "wait_or_fail"} \subseteq Ops /\ SetSda(BitOf(c, n)) \in Ops
    BY DEF Ops, SetSda
  <2>2. Len(s) = Len(r) + 1
    BY <1>3, <2>1, Cons DEF SclThen
  <2>3. Len(q) = Len(s) \/ Len(q) = Len(s) + 1
    BY <1>5, <2>1, Cons DEF WaitThen
  <2>4. Len(p) = Len(q) + 1
    BY <1>5, <2>1, Cons DEF PulseOps
  <2>5. Len(OutRest(c)[n + 1]) = Len(p) + 1
    BY <1>4, <1>5, <2>1, Cons
  <2>6. Len(r) \in Nat /\ Len(s) \in Nat /\ Len(q) \in Nat /\ Len(p) \in Nat
    BY <1>3, <1>5, LenProperties
  <2> HIDE DEF r, s, p, q
  <2> QED
    BY <2>2, <2>3, <2>4, <2>5, <2>6
<1>8. r # <<>>
  <2>1. CASE n = 7
    <3>1. n + 2 = 9
      BY <2>1
    <3>2. r = AckOps
      BY <3>1, OutOps
    <3>3. AckOps # <<>>
      BY ShortCalls, NotEmpty
    <3> QED
      BY <3>2, <3>3
  <2>2. CASE n # 7
    <3>1. n + 1 \in 0..7 /\ (n + 1) + 1 = n + 2
      BY <2>2
    <3>2. r = <<SetSda(BitOf(c, n + 1))>>
                \o PulseOps("wait_or_fail", SclThen(OutRest(c)[(n + 1) + 2]))
      BY <1>2, <3>1
    <3>3. OutRest(c)[(n + 1) + 2] \in Seq(Ops)
      <4>1. (n + 2) + 1 = (n + 1) + 2 /\ n + 2 \in 0..8
        BY <3>1
      <4> QED
        BY <1>1, <4>1, Zenon
    <3>4. PulseOps("wait_or_fail", SclThen(OutRest(c)[(n + 1) + 2])) \in Seq(Ops)
      BY <3>3, ThenOps, Pulses
    <3> QED
      BY <3>2, <3>4, NotEmpty
  <2> QED
    BY <2>1, <2>2
<1> QED
  BY <1>3, <1>5, <1>6, <1>7, <1>8

LEMMA OutFits ==
    ASSUME NEW c, NEW n \in 0..7
    PROVE  Len(OutRest(c)[n + 1]) <= Len(OutRest(c)[1])
<1> DEFINE L(k) == Len(OutRest(c)[k])
<1>1. \A k \in 0..7 : L(k + 2) < L(k + 1) /\ L(k + 1) \in Nat /\ L(k + 2) \in Nat
  BY OutParts, LenProperties
<1> HIDE DEF L
<1>2. /\ L(2) < L(1) /\ L(3) < L(2) /\ L(4) < L(3) /\ L(5) < L(4)
      /\ L(6) < L(5) /\ L(7) < L(6) /\ L(8) < L(7)
      /\ L(1) \in Nat /\ L(2) \in Nat /\ L(3) \in Nat /\ L(4) \in Nat
      /\ L(5) \in Nat /\ L(6) \in Nat /\ L(7) \in Nat /\ L(8) \in Nat
  <2>1. L(0 + 2) < L(0 + 1) /\ L(0 + 1) \in Nat /\ L(0 + 2) \in Nat
    BY <1>1
  <2>2. L(1 + 2) < L(1 + 1) /\ L(1 + 2) \in Nat
    BY <1>1
  <2>3. L(2 + 2) < L(2 + 1) /\ L(2 + 2) \in Nat
    BY <1>1
  <2>4. L(3 + 2) < L(3 + 1) /\ L(3 + 2) \in Nat
    BY <1>1
  <2>5. L(4 + 2) < L(4 + 1) /\ L(4 + 2) \in Nat
    BY <1>1
  <2>6. L(5 + 2) < L(5 + 1) /\ L(5 + 2) \in Nat
    BY <1>1
  <2>7. L(6 + 2) < L(6 + 1) /\ L(6 + 2) \in Nat
    BY <1>1
  <2> QED
    BY <2>1, <2>2, <2>3, <2>4, <2>5, <2>6, <2>7
<1>3. n + 1 \in {1, 2, 3, 4, 5, 6, 7, 8}
  OBVIOUS
<1>4. L(n + 1) <= L(1)
  BY <1>2, <1>3
<1> QED
  BY <1>4 DEF L

LEMMA InParts ==
    ASSUME NEW n \in 0..7
    PROVE  InRest[n + 2] \in Seq(Ops) /\ GetThen(InRest[n + 2]) \in Seq(Ops)
<1>1. \A k \in 0..8 : InRest[k + 1] \in Seq(Ops)
  BY InOps
<1>2. (n + 1) + 1 = n + 2 /\ n + 1 \in 0..8
  OBVIOUS
<1>3. InRest[n + 2] \in Seq(Ops)
  BY <1>1, <1>2, Zenon
<1> QED
  BY <1>3, ThenOps

\* How each call begins.
LEMMA FirstOps ==
    /\ RepStartOps # <<>> /\ Head(RepStartOps) = "sda1"
    /\ StopOps # <<>> /\ Head(StopOps) = "sda0"
    /\ StartOps # <<>> /\ Head(StartOps) = "sda0"
    /\ AckOps # <<>> /\ Head(AckOps) = "sda1"
    /\ InbOps # <<>> /\ Head(InbOps) = "sda1"
<1>1. <<>> \in Seq(Ops) /\ SclThen(<<>>) \in Seq(Ops) /\ ReadBit \in Seq(Ops)
  BY ShortCalls, ThenOps
<1>2. <<"sda0">> \o SclThen(<<>>) \in Seq(Ops) /\ <<"sda1">> \in Seq(Ops)
  <2>1. "sda0" \in Ops
    BY DEF Ops
  <2> QED
    BY <1>1, <2>1, Cons, ShortCalls
<1>3. /\ PulseOps("wait", <<"sda0">> \o SclThen(<<>>)) \in Seq(Ops)
      /\ PulseOps("wait", <<"sda1">>) \in Seq(Ops)
  BY <1>2, Pulses
<1>4. InRest[1] \in Seq(Ops)
  <2>1. 0 + 1 = 1 /\ 0 \in 0..8
    OBVIOUS
  <2> QED
    BY <2>1, InOps, Zenon
<1> QED
  BY <1>1, <1>3, <1>4, ShortCalls, InOps, NotEmpty, Heads

-----------------------------------------------------------------------------
\* Where SCL is low, or what comes next moves nothing but SCL.
LEMMA PulseAt ==
    ASSUME NEW cell, NEW d, NEW w \in {"wait", "wait_or_fail"}, NEW z \in Seq(Ops), z # <<>>,
           Pulse(cell, d, w, z)
    PROVE  /\ todo # <<>>
           /\ \/ Head(todo) = "scl1" /\ Down(cell, d)
              \/ Head(todo) = w /\ Rising(cell, d)
              \/ Head(todo) = Head(z) /\ todo = z /\ Up(cell, d)
BY NotEmpty, Heads DEF Pulse

\* The chip's part in the transfer does not change as SCL rises.
LEMMA PulseChip ==
    ASSUME NEW cell \in Chip, NEW d, NEW w, NEW z, Pulse(cell, d, w, z),
           cell.mode = "send" => cell.n # 8
    PROVE  chip.mode = cell.mode /\ chip.busy = cell.busy
<1>1. \A b : Raised(cell, b).mode = cell.mode /\ Raised(cell, b).busy = cell.busy
  BY DEF Raised, Chip
<1>2. chip = cell \/ chip = Raised(cell, SdaOf(d, cell))
  BY DEF Pulse, Down, Rising, Up
<1> QED
  BY <1>1, <1>2

LEMMA FallHead ==
    SclThen(<<>>) \in Seq(Ops) /\ SclThen(<<>>) # <<>> /\ Head(SclThen(<<>>)) = "scl0"
<1>1. <<>> \in Seq(Ops) /\ "scl0" \in Ops
  BY ShortCalls DEF Ops
<1> QED
  BY <1>1, Cons DEF SclThen

LEMMA TakeHead ==
    GetThen(<<>>) \in Seq(Ops) /\ GetThen(<<>>) # <<>> /\ Head(GetThen(<<>>)) = "get"
<1>1. SclThen(<<>>) \in Seq(Ops) /\ "get" \in Ops
  BY FallHead DEF Ops
<1> QED
  BY <1>1, Cons DEF GetThen

-----------------------------------------------------------------------------
LEMMA HistoriesFollow ==
    ASSUME IInv, Ordered, InStep, held = 0
    PROVE  HistoriesReal
<1> SUFFICES ASSUME AtCall
             PROVE  /\ bus = "owned" <=> chip.busy
                    /\ talking <=> chip.mode = "send"
  BY DEF HistoriesReal
<1>1. todo = CallOps /\ CallOps \in Seq(Ops) /\ ~stuck
  BY CallOpsSeq DEF AtCall, InStep
<1>2. (bus = "owned") <=> pc \notin {"idle", "retry_start"}
  BY DEF IInv, BusFramed, TypeOK
<1>3. talking \in BOOLEAN
  BY DEF IInv, TypeOK
<1>4. ~AtStart
  <2>1. /\ Len(StartOps \o CallOps) = Len(CallOps) + 2
        /\ Len(SclThen(CallOps)) = Len(CallOps) + 1 /\ Len(CallOps) \in Nat
    BY <1>1, Starting, LenProperties
  <2> QED
    BY <1>1, <2>1 DEF AtStart
<1>5. ASSUME pc \notin {"idle", "retry_start"}, chip.busy, talking <=> chip.mode = "send"
      PROVE  /\ bus = "owned" <=> chip.busy
             /\ talking <=> chip.mode = "send"
  BY <1>2, <1>5
<1>6. ASSUME NEW cell \in Chip, NEW d, NEW w, NEW z, Pulse(cell, d, w, z),
             cell.busy, talking <=> cell.mode = "send", cell.mode = "send" => cell.n # 8
      PROVE  chip.busy /\ (talking <=> chip.mode = "send")
  BY <1>6, PulseChip
<1>7. ASSUME NEW cell, NEW d, Down(cell, d) PROVE chip = cell
  BY <1>7 DEF Down
<1>8. CASE pc \in {"rep", "rep10"} /\ AtRep
  <2>1. ~talking
    BY <1>1, <1>8, NobodySends
  <2>2. ASSUME NEW cell \in Chip, Silent(cell) PROVE cell.busy /\ cell.mode # "send"
    BY <2>2 DEF Silent
  <2>3. Begun => chip.busy /\ chip.mode # "send"
    BY DEF Begun
  <2> QED
    BY <1>5, <1>6, <1>7, <1>8, <2>1, <2>2, <2>3 DEF AtRep
<1>9. CASE pc \in {"stop", "retry_stop"} /\ AtStop
  <2>1. ~talking
    BY <1>1, <1>9, NobodySends
  <2>2. ASSUME NEW cell \in Chip, Silent(cell) PROVE cell.busy /\ cell.mode # "send"
    BY <2>2 DEF Silent
  <2>3. todo # <<>>
    BY <1>1, <1>9, Calls, FirstOps
  <2> QED
    BY <1>5, <1>6, <1>7, <1>9, <2>1, <2>2, <2>3 DEF AtStop
<1>10. CASE pc = "retry_start" /\ AtRetryStart
  <2>1. ~talking /\ bus # "owned"
    BY <1>1, <1>2, <1>10, NobodySends
  <2>2. todo # <<>> /\ Head(todo) = "sda0"
    BY <1>1, <1>10, Calls, FirstOps
  <2>3. Head(SclThen(<<>>)) = "scl0"
    BY FallHead
  <2>4. Free
    BY <1>10, <2>2, <2>3 DEF AtRetryStart
  <2> QED
    BY <2>1, <2>4 DEF Free
<1>11. CASE Outs /\ AtOut(OutByte)
  <2> DEFINE c == OutByte
  <2>1. ~talking /\ pc \notin {"idle", "retry_start"}
    BY <1>1, <1>11, Kinds, NobodySends
  <2>2. todo # <<>>
    <3>1. 0 \in 0..7 /\ 0 + 1 = 1
      OBVIOUS
    <3>2. OutRest(c)[0 + 1] # <<>>
      BY <3>1, OutParts
    <3> QED
      BY <1>1, <1>11, <3>1, <3>2, Calls
  <2> HIDE DEF c
  <2>3. ASSUME NEW n \in 0..7, NEW cell \in Chip, NEW b, Listens(cell, n, b)
        PROVE  cell.busy /\ cell.mode # "send"
    BY <2>3 DEF Listens, Listener
  <2>4. ASSUME NEW cell \in Chip, Answers(cell, c) PROVE cell.busy /\ cell.mode # "send"
    BY <2>4 DEF Answers, Listener, Deaf
  <2>5. AtOut(c)
    BY <1>11 DEF c
  <2>6. CASE \E n \in 0..7 : AtOutBit(c, n)
    BY <1>5, <1>6, <1>7, <2>1, <2>3, <2>6 DEF AtOutBit
  <2>7. CASE AtOutAck(c)
    <3>1. ASSUME NEW cell \in Chip, Answers(cell, c), Up(cell, 1)
          PROVE  chip.busy /\ (talking <=> chip.mode = "send")
      <4>1. Pulse(cell, 1, "wait_or_fail", todo)
        BY <3>1 DEF Pulse
      <4> QED
        BY <1>6, <2>1, <2>4, <3>1, <4>1
    <3> QED
      BY <1>5, <1>6, <1>7, <2>1, <2>4, <2>7, <3>1 DEF AtOutAck
  <2> QED
    BY <2>2, <2>5, <2>6, <2>7 DEF AtOut
<1>12. CASE Ins /\ AtIn
  <2>1. pc \notin {"idle", "retry_start"}
    BY <1>12, Kinds
  <2>2. ASSUME NEW cell, NEW n, Sends(cell, n)
        PROVE  /\ cell.busy /\ (talking <=> cell.mode = "send")
               /\ cell.mode = "send" => cell.n = n
    BY <2>2 DEF Sends
  <2>3. \A n \in 0..7 : n # 8
    OBVIOUS
  <2>4. ASSUME NEW n \in 0..7, NEW cell \in Chip, Sends(cell, n),
               NEW w, NEW z, Pulse(cell, 1, w, z)
        PROVE  chip.busy /\ (talking <=> chip.mode = "send")
    BY <1>6, <2>2, <2>3, <2>4
  <2>5. ASSUME NEW cell, Up(cell, 1) PROVE Pulse(cell, 1, "wait_or_fail", todo)
    BY <2>5 DEF Pulse
  <2> QED
    BY <1>5, <1>7, <1>12, <2>1, <2>2, <2>4, <2>5 DEF AtIn
<1>13. CASE pc \in {"ack", "bad_length"} /\ AtAck
  <2> DEFINE fall == SclThen(<<>>)
             p    == PulseOps("wait_or_fail", fall)
  <2>1. fall \in Seq(Ops) /\ p \in Seq(Ops) /\ fall # <<>> /\ Head(fall) = "scl0"
    BY FallHead, Pulses
  <2>2. CallOps = IF AckLevel = 0 THEN <<"sda0">> \o p ELSE p
    BY <1>13, Calls
  <2>3. Head(todo) \in {"sda0", "scl1"} /\ todo # <<>>
    BY <1>1, <2>1, <2>2, NotEmpty, Heads
  <2>4. ASSUME NEW cell \in Chip, Sends(cell, 8)
        PROVE  cell.busy /\ (talking <=> cell.mode = "send")
    BY <2>4 DEF Sends
  <2>5. ASSUME NEW cell \in Chip, Sends(cell, 8), Pulse(cell, AckLevel, "wait_or_fail", fall)
        PROVE  Down(cell, AckLevel)
    BY <2>1, <2>3, <2>5, PulseAt
  <2> HIDE DEF fall, p
  <2> QED
    BY <1>5, <1>7, <1>13, <2>3, <2>4, <2>5 DEF AtAck, fall
<1>14. CASE Rests /\ AtRest
  <2>1. CASE pc = "idle"
    BY <1>2, <1>14, <2>1 DEF AtRest, Free
  <2>2. CASE pc # "idle"
    <3>1. pc \in {"send", "read"} /\ ~talking
      BY <1>1, <1>14, <2>2, NobodySends DEF Rests
    <3>2. PICK cell \in Chip, d \in Level : Ready(cell) /\ Down(cell, d)
      BY <1>14, <2>2 DEF AtRest
    <3>3. cell.busy /\ cell.mode # "send"
      BY <3>1, <3>2 DEF Ready, Listens, Listener, Sends
    <3> QED
      BY <1>5, <1>7, <3>1, <3>2, <3>3
  <2> QED
    BY <2>1, <2>2
<1> QED
  BY <1>4, <1>8, <1>9, <1>10, <1>11, <1>12, <1>13, <1>14 DEF InStep, Place

LEMMA BytesFollow ==
    ASSUME InStep, Outs => OutByte \in 0..255
    PROVE  BytesExact
<1> DEFINE fall == SclThen(<<>>)
           take == GetThen(<<>>)
<1>1. CallOps \in Seq(Ops) /\ <<>> \in Seq(Ops) /\ "scl0" \in Ops
  BY CallOpsSeq, ShortCalls DEF Ops
<1>2. fall = <<"scl0">> /\ fall \in Seq(Ops) /\ fall # <<>> /\ Head(fall) = "scl0"
  BY <1>1, Single, FallHead DEF SclThen
<1>3. Tail(fall) = <<>> /\ Len(fall) = 1
  BY <1>1, <1>2, Cons DEF SclThen
<1>4. take \in Seq(Ops) /\ take # <<>> /\ Head(take) = "get"
  BY TakeHead
<1> HIDE DEF fall, take
<1>5. ASSUME pc \in {"addr", "send"}, todo = fall, rx = 0
      PROVE  chip.n = 8 /\ chip.byte = OutByte
  <2> DEFINE c == OutByte
  <2>1. ~(Rests /\ AtRest)
    BY <1>2, <1>5 DEF AtRest
  <2>2. ~AtStart
    <3>1. /\ Len(StartOps \o CallOps) = Len(CallOps) + 2
          /\ Len(SclThen(CallOps)) = Len(CallOps) + 1 /\ Len(CallOps) \in Nat
      BY <1>1, Starting, LenProperties
    <3>2. ASSUME AtStart PROVE FALSE
      <4>1. Len(CallOps) = 0
        <5>1. Len(todo) = Len(CallOps) + 2 \/ Len(todo) = Len(CallOps) + 1
          BY <3>1, <3>2, Zenon DEF AtStart
        <5>2. Len(todo) = 1 /\ Len(CallOps) \in Nat
          BY <1>3, <1>5, <3>1
        <5> QED
          BY <5>1, <5>2
      <4>2. Outs
        BY <1>5, <3>2 DEF AtStart, Outs
      <4>3. CallOps # <<>>
        <5>1. 0 \in 0..7 /\ 0 + 1 = 1
          OBVIOUS
        <5>2. OutRest(c)[0 + 1] # <<>>
          BY <5>1, OutParts
        <5> QED
          BY <4>2, <5>1, <5>2, Calls
      <4> QED
        BY <1>1, <4>1, <4>3, EmptySeq
    <3> QED
      BY <3>2
  <2>3. Outs /\ AtOut(c)
    BY <1>5, <2>1, <2>2, Kinds DEF InStep, Place
  <2> HIDE DEF c
  <2>4. ASSUME NEW n \in 0..7, AtOutBit(c, n) PROVE FALSE
    <3> DEFINE r == OutRest(c)[n + 2]
    <3>1. /\ Head(OutRest(c)[n + 1]) \in {"sda0", "sda1"}
          /\ r \in Seq(Ops) /\ r # <<>> /\ SclThen(r) \in Seq(Ops)
      BY OutParts
    <3>2. SclThen(r) # <<>>
      BY <3>1, NotEmpty
    <3>3. Tail(SclThen(r)) = r
      BY <1>1, <3>1, Cons DEF SclThen
    <3>4. ASSUME NEW cell \in Chip, Pulse(cell, BitOf(c, n), "wait_or_fail", SclThen(r))
          PROVE  todo = SclThen(r)
      BY <1>2, <1>5, <3>1, <3>2, <3>4, PulseAt
    <3> QED
      BY <1>2, <1>3, <1>5, <2>4, <3>1, <3>3, <3>4 DEF AtOutBit
  <2>5. AtOutAck(c)
    BY <1>2, <1>5, <2>3, <2>4 DEF AtOut
  <2>6. PICK cell \in Chip : Answers(cell, c) /\ 0 = SdaOf(1, cell) /\ Up(cell, 1)
    <3>1. Head(AckOps) = "sda1"
      BY FirstOps
    <3>2. ASSUME NEW cell \in Chip, Pulse(cell, 1, "wait_or_fail", take) PROVE FALSE
      BY <1>2, <1>4, <1>5, <3>2, PulseAt
    <3> QED
      BY <1>2, <1>5, <2>5, <3>1, <3>2 DEF AtOutAck, take
  <2>7. Pulls(cell)
    BY <2>6 DEF SdaOf
  <2>8. cell.mode \in {"addr", "ptr", "data"} /\ cell.n = 8 /\ cell.byte = c
    BY <2>6, <2>7 DEF Answers, Deaf, Listener, Pulls
  <2>9. chip = cell
    BY <2>6, <2>8 DEF Up, Rising, Raised
  <2> QED
    BY <2>8, <2>9 DEF c
<1>6. ASSUME pc = "read", count > 0, todo = <<>>, talking
      PROVE  chip.n = 8 /\ chip.byte = rx
  <2>1. Ins
    BY <1>6 DEF Ins
  <2>2. PICK cell \in Chip : Sends(cell, 8) /\ Prefix(cell, 8) /\ Down(cell, 1)
    BY <1>6, <2>1, AtEnd DEF Ended
  <2>3. chip = cell /\ cell.n = 8 /\ rx = cell.byte \div 2^(8 - 8)
    BY <1>6, <2>2 DEF Sends, Prefix, Down
  <2>4. cell.byte \in 0..255
    BY ChipFields
  <2> QED
    BY <2>3, <2>4, AllBits
<1> QED
  BY <1>2, <1>5, <1>6 DEF BytesExact

LEMMA LinesFollow ==
    ASSUME InStep, Outs => OutByte \in 0..255
    PROVE  LinesAsserted
<1> DEFINE fall == SclThen(<<>>)
           take == GetThen(<<>>)
<1>1. CallOps \in Seq(Ops) /\ Len(CallOps) \in Nat /\ <<>> \in Seq(Ops)
  BY CallOpsSeq, ShortCalls, LenProperties
<1>2. fall \in Seq(Ops) /\ fall # <<>> /\ Head(fall) = "scl0"
  BY FallHead
<1>3. take \in Seq(Ops) /\ take # <<>> /\ Head(take) = "get"
  BY TakeHead
<1>4. /\ <<"sda0">> \o fall \in Seq(Ops) /\ <<"sda0">> \o fall # <<>>
      /\ Head(<<"sda0">> \o fall) = "sda0" /\ Len(<<"sda0">> \o fall) = Len(fall) + 1
      /\ <<"sda1">> \in Seq(Ops) /\ <<"sda1">> # <<>> /\ Head(<<"sda1">>) = "sda1"
  <2>1. "sda0" \in Ops
    BY DEF Ops
  <2> QED
    BY <1>2, <2>1, Cons, ShortCalls
<1>5. ASSUME Free PROVE WireScl = 1 /\ WireSda = 1
  BY <1>5 DEF Free, High, WireScl, WireSda, SdaOf, Pulls
<1>6. /\ Len(StartOps \o CallOps) = Len(CallOps) + 2
      /\ Len(SclThen(CallOps)) = Len(CallOps) + 1
      /\ Head(SclThen(CallOps)) = "scl0"
  <2>1. "scl0" \in Ops
    BY DEF Ops
  <2> QED
    BY <1>1, <2>1, Starting, Cons DEF SclThen
<1>7. ASSUME NEW cell, NEW d, Down(cell, d) PROVE WireScl = 0
  BY <1>7 DEF Down, WireScl
<1> HIDE DEF fall, take
<1>8. ASSUME NEW cell, NEW d, NEW w \in {"wait", "wait_or_fail"}, NEW z \in Seq(Ops), z # <<>>,
             Pulse(cell, d, w, z), Head(todo) \notin {w, Head(z)}
      PROVE  Down(cell, d) /\ Head(todo) = "scl1"
  BY <1>8, PulseAt
<1>9. PICK c : c = OutByte
  OBVIOUS
<1>10. ASSUME NEW n \in 0..7, NEW cell \in Chip,
              Pulse(cell, BitOf(c, n), "wait_or_fail", SclThen(OutRest(c)[n + 2])),
              Head(todo) \in {"sda0", "sda1"}
       PROVE  FALSE
  <2> DEFINE z == SclThen(OutRest(c)[n + 2])
  <2>1. z \in Seq(Ops) /\ z # <<>> /\ Head(z) = "scl0"
    BY OutParts, NotEmpty, Heads
  <2> HIDE DEF z
  <2> QED
    BY <1>8, <1>10, <2>1 DEF z
<1>11. ASSUME NEW n \in 0..7, NEW cell \in Chip,
              \/ Pulse(cell, 1, "wait_or_fail", GetThen(InRest[n + 2]))
              \/ todo = SclThen(InRest[n + 2]),
              Head(todo) \in {"sda0", "sda1"}
       PROVE  FALSE
  <2> DEFINE z == GetThen(InRest[n + 2])
             y == SclThen(InRest[n + 2])
  <2>1. z \in Seq(Ops) /\ z # <<>> /\ Head(z) = "get" /\ Head(y) = "scl0"
    BY InParts, NotEmpty, Heads
  <2> HIDE DEF z, y
  <2> QED
    BY <1>8, <1>11, <2>1 DEF z, y
\* A call begins with SCL low.
<1>12. ASSUME AtCall, Outs \/ Ins \/ pc \in {"stop", "retry_stop", "rep", "rep10"}
       PROVE  WireScl = 0
  <2>1. todo = CallOps
    BY <1>12 DEF AtCall
  <2>2. Place
    BY <1>1, <1>6, <2>1 DEF InStep, AtStart
  <2>3. CASE pc \in {"rep", "rep10"}
    <3>1. Head(todo) = "sda1" /\ todo # <<>>
      BY <2>1, <2>3, Calls, FirstOps
    <3>2. AtRep
      BY <2>2, <2>3, Kinds DEF Place
    <3>3. ASSUME NEW cell \in Chip, Pulse(cell, 1, "wait", <<"sda0">> \o fall)
          PROVE  WireScl = 0
      BY <1>4, <1>7, <1>8, <3>1, <3>3
    <3> QED
      BY <1>2, <1>7, <3>1, <3>2, <3>3 DEF AtRep, fall
  <2>4. CASE pc \in {"stop", "retry_stop"}
    <3>1. Head(todo) = "sda0" /\ todo # <<>>
      BY <2>1, <2>4, Calls, FirstOps
    <3>2. AtStop
      BY <2>2, <2>4, Kinds DEF Place
    <3>3. ASSUME NEW cell \in Chip, Pulse(cell, 0, "wait", <<"sda1">>)
          PROVE  WireScl = 0
      BY <1>4, <1>7, <1>8, <3>1, <3>3
    <3> QED
      BY <1>7, <3>1, <3>2, <3>3 DEF AtStop
  <2>5. CASE Outs
    <3>1. Head(todo) \in {"sda0", "sda1"} /\ todo # <<>>
      <4>1. 0 \in 0..7 /\ 0 + 1 = 1
        OBVIOUS
      <4>2. OutRest(c)[0 + 1] # <<>> /\ Head(OutRest(c)[0 + 1]) \in {"sda0", "sda1"}
        BY <4>1, OutParts
      <4> QED
        BY <1>9, <2>1, <2>5, <4>1, <4>2, Calls
    <3>2. AtOut(c)
      BY <1>9, <2>2, <2>5, Kinds DEF Place
    <3>3. ASSUME NEW n \in 0..7, AtOutBit(c, n) PROVE WireScl = 0
      BY <1>7, <1>10, <3>1, <3>3 DEF AtOutBit
    <3>4. ASSUME AtOutAck(c) PROVE WireScl = 0
      <4>1. ASSUME NEW cell \in Chip, Pulse(cell, 1, "wait_or_fail", take) PROVE FALSE
        BY <1>3, <1>8, <3>1, <4>1
      <4> QED
        BY <1>2, <1>7, <3>1, <3>4, <4>1 DEF AtOutAck, fall, take
    <3> QED
      BY <3>1, <3>2, <3>3, <3>4 DEF AtOut
  <2>6. CASE Ins
    <3>1. Head(todo) = "sda1" /\ todo # <<>>
      BY <2>1, <2>6, Calls, FirstOps
    <3>2. AtIn
      BY <2>2, <2>6, Kinds DEF Place
    <3> QED
      BY <1>7, <1>11, <3>1, <3>2 DEF AtIn
  <2> QED
    BY <1>12, <2>3, <2>4, <2>5, <2>6
\* An acknowledge begins with SDA let go.
<1>13. ASSUME AtCall, pc \in {"ack", "bad_length"} PROVE WireSda = 1
  <2> DEFINE p == PulseOps("wait_or_fail", fall)
  <2>1. todo = CallOps
    BY <1>13 DEF AtCall
  <2>2. AtAck
    <3>1. Place
      BY <1>1, <1>6, <2>1 DEF InStep, AtStart
    <3> QED
      BY <1>13, <3>1, Kinds DEF Place
  <2>3. todo = IF AckLevel = 0 THEN <<"sda0">> \o p ELSE p
    BY <1>13, <2>1, Calls DEF fall
  <2>4. /\ p \in Seq(Ops) /\ p # <<>> /\ Head(p) = "scl1"
        /\ <<"sda0">> \o p # <<>> /\ Head(<<"sda0">> \o p) = "sda0"
    <3>1. p \in Seq(Ops) /\ "wait" \in {"wait", "wait_or_fail"}
      BY <1>2, Pulses
    <3> QED
      BY <1>2, <3>1, NotEmpty, Heads
  <2>5. ASSUME NEW cell \in Chip, Sends(cell, 8), Down(cell, 1) PROVE WireSda = 1
    BY <2>5 DEF Down, WireSda, SdaOf, Sends, Pulls
  <2>6. AckLevel \in {0, 1}
    BY DEF AckLevel
  <2>7. ASSUME NEW cell \in Chip, Pulse(cell, AckLevel, "wait_or_fail", fall)
        PROVE  Down(cell, 1)
    <3>1. Head(todo) \in {"sda0", "scl1"}
      BY <2>3, <2>4
    <3>2. Down(cell, AckLevel) /\ Head(todo) = "scl1"
      BY <1>2, <1>8, <2>7, <3>1
    <3>3. AckLevel = 1
      BY <2>3, <2>4, <2>6, <3>2
    <3> QED
      BY <3>2, <3>3
  <2> HIDE DEF p
  <2> QED
    BY <2>2, <2>3, <2>4, <2>5, <2>7 DEF AtAck, fall
\* A START begins on a free bus: SDA falls nowhere else before a call.
<1>14. ASSUME todo # <<>>, Head(todo) = "sda0", pc = "retry_start"
       PROVE  WireScl = 1 /\ WireSda = 1
  <2>1. AtRetryStart
    BY <1>14, Kinds DEF InStep, AtStart, Place
  <2> QED
    BY <1>2, <1>5, <1>14, <2>1 DEF AtRetryStart, fall
<1>15. ASSUME todo # <<>>, Head(todo) = "sda0", Len(todo) > Len(CallOps), pc # "retry_start"
       PROVE  WireScl = 1 /\ WireSda = 1
  <2>1. CASE AtStart
    BY <1>5, <1>6, <1>15, <2>1 DEF AtStart
  <2>2. todo # CallOps
    BY <1>1, <1>15
  <2>3. CASE pc \in {"rep", "rep10"} /\ AtRep
    <3> DEFINE tail == <<"sda0">> \o fall
               q    == WaitThen("wait", tail)
               p    == PulseOps("wait", tail)
    <3>1. CallOps = RepStartOps /\ RepStartOps = <<"sda1">> \o p
      BY <2>3, Calls, ShortCalls DEF fall
    <3>2. q \in Seq(Ops) /\ p \in Seq(Ops) /\ tail \in Seq(Ops)
      BY <1>4, Pulses
    <3>3. Len(CallOps) = Len(p) + 1 /\ Len(p) = Len(q) + 1 /\ Len(q) \in {Len(tail), Len(tail) + 1}
      <4>1. {"sda1", "scl1", "wait"} \subseteq Ops
        BY DEF Ops
      <4>2. Len(CallOps) = Len(p) + 1
        BY <3>1, <3>2, <4>1, Cons
      <4>3. Len(p) = Len(q) + 1
        BY <3>2, <4>1, Cons DEF PulseOps
      <4>4. Len(q) \in {Len(tail), Len(tail) + 1}
        BY <3>2, <4>1, Cons DEF WaitThen
      <4> QED
        BY <4>2, <4>3, <4>4
    <3>4. Len(p) \in Nat /\ Len(q) \in Nat /\ Len(tail) \in Nat
      BY <3>2, LenProperties
    <3>5. todo # tail
      <4> HIDE DEF tail, p, q
      <4> QED
        BY <1>1, <1>15, <3>3, <3>4
    <3>6. ASSUME NEW cell \in Chip, Pulse(cell, 1, "wait", tail) PROVE FALSE
      BY <1>4, <1>15, <3>5, <3>6, PulseAt
    <3> QED
      BY <1>2, <1>15, <2>2, <2>3, <3>1, <3>6 DEF AtRep, fall
  <2>4. CASE pc \in {"stop", "retry_stop"} /\ AtStop
    <3>1. CallOps = StopOps
      BY <2>4, Calls
    <3>2. ASSUME NEW cell \in Chip, Pulse(cell, 0, "wait", <<"sda1">>) PROVE FALSE
      BY <1>4, <1>8, <1>15, <3>2
    <3> QED
      BY <1>15, <2>2, <2>4, <3>1, <3>2 DEF AtStop
  <2>5. CASE Outs /\ AtOut(OutByte)
    <3>1. AtOut(c) /\ CallOps = OutRest(c)[1]
      BY <1>9, <2>5, Calls
    <3>2. ASSUME NEW n \in 0..7, AtOutBit(c, n) PROVE FALSE
      <4>1. todo # OutRest(c)[n + 1]
        <5>1. Len(OutRest(c)[n + 1]) <= Len(OutRest(c)[1])
          BY OutFits
        <5>2. Len(OutRest(c)[n + 1]) \in Nat
          BY OutParts, LenProperties
        <5> QED
          BY <1>1, <1>15, <3>1, <5>1, <5>2
      <4> QED
        BY <1>10, <1>15, <3>2, <4>1 DEF AtOutBit
    <3>3. ASSUME AtOutAck(c) PROVE FALSE
      <4>1. ASSUME NEW cell \in Chip, Pulse(cell, 1, "wait_or_fail", take) PROVE FALSE
        BY <1>3, <1>8, <1>15, <4>1
      <4>2. Head(AckOps) = "sda1"
        BY FirstOps
      <4> QED
        BY <1>2, <1>15, <3>3, <4>1, <4>2 DEF AtOutAck, fall, take
    <3> QED
      BY <1>15, <3>1, <3>2, <3>3 DEF AtOut
  <2>6. CASE Ins /\ AtIn
    <3>1. Head(InbOps) = "sda1"
      BY FirstOps
    <3> QED
      BY <1>11, <1>15, <2>6, <3>1 DEF AtIn
  <2>7. CASE pc \in {"ack", "bad_length"} /\ AtAck
    <3>1. AckLevel = 0 => CallOps = <<"sda0">> \o PulseOps("wait_or_fail", fall)
      BY <2>7, Calls DEF fall
    <3>2. ASSUME NEW cell \in Chip, Pulse(cell, AckLevel, "wait_or_fail", fall) PROVE FALSE
      BY <1>2, <1>8, <1>15, <3>2
    <3> QED
      BY <1>15, <2>2, <2>7, <3>1, <3>2 DEF AtAck, fall
  <2>8. CASE Rests /\ AtRest
    BY <1>15, <2>8 DEF AtRest
  <2> QED
    BY <1>15, <2>1, <2>3, <2>4, <2>5, <2>6, <2>7, <2>8 DEF InStep, Place
<1>16. pc = "addr" \/ (pc \in {"send", "read"} /\ count > 0) => Outs \/ Ins
  BY DEF Outs, Ins
<1>17. StartAsserted
  BY <1>14, <1>15 DEF StartAsserted
<1> QED
  BY <1>12, <1>13, <1>16, <1>17 DEF LinesAsserted

\* While SCL is high inside a byte, what comes next reads or lets SCL fall.
LEMMA HighInside ==
    ASSUME InStep, Outs => OutByte \in 0..255, WireScl = 1, todo # <<>>,
           pc \notin {"rep", "rep10", "stop", "retry_stop", "retry_start"},
           ~(Len(todo) > Len(CallOps))
    PROVE  \/ Head(todo) \in {"wait_or_fail", "scl0"}
           \/ Head(todo) = "get" /\ pins.sda = 1
<1> DEFINE fall == SclThen(<<>>)
           take == GetThen(<<>>)
<1>1. CallOps \in Seq(Ops) /\ Len(CallOps) \in Nat
  BY CallOpsSeq, LenProperties
<1>2. fall \in Seq(Ops) /\ fall # <<>> /\ Head(fall) = "scl0"
  BY FallHead
<1>3. take \in Seq(Ops) /\ take # <<>> /\ Head(take) = "get"
  BY TakeHead
<1>4. ~AtStart
  <2>1. /\ Len(StartOps \o CallOps) = Len(CallOps) + 2
        /\ Len(SclThen(CallOps)) = Len(CallOps) + 1
    BY <1>1, Starting
  <2>2. ASSUME AtStart PROVE FALSE
    <3>1. Len(todo) = Len(CallOps) + 2 \/ Len(todo) = Len(CallOps) + 1
      BY <2>1, <2>2, Zenon DEF AtStart
    <3> QED
      BY <1>1, <3>1
  <2> QED
    BY <2>2
<1>5. ASSUME NEW cell, NEW d, Down(cell, d) PROVE FALSE
  BY <1>5 DEF Down, WireScl
<1>6. ASSUME NEW cell, NEW d, NEW w \in {"wait", "wait_or_fail"}, NEW z \in Seq(Ops), z # <<>>,
             Pulse(cell, d, w, z)
      PROVE  Head(todo) = w \/ (Head(todo) = Head(z) /\ pins.sda = d)
  <2>1. \/ Head(todo) = w /\ Rising(cell, d)
        \/ Head(todo) = Head(z) /\ Up(cell, d)
    BY <1>5, <1>6, PulseAt
  <2> QED
    BY <2>1 DEF Up, Rising
<1> HIDE DEF fall, take
<1>7. CASE Outs /\ AtOut(OutByte)
  <2>1. PICK c : c = OutByte
    OBVIOUS
  <2>2. AtOut(c)
    BY <1>7, <2>1
  <2>3. ASSUME NEW n \in 0..7, AtOutBit(c, n) PROVE Head(todo) \in {"wait_or_fail", "scl0"}
    <3> DEFINE z == SclThen(OutRest(c)[n + 2])
    <3>1. z \in Seq(Ops) /\ z # <<>> /\ Head(z) = "scl0"
      BY OutParts, NotEmpty, Heads
    <3>2. PICK cell \in Chip : Pulse(cell, BitOf(c, n), "wait_or_fail", z)
      BY <1>5, <2>3 DEF AtOutBit
    <3> HIDE DEF z
    <3> QED
      BY <1>6, <3>1, <3>2
  <2>4. ASSUME AtOutAck(c)
        PROVE  Head(todo) \in {"wait_or_fail", "scl0"} \/ (Head(todo) = "get" /\ pins.sda = 1)
    <3>1. \/ \E cell \in Chip : Pulse(cell, 1, "wait_or_fail", take)
          \/ todo = fall
      BY <1>5, <2>4 DEF AtOutAck, fall, take
    <3>2. ASSUME NEW cell \in Chip, Pulse(cell, 1, "wait_or_fail", take)
          PROVE  Head(todo) = "wait_or_fail" \/ (Head(todo) = "get" /\ pins.sda = 1)
      <4>1. Head(todo) = "wait_or_fail" \/ (Head(todo) = Head(take) /\ pins.sda = 1)
        BY <1>3, <1>6, <3>2
      <4> QED
        BY <1>3, <4>1, Zenon
    <3>3. todo = fall => Head(todo) = "scl0"
      BY <1>2
    <3> QED
      BY <3>1, <3>2, <3>3, Zenon
  <2> QED
    BY <2>2, <2>3, <2>4 DEF AtOut
<1>8. CASE Ins /\ AtIn
  <2>1. PICK n \in 0..7, cell \in Chip :
           \/ Pulse(cell, 1, "wait_or_fail", GetThen(InRest[n + 2]))
           \/ todo = SclThen(InRest[n + 2])
    BY <1>5, <1>8 DEF AtIn
  <2> DEFINE z == GetThen(InRest[n + 2])
             y == SclThen(InRest[n + 2])
  <2>2. z \in Seq(Ops) /\ z # <<>> /\ Head(z) = "get" /\ Head(y) = "scl0"
    BY InParts, NotEmpty, Heads
  <2>3. Pulse(cell, 1, "wait_or_fail", z) \/ todo = y
    BY <2>1
  <2> HIDE DEF z, y
  <2>4. CASE Pulse(cell, 1, "wait_or_fail", z)
    <3>1. Head(todo) = "wait_or_fail" \/ (Head(todo) = Head(z) /\ pins.sda = 1)
      BY <1>6, <2>2, <2>4
    <3> QED
      BY <2>2, <3>1, Zenon
  <2>5. CASE todo = y
    BY <2>2, <2>5
  <2> QED
    BY <2>3, <2>4, <2>5
<1>9. CASE pc \in {"ack", "bad_length"} /\ AtAck
  <2>1. PICK cell \in Chip : Pulse(cell, AckLevel, "wait_or_fail", fall)
    BY <1>5, <1>9 DEF AtAck, fall
  <2> QED
    BY <1>2, <1>6, <2>1
<1>10. CASE Rests /\ AtRest
  BY <1>10 DEF AtRest
<1> QED
  BY <1>4, <1>7, <1>8, <1>9, <1>10 DEF InStep, Place

LEMMA SdaFollows ==
    ASSUME LinesOK, Calm => InStep, Outs => OutByte \in 0..255, lost = 0, [WireNext]_wvars
    PROVE  SdaStableIn
<1> SUFFICES ASSUME held = 0, WireScl = 1, WireScl' = 1, WireSda' # WireSda,
                    pc \notin {"rep", "rep10", "stop", "retry_stop", "retry_start"},
                    ~(Len(todo) > Len(CallOps))
             PROVE  FALSE
  BY DEF SdaStableIn, InTime
<1>1. InStep /\ ~hold /\ pins.scl = 1
  BY DEF Calm, WireScl
<1>2. ~UNCHANGED <<pins, chip>>
  BY DEF WireSda
<1>3. CASE LineOp
  <2>1. todo # <<>>
    BY <1>3 DEF LineOp
  <2>2. \/ Head(todo) \in {"wait_or_fail", "scl0"}
        \/ Head(todo) = "get" /\ pins.sda = 1
    BY <1>1, <2>1, HighInside
  <2>3. control = pins
    BY <1>1 DEF InStep, Steady
  <2>4. CASE Head(todo) = "wait_or_fail"
    BY <1>2, <1>3, <2>4 DEF LineOp
  <2>5. CASE Head(todo) = "scl0"
    <3>1. SetLines([control EXCEPT !.scl = 0])
      BY <1>3, <2>5 DEF LineOp
    <3>2. pins' = [pins EXCEPT !.scl = 0]
      BY <1>2, <2>3, <3>1 DEF SetLines, Drive
    <3>3. pins'.scl = 0
      BY <3>2 DEF LinesOK, Lines
    <3> QED
      BY <3>3 DEF WireScl
  <2>6. CASE Head(todo) = "get" /\ pins.sda = 1
    <3>1. SetLines([control EXCEPT !.sda = 1])
      BY <1>3, <2>6 DEF LineOp
    <3>2. [control EXCEPT !.sda = 1] = pins
      BY <2>3, <2>6 DEF LinesOK, Lines
    <3>3. Drive(pins)
      BY <1>2, <3>1, <3>2 DEF SetLines
    <3>4. SdaMoved(pins, chip, pins.sda) = chip /\ SclMoved(pins, chip, pins.scl) = chip
      BY DEF SdaMoved, SclMoved
    <3>5. [pins EXCEPT !.sda = pins.sda] = pins /\ [pins EXCEPT !.scl = pins.scl] = pins
      BY DEF LinesOK, Lines
    <3> QED
      BY <1>2, <3>3, <3>4, <3>5 DEF Drive
  <2> QED
    BY <2>2, <2>4, <2>5, <2>6
<1>4. CASE CallReturns \/ \E ms \in Transfers : Call(ms)
  BY <1>2, <1>4 DEF CallReturns, Call, wire
<1>5. CASE Hardware
  BY <1>1, <1>2, <1>5 DEF Hardware, Stretch, Release, Measure, wire
<1>6. CASE UNCHANGED wvars
  BY <1>2, <1>6 DEF wvars
<1> QED
  BY <1>3, <1>4, <1>5, <1>6 DEF WireNext, Wire

\* Until a control message is lost, and while the chip stretches no longer than
\* sclhi() waits, the transfer's account of the bus is the chip's own: the chip
\* holds the bus between START and STOP, and sends exactly while it was told to.
THEOREM HistoriesAreReal ==
    ASSUME \A ms \in Transfers : Orderly(ms)
    PROVE  WireSpec => [](lost = 0 => HistoriesReal)
<1>1. IInv /\ Follows => (lost = 0 => HistoriesReal)
  <2> SUFFICES ASSUME IInv, Follows, lost = 0 PROVE HistoriesReal
    OBVIOUS
  <2>1. CASE held = 0
    BY <2>1, HistoriesFollow DEF Follows, Calm
  <2>2. CASE held # 0
    BY <2>2 DEF HistoriesReal, InTime
  <2> QED
    BY <2>1, <2>2
<1> QED
  BY <1>1, WireInvariant, FollowsInvariant, PTL

\* A byte that was acknowledged is the one the chip has received, and a byte that
\* was read the one it sent: i2c_outb() and i2c_inb(), for every byte, sensor
\* reading, stretch and sequence of orderly messages.
THEOREM BytesAreExact ==
    ASSUME \A ms \in Transfers : Orderly(ms)
    PROVE  WireSpec => [](lost = 0 => BytesExact)
<1>1. IInv /\ Follows => (lost = 0 => BytesExact)
  <2> SUFFICES ASSUME IInv, Follows, lost = 0 PROVE BytesExact
    OBVIOUS
  <2>1. CASE held = 0
    BY <2>1, OutByteOK, BytesFollow DEF Follows, Calm
  <2>2. CASE held # 0
    BY <2>2 DEF BytesExact, InTime
  <2> QED
    BY <2>1, <2>2
<1> QED
  BY <1>1, WireInvariant, FollowsInvariant, PTL

\* What the comments of i2c_start(), i2c_repstart(), i2c_stop(), i2c_outb(),
\* i2c_inb() and acknak() assert of the lines holds wherever one is called.
THEOREM LinesAreAsserted ==
    ASSUME \A ms \in Transfers : Orderly(ms)
    PROVE  WireSpec => [](lost = 0 => LinesAsserted)
<1>1. IInv /\ Follows => (lost = 0 => LinesAsserted)
  <2> SUFFICES ASSUME IInv, Follows, lost = 0 PROVE LinesAsserted
    OBVIOUS
  <2>1. CASE held = 0
    BY <2>1, OutByteOK, LinesFollow DEF Follows, Calm
  <2>2. CASE held # 0
    BY <2>2 DEF LinesAsserted, InTime
  <2> QED
    BY <2>1, <2>2
<1> QED
  BY <1>1, WireInvariant, FollowsInvariant, PTL

\* SDA moves under a high SCL only to make a START or a STOP: no step of the
\* program or of the chip makes one by accident inside a byte.
THEOREM SdaIsStable ==
    ASSUME \A ms \in Transfers : Orderly(ms)
    PROVE  WireSpec => [][lost = 0 => SdaStableIn]_wvars
<1>1. IInv /\ Follows /\ [WireNext]_wvars => [lost = 0 => SdaStableIn]_wvars
  <2> SUFFICES ASSUME IInv, Follows, [WireNext]_wvars, lost = 0 PROVE SdaStableIn
    OBVIOUS
  <2> QED
    BY OutByteOK, SdaFollows DEF Follows
<1> QED
  BY <1>1, WireInvariant, FollowsInvariant, PTL DEF WireSpec
=============================================================================
