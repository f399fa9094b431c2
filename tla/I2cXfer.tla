------------------------------- MODULE I2cXfer ------------------------------
(***************************************************************************)
(* One I2C master transfer, bit_xfer() of src/src/i2c-algo-bit.c, at the   *)
(* level of the bytes and conditions it puts on the bus: each call of      *)
(* i2c_start, i2c_repstart, i2c_stop, i2c_outb, i2c_inb and acknak is one   *)
(* action, and what the bus answers is a choice.                           *)
(*                                                                         *)
(* Only flags, lengths and the length byte of a block read decide what     *)
(* happens here; I2cWire puts the bytes themselves on the wire.            *)
(***************************************************************************)
EXTENDS Integers, Sequences

CONSTANTS
    Transfers,      \* the message arrays the drivers above pass to i2c_xfer()
    Retries,        \* i2c_adapter.retries
    ReadValues,     \* bytes a chip may send
    CanTimeout      \* the adapter can read SCL (getscl # NULL), so sclhi() can fail

BlockMax == 32      \* I2C_SMBUS_BLOCK_MAX

\* msg.len is a uint16_t, to which a block read adds up to BlockMax.  Its
\* callers ask for one byte, or two with a PEC (i2c.h:43-47), so it never wraps.
MaxLen == 65535 - BlockMax

Msg == [addr : 0..1023,
        rd : BOOLEAN,           \* I2C_M_RD
        ten : BOOLEAN,          \* I2C_M_TEN
        nostart : BOOLEAN,      \* I2C_M_NOSTART
        ignNak : BOOLEAN,       \* I2C_M_IGNORE_NAK
        noRdAck : BOOLEAN,      \* I2C_M_NO_RD_ACK
        recvLen : BOOLEAN,      \* I2C_M_RECV_LEN
        rev : BOOLEAN,          \* I2C_M_REV_DIR_ADDR
        len : 0..MaxLen,
        buf : Seq(0..255)]      \* what a write sends

ASSUME TransfersAssumption == Transfers \subseteq Seq(Msg)
ASSUME RetriesAssumption == Retries \in Nat
ASSUME ReadValuesAssumption == ReadValues \subseteq 0..255
ASSUME CanTimeoutAssumption == CanTimeout \in BOOLEAN

EIO       == -5
ENXIO     == -6
ETIMEDOUT == -110
EREMOTEIO == -121

VARIABLES
    pc,         \* the call on the bus that comes next
    msgs,       \* msgs[] as the caller passed it
    len,        \* len[k]: msgs[k].len, which a block read increments
    i,          \* bit_xfer()'s loop variable, from 1
    phase,      \* which address byte bit_doAddress() sends
    tries,      \* try_address()'s loop variable
    count,      \* bytes left in sendbytes() or readbytes()
    moved,      \* moved[k]: wrcount or rdcount of message k
    ret,        \* the value bit_xfer() returns
    bus,        \* history: between STOP and START the bus is "idle", else "owned"
    talking,    \* history: the chip was told to send and not yet told to stop
    stuck,      \* history: since the last START a bit of a byte or an ACK timed out
    answered    \* history: answered[k]: message k's address was acknowledged

vars == <<pc, msgs, len, i, phase, tries, count, moved, ret,
          bus, talking, stuck, answered>>

OutbResults == {1, 0} \cup (IF CanTimeout THEN {ETIMEDOUT} ELSE {})

Cur == msgs[i]

MaxTries == IF Cur.ignNak THEN 0 ELSE Retries

OneMoreTry == tries <= MaxTries     \* mutant of MoreTries: one attempt too many
MoreTries  == tries < MaxTries

SameTry == tries                    \* mutant of NextTry: the attempts are not counted
NextTry == tries + 1

AnyLength(v)   == v > 0             \* mutant of LegalLength: no upper limit
LegalLength(v) == v > 0 /\ v <= BlockMax

AlwaysAck == TRUE                   \* mutant of AckBit: the last byte is ACKed too
AckBit    == count > 0

FirstPhase(m) == IF m.ten THEN "x1" ELSE "a7"

\* The chip is addressed for reading by this byte.
ReadAddress == (phase = "a7" /\ Cur.rd # Cur.rev) \/ (phase = "x3" /\ Cur.rd)

\* The address byte i2c_outb() sends: unsigned char, so bits above 7 are lost.
AddressByte ==
    LET readBit   == IF Cur.rd # Cur.rev THEN 1 ELSE 0
        extended  == 240 + ((Cur.addr \div 128) % 4)
    IN  CASE phase = "a7" -> ((2 * Cur.addr) % 256) + readBit
          [] phase = "x1" -> extended
          [] phase = "x2" -> Cur.addr % 128
          [] phase = "x3" -> extended + 1 - (extended % 2)

Init ==
    /\ pc = "idle"
    /\ msgs = <<>>
    /\ len = <<>>
    /\ i = 1
    /\ phase = "a7"
    /\ tries = 0
    /\ count = 0
    /\ moved = <<>>
    /\ ret = 0
    /\ bus = "idle"
    /\ talking = FALSE
    /\ stuck = FALSE
    /\ answered = <<>>

-----------------------------------------------------------------------------
(* Where control goes between two calls on the bus.                        *)

\* sendbytes() or readbytes() begins on message k.
EnterData(k, ms) ==
    /\ pc' = IF ms[k].rd THEN "read" ELSE "send"
    /\ count' = ms[k].len
    /\ UNCHANGED <<phase, tries, ret>>

\* The head of bit_xfer()'s loop, with index k.
EnterMsg(k, ms) ==
    /\ i' = k
    /\ \/ /\ k > Len(ms)
          /\ pc' = "stop"
          /\ ret' = k - 1
          /\ UNCHANGED <<phase, tries, count>>
       \/ /\ k <= Len(ms) /\ ms[k].nostart
          /\ EnterData(k, ms)
       \/ /\ k <= Len(ms) /\ ~ms[k].nostart
          /\ pc' = IF k > 1 THEN "rep" ELSE "addr"
          /\ phase' = FirstPhase(ms[k])
          /\ tries' = 0
          /\ UNCHANGED <<count, ret>>

\* bailout: with an error.
Fail(e) ==
    /\ pc' = "stop"
    /\ ret' = e
    /\ UNCHANGED <<i, phase, tries, count>>

\* Mutant of EndData: a short count is returned as it is.
EndDataShort ==
    \/ moved[i] < len[i] /\ Fail(moved[i])
    \/ moved[i] >= len[i] /\ EnterMsg(i + 1, msgs)

\* The test bit_xfer() makes when a message's bytes are done or given up.
EndData ==
    \/ moved[i] < len[i] /\ Fail(EREMOTEIO)
    \/ moved[i] >= len[i] /\ EnterMsg(i + 1, msgs)

-----------------------------------------------------------------------------
\* bit_xfer() is called; i2c_start().
Xfer(ms) ==
    /\ pc = "idle"
    /\ msgs' = ms
    /\ len' = [k \in 1..Len(ms) |-> ms[k].len]
    /\ moved' = [k \in 1..Len(ms) |-> 0]
    /\ answered' = [k \in 1..Len(ms) |-> FALSE]
    /\ bus' = "owned"
    /\ talking' = FALSE
    /\ stuck' = FALSE
    /\ EnterMsg(1, ms)

\* i2c_repstart(), before the second and later messages.
RepStart ==
    /\ pc = "rep"
    /\ pc' = "addr"
    /\ talking' = FALSE
    /\ stuck' = FALSE
    /\ UNCHANGED <<msgs, len, i, phase, tries, count, moved, ret, bus, answered>>

\* i2c_repstart() that turns a ten bit address to reading.
RepStartTen ==
    /\ pc = "rep10"
    /\ pc' = "addr"
    /\ phase' = "x3"
    /\ tries' = 0
    /\ talking' = FALSE
    /\ stuck' = FALSE
    /\ UNCHANGED <<msgs, len, i, count, moved, ret, bus, answered>>

\* bit_doAddress() after an address byte was answered by r for the last time.
AddressEnd(r) ==
    /\ answered' = [answered EXCEPT ![i] = r = 1 /\ phase # "x1"]
    /\ \/ /\ r # 1 /\ ~Cur.ignNak
          /\ Fail(IF Cur.ten THEN EREMOTEIO ELSE ENXIO)
       \/ /\ r = 1 \/ Cur.ignNak
          /\ \/ /\ phase = "x1"
                /\ phase' = "x2"
                /\ pc' = "addr"
                /\ UNCHANGED <<tries, count, ret>>
             \/ /\ phase = "x2" /\ Cur.rd
                /\ pc' = "rep10"
                /\ UNCHANGED <<phase, tries, count, ret>>
             \/ /\ \/ phase \in {"a7", "x3"}
                   \/ phase = "x2" /\ ~Cur.rd
                /\ EnterData(i, msgs)
          /\ UNCHANGED i

\* i2c_outb() of an address byte, answered by r, in try_address() or for the
\* second byte of a ten bit address, which is sent once.
OutAddressBy(r) ==
    /\ pc = "addr"
    /\ stuck' = (stuck \/ r = ETIMEDOUT)
    /\ talking' = (r = 1 /\ ReadAddress)
    /\ \/ /\ r # 1 /\ phase # "x2" /\ MoreTries
          /\ pc' = "retry_stop"
          /\ UNCHANGED <<i, phase, tries, count, ret, answered>>
       \/ /\ r = 1 \/ phase = "x2" \/ tries = MaxTries
          /\ AddressEnd(r)
    /\ UNCHANGED <<msgs, len, moved, bus>>

OutAddress == \E r \in OutbResults : OutAddressBy(r)

\* Mutant of RetryStop: the next attempt follows without a STOP.
RetryWithoutStop ==
    /\ pc = "retry_stop"
    /\ pc' = "retry_start"
    /\ UNCHANGED <<msgs, len, i, phase, tries, count, moved, ret, bus, talking, stuck, answered>>

\* i2c_stop() and i2c_start() between two attempts of try_address().
RetryStop ==
    /\ pc = "retry_stop"
    /\ pc' = "retry_start"
    /\ bus' = "idle"
    /\ UNCHANGED <<msgs, len, i, phase, tries, count, moved, ret, talking, stuck, answered>>

RetryStart ==
    /\ pc = "retry_start"
    /\ pc' = "addr"
    /\ tries' = NextTry
    /\ bus' = "owned"
    /\ stuck' = FALSE
    /\ UNCHANGED <<msgs, len, i, phase, count, moved, ret, talking, answered>>

-----------------------------------------------------------------------------
\* sendbytes(): one i2c_outb() of a data byte, answered by r.
SendByteBy(r) ==
    /\ pc = "send"
    /\ count > 0
    /\ stuck' = (stuck \/ r = ETIMEDOUT)
    /\ \/ /\ r = 1 \/ (r = 0 /\ Cur.ignNak)
          /\ count' = count - 1
          /\ moved' = [moved EXCEPT ![i] = @ + 1]
          /\ UNCHANGED <<pc, i, phase, tries, ret>>
       \/ /\ r = 0 /\ ~Cur.ignNak
          /\ Fail(EIO)
          /\ UNCHANGED moved
       \/ /\ r = ETIMEDOUT
          /\ Fail(ETIMEDOUT)
          /\ UNCHANGED moved
    /\ UNCHANGED <<msgs, len, bus, talking, answered>>

SendByte == \E r \in OutbResults : SendByteBy(r)

\* sendbytes() or readbytes() is done.
DataDone ==
    /\ pc \in {"send", "read"}
    /\ count = 0
    /\ EndData
    /\ UNCHANGED <<msgs, len, moved, bus, talking, stuck, answered>>

\* readbytes() goes on from a byte: to its acknowledge bit, or to pc0.
Acknowledged(pc0, pcAck) == pc' = IF Cur.noRdAck THEN pc0 ELSE pcAck

\* readbytes(): i2c_inb() delivers v.  The first byte of a block read is its
\* length.
ReadByte(v) ==
    LET block == Cur.recvLen /\ moved[i] = 0 IN
    /\ pc = "read"
    /\ count > 0
    /\ moved' = [moved EXCEPT ![i] = @ + 1]
    /\ \/ /\ block /\ ~LegalLength(v)
          /\ ret' = EREMOTEIO
          /\ count' = count - 1
          /\ Acknowledged("stop", "bad_length")
          /\ UNCHANGED len
       \/ /\ block /\ LegalLength(v)
          /\ count' = count - 1 + v
          /\ len' = [len EXCEPT ![i] = @ + v]
          /\ Acknowledged("read", "ack")
          /\ UNCHANGED ret
       \/ /\ ~block
          /\ count' = count - 1
          /\ Acknowledged("read", "ack")
          /\ UNCHANGED <<len, ret>>
    /\ UNCHANGED <<msgs, i, phase, tries, bus, talking, stuck, answered>>

\* i2c_inb() timed out; what was read so far is measured against the length.
ReadTimeout ==
    /\ pc = "read"
    /\ count > 0
    /\ CanTimeout
    /\ stuck' = TRUE
    /\ EndData
    /\ UNCHANGED <<msgs, len, moved, bus, talking, answered>>

\* acknak(): ACK while bytes are missing, else NAK.
AckDone ==
    /\ pc = "ack"
    /\ pc' = "read"
    /\ talking' = (talking /\ AckBit)
    /\ UNCHANGED <<msgs, len, i, phase, tries, count, moved, ret, bus, stuck, answered>>

AckTimeout ==
    /\ pc = "ack"
    /\ CanTimeout
    /\ stuck' = TRUE
    /\ Fail(ETIMEDOUT)
    /\ UNCHANGED <<msgs, len, moved, bus, talking, answered>>

Ack == AckDone \/ AckTimeout

\* acknak() of an illegal block length: always NAK, its result dropped.
NakBadLength ==
    /\ pc = "bad_length"
    /\ pc' = "stop"
    /\ talking' = FALSE
    /\ UNCHANGED <<msgs, len, i, phase, tries, count, moved, ret, bus, stuck, answered>>

NakTimeout ==
    /\ pc = "bad_length"
    /\ pc' = "stop"
    /\ CanTimeout
    /\ stuck' = TRUE
    /\ UNCHANGED <<msgs, len, i, phase, tries, count, moved, ret, bus, talking, answered>>

AckBadLength == NakBadLength \/ NakTimeout

\* bailout: i2c_stop(), whose own result is dropped, and the return.
Stop ==
    /\ pc = "stop"
    /\ pc' = "idle"
    /\ bus' = "idle"
    /\ UNCHANGED <<msgs, len, i, phase, tries, count, moved, ret, talking, stuck, answered>>

Master ==
    \/ RepStart \/ RepStartTen
    \/ OutAddress \/ RetryStop \/ RetryStart
    \/ SendByte \/ DataDone
    \/ \E v \in ReadValues : ReadByte(v)
    \/ ReadTimeout \/ Ack \/ AckBadLength
    \/ Stop

Next == Master \/ \E ms \in Transfers : Xfer(ms)

Spec == Init /\ [][Next]_vars

\* bit_xfer() runs to its end; every loop on the wire has its own bound.
FairSpec == Spec /\ WF_vars(Master)

-----------------------------------------------------------------------------
(* Properties.                                                             *)

PC == {"idle", "rep", "rep10", "addr", "retry_stop", "retry_start", "send",
       "read", "ack", "bad_length", "stop"}

\* Every variable has its type, and i, count and tries index what they should.
TypeOK ==
    /\ pc \in PC
    /\ msgs \in Seq(Msg)
    /\ i \in 1..(Len(msgs) + 1)
    /\ pc \notin {"idle", "stop"} => i <= Len(msgs)
    /\ phase \in {"a7", "x1", "x2", "x3"}
    /\ tries \in 0..Retries
    /\ pc \in {"retry_stop", "retry_start"} => tries < Retries
    /\ count \in Nat
    /\ moved \in [1..Len(msgs) -> Nat]
    /\ ret \in Int
    /\ bus \in {"idle", "owned"}
    /\ talking \in BOOLEAN
    /\ stuck \in BOOLEAN
    /\ answered \in [1..Len(msgs) -> BOOLEAN]
    /\ len \in [1..Len(msgs) -> Nat]

\* Between two STOPs exactly one START: the retries of an address free the bus
\* before they take it again, and whatever fails, a transfer that has returned
\* left the bus free.  (i2c-algo-bit.c:319-329, 520, 566)
BusFramed == bus = "idle" <=> pc \in {"idle", "retry_start"}

\* When a STOP or a repeated START is sent no chip is still waiting to send: it
\* would hold SDA and the condition would be lost.  So the last byte of every
\* read is NAKed, that of a block whose length was read late too.  Not so for
\* a read of no bytes, under I2C_M_NO_RD_ACK or I2C_M_REV_DIR_ADDR, or when SCL
\* is stuck.
\* (i2c-algo-bit.c:403-443)
ReadEndsWithNak ==
    pc \in {"stop", "rep", "rep10"} /\ talking =>
        \/ stuck
        \/ \E k \in 1..Len(msgs) :
              /\ k <= i
              /\ msgs[k].rev \/ (msgs[k].rd /\ (msgs[k].len = 0 \/ msgs[k].noRdAck))

\* i2c.h:98: bit_xfer() returns the number of messages or an error.  It returns
\* the number only if each message was answered by its chip (or NAKs were to be
\* ignored, or there was no address) and all its bytes were moved; it never
\* returns a byte count.  (i2c-algo-bit.c:521-567)
ResultHonest ==
    pc = "idle" =>
        \/ ret < 0
        \/ /\ ret = Len(msgs)
           /\ \A k \in 1..Len(msgs) :
                 /\ moved[k] = len[k]
                 /\ answered[k] \/ msgs[k].ignNak \/ msgs[k].nostart

\* readbytes() and sendbytes() never run past the caller's buffer, which for a
\* block read has I2C_SMBUS_BLOCK_MAX bytes more than its length says, whatever
\* length the chip claims.  (i2c-algo-bit.c:338-378, 403-445)
BufferBound ==
    \A k \in 1..Len(msgs) :
        moved[k] <= msgs[k].len + (IF msgs[k].recvLen THEN BlockMax ELSE 0)

\* Every transfer ends, however the chip answers.
TransferEnds == pc # "idle" ~> pc = "idle"

-----------------------------------------------------------------------------
\* What the documentation says and the code does not do.

\* i2c-algo-bit.c:450-453: bit_doAddress() fails with -ETIMEDOUT when the lines
\* are stuck.
TimeoutReported ==
    pc = "stop" /\ i <= Len(msgs) /\ stuck =>
        answered[i] \/ msgs[i].nostart \/ msgs[i].ignNak \/ ret = ETIMEDOUT

\* i2c-algo-bit.c:477: the second byte of a ten bit address is "the remaining 8
\* bit address".
TenBitsSent ==
    pc = "addr" /\ phase = "x2" => AddressByte = Cur.addr % 256

=============================================================================
