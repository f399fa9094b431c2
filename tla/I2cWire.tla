------------------------------- MODULE I2cWire ------------------------------
(***************************************************************************)
(* The calls of a transfer on the two wires: i2c_start, i2c_repstart,      *)
(* i2c_stop, i2c_outb, i2c_inb and acknak of src/src/i2c-algo-bit.c as the  *)
(* line operations they make, one step each, with the chip of Lm75 at the  *)
(* other end.  I2cXfer says which call comes next; what it chooses freely, *)
(* the answer of the bus, is here read off the wire.                       *)
(*                                                                         *)
(* The lines are RTS (SDA) and DTR (SCL) of a ch341: the adapter writes    *)
(* both in each control message, from a shadow, and does not hear of a     *)
(* message that is lost.  An adapter that can read SCL waits for it.       *)
(***************************************************************************)
EXTENDS I2cXfer, Lm75

CONSTANTS
    Temps,      \* temperatures the sensor may measure, as the register's 16 bits
    MaxLost,    \* bound on the control messages that are lost
    MaxHeld     \* bound on the times the chip outlasts sclhi()

ASSUME TempsAssumption == Temps \subseteq Word /\ Temps # {}
ASSUME BoundsAssumption == MaxLost \in Nat /\ MaxHeld \in Nat
ASSUME BytesAssumption == ReadValues = 0..255

VARIABLES
    todo,       \* the line operations that the current call has left
    rx,         \* bits getsda() delivered in this call
    err,        \* sclhi() timed out in this call
    got,        \* the bytes this transfer stored into read buffers
    control,    \* ch341.line_control: the lines as the program set them
    pins,       \* the lines as the adapter drives them
    hold,       \* the chip stretches: it holds SCL low
    chip,
    temp,       \* what the sensor measures now
    lost,       \* control messages lost so far
    held        \* times sclhi() has given up so far

wire == <<control, pins, hold, chip, lost, held>>
wvars == <<vars, todo, rx, err, got, control, pins, hold, chip, temp,
           lost, held>>

Level == 0..1
Lines == [sda : Level, scl : Level]
High  == [sda |-> 1, scl |-> 1]

\* Open collector lines: low if anyone pulls.
SdaOf(d, ch) == IF d = 1 /\ ~Pulls(ch) THEN 1 ELSE 0
WireSda == SdaOf(pins.sda, chip)
WireScl == IF hold THEN 0 ELSE pins.scl

-----------------------------------------------------------------------------
(* The calls as line operations.                                           *)

SetSda(b) == IF b = 1 THEN "sda1" ELSE "sda0"

\* sclhi(): its result is used, or dropped.
SclHi       == <<"scl1">> \o (IF CanTimeout THEN <<"wait_or_fail">> ELSE <<>>)
SclHiUnseen == <<"scl1">> \o (IF CanTimeout THEN <<"wait">> ELSE <<>>)

\* What op[n] does for each bit n, the highest first.
EightTimes(op) == op[0] \o op[1] \o op[2] \o op[3] \o op[4] \o op[5] \o op[6] \o op[7]

StartOps    == <<"sda0", "scl0">>
RepStartOps == <<"sda1">> \o SclHiUnseen \o <<"sda0", "scl0">>

\* Mutant of StopOps: SDA is not pulled low before SCL rises.
StopOpsHigh == SclHiUnseen \o <<"sda1">>
StopOps     == <<"sda0">> \o SclHiUnseen \o <<"sda1">>

\* Mutant of SendBit: SDA is set after SCL has risen.
SendBitLate(b) == SclHi \o <<SetSda(b), "scl0">>
SendBit(b) == <<SetSda(b)>> \o SclHi \o <<"scl0">>
ReadBit == SclHi \o <<"get", "scl0">>

OutbOps(c) == EightTimes([n \in 0..7 |-> SendBit(BitOf(c, n))]) \o <<"sda1">> \o ReadBit

\* Mutant of InbOps: SDA is not released first.
InbOpsDriven == EightTimes([n \in 0..7 |-> ReadBit])
InbOps == <<"sda1">> \o EightTimes([n \in 0..7 |-> ReadBit])

\* Mutant of AcknakOps: SCL is left high.
AcknakOpsHigh(ack) == (IF ack THEN <<"sda0">> ELSE <<>>) \o SclHi
AcknakOps(ack) == (IF ack THEN <<"sda0">> ELSE <<>>) \o SclHi \o <<"scl0">>

\* The byte i2c_outb() is called with.
OutByte == IF pc = "addr" THEN AddressByte ELSE Cur.buf[moved[i] + 1]

\* What the call that comes next does on the lines.
CallOps ==
    CASE pc = "retry_start" -> StartOps
      [] pc \in {"rep", "rep10"} -> RepStartOps
      [] pc \in {"stop", "retry_stop"} -> StopOps
      [] pc = "addr" \/ (pc = "send" /\ count > 0) -> OutbOps(OutByte)
      [] pc = "read" /\ count > 0 -> InbOps
      [] pc = "ack" -> AcknakOps(AckBit)
      [] pc = "bad_length" -> AcknakOps(FALSE)
      [] OTHER -> <<>>

-----------------------------------------------------------------------------
(* One line operation.                                                     *)

SdaMoved(p, ch, d) ==
    LET was == SdaOf(p.sda, ch)
        now == SdaOf(d, ch)
    IN  IF was = now \/ p.scl = 0 \/ hold THEN ch
        ELSE IF now = 0 THEN Started(ch) ELSE Stopped(ch)

SclMoved(p, ch, c) ==
    IF p.scl = c \/ hold THEN ch
    ELSE IF c = 1 THEN Raised(ch, SdaOf(p.sda, ch)) ELSE Lowered(ch, temp)

\* The lines go to p.  If both change, either may be first.
Drive(p) ==
    /\ pins' = p
    /\ \/ chip' = SclMoved([pins EXCEPT !.sda = p.sda], SdaMoved(pins, chip, p.sda), p.scl)
       \/ chip' = SdaMoved([pins EXCEPT !.scl = p.scl], SclMoved(pins, chip, p.scl), p.sda)

\* ch341_set_handshake() from temper_setsda() or temper_setscl(); the adapter
\* may not get the message.
SetLines(p) ==
    /\ control' = p
    /\ \/ Drive(p) /\ UNCHANGED lost
       \/ lost < MaxLost /\ lost' = lost + 1 /\ UNCHANGED <<pins, chip>>
    /\ UNCHANGED <<hold, held>>

\* Mutant of GiveUp: sclhi() waits for as long as the chip holds SCL.
GiveUpNever == FALSE
GiveUp == TRUE

LineOp ==
    /\ todo # <<>>
    /\ \/ /\ Head(todo) \in {"sda0", "sda1"}
          /\ SetLines([control EXCEPT !.sda = IF Head(todo) = "sda1" THEN 1 ELSE 0])
          /\ todo' = Tail(todo)
          /\ UNCHANGED <<rx, err>>
       \/ /\ Head(todo) \in {"scl0", "scl1"}
          /\ SetLines([control EXCEPT !.scl = IF Head(todo) = "scl1" THEN 1 ELSE 0])
          /\ todo' = Tail(todo)
          /\ UNCHANGED <<rx, err>>
       \/ /\ Head(todo) = "get"         \* temper_getsda() sets SDA first
          /\ SetLines([control EXCEPT !.sda = 1])
          /\ rx' = 2 * rx + WireSda'
          /\ todo' = Tail(todo)
          /\ UNCHANGED err
       \/ /\ Head(todo) \in {"wait", "wait_or_fail"}
          /\ \/ ~hold /\ todo' = Tail(todo) /\ UNCHANGED <<err, held>>
             \/ /\ hold /\ GiveUp
                /\ todo' = IF Head(todo) = "wait" THEN Tail(todo) ELSE <<>>
                /\ err' = (err \/ Head(todo) = "wait_or_fail")
                /\ held' = IF held < MaxHeld THEN held + 1 ELSE held
          /\ UNCHANGED <<rx, control, pins, hold, chip, lost>>
    /\ UNCHANGED <<vars, got, temp>>

-----------------------------------------------------------------------------
(* The calls return to bit_xfer().                                         *)

Outb == IF err THEN ETIMEDOUT ELSE 1 - rx

CallReturns ==
    /\ pc # "idle"
    /\ todo = <<>>
    /\ \/ /\ \/ RepStart \/ RepStartTen
             \/ OutAddressBy(Outb) \/ RetryStop \/ RetryStart
             \/ SendByteBy(Outb) \/ DataDone
             \/ err /\ (ReadTimeout \/ AckTimeout \/ NakTimeout)
             \/ ~err /\ (AckDone \/ NakBadLength)
             \/ Stop
          /\ UNCHANGED got
       \/ ~err /\ ReadByte(rx) /\ got' = Append(got, rx)
    /\ todo' = CallOps'
    /\ rx' = 0
    /\ err' = FALSE
    /\ UNCHANGED <<wire, temp>>

\* bit_xfer() is called and makes a START first.
Call(ms) ==
    /\ todo = <<>>
    /\ Xfer(ms)
    /\ todo' = StartOps \o CallOps'
    /\ got' = <<>>
    /\ rx' = 0
    /\ err' = FALSE
    /\ UNCHANGED <<wire, temp>>

-----------------------------------------------------------------------------
(* The chip and what it measures.                                          *)

\* A chip in a transfer holds SCL while it is low, for as long as it likes.
Stretch ==
    /\ CanTimeout /\ held < MaxHeld
    /\ ~hold /\ pins.scl = 0 /\ chip.mode # "off"
    /\ hold' = TRUE
    /\ UNCHANGED <<vars, todo, rx, err, got, control, pins, chip, temp, lost, held>>

Release ==
    /\ hold
    /\ hold' = FALSE
    /\ chip' = IF pins.scl = 1 THEN Raised(chip, WireSda) ELSE chip
    /\ UNCHANGED <<vars, todo, rx, err, got, control, pins, temp, lost, held>>

Measure ==
    /\ \E t \in Temps \ {temp} : temp' = t
    /\ UNCHANGED <<vars, todo, rx, err, got, wire>>

Wire == LineOp \/ CallReturns
Hardware == Stretch \/ Release \/ Measure

WireInit ==
    /\ Init
    /\ todo = <<>>
    /\ rx = 0
    /\ err = FALSE
    /\ got = <<>>
    /\ control = High
    /\ pins = High
    /\ hold = FALSE
    /\ chip = PoweredUp
    /\ temp \in Temps
    /\ lost = 0
    /\ held = 0

WireNext == Wire \/ Hardware \/ \E ms \in Transfers : Call(ms)

\* The program runs on; nothing is assumed of the chip.
WireSpec == WireInit /\ [][WireNext]_wvars /\ WF_wvars(Wire)

-----------------------------------------------------------------------------
(* Properties.                                                             *)

\* Every variable of the wire has its type.
WireTypeOK ==
    /\ rx \in 0..255
    /\ err \in BOOLEAN
    /\ control \in Lines /\ pins \in Lines
    /\ hold \in BOOLEAN
    /\ chip \in Chip
    /\ temp \in Temps
    /\ lost \in 0..MaxLost
    /\ held \in 0..MaxHeld

\* What the driver above passes keeps to this: no direction is reversed and no
\* read goes without its acknowledges, a read asks for something, a write has its
\* bytes, and a read without a START goes on from a read.  (TEMPer.c:132-180)
Orderly(ms) ==
    \A k \in 1..Len(ms) :
        /\ ~ms[k].rev /\ ~ms[k].noRdAck
        /\ ms[k].rd => ms[k].len > 0
        /\ ~ms[k].rd => ms[k].len = Len(ms[k].buf)
        /\ ms[k].nostart => k > 1 /\ (ms[k].rd => ms[k - 1].rd)

\* A call is about to make its first line operation.
AtCall == todo = CallOps /\ rx = 0 /\ ~err

\* The chip never outlasted sclhi().
InTime == held = 0

\* What I2cXfer only records is so on the wire, as long as the chip stretches no
\* longer than sclhi() waits: it holds the bus exactly when the chip has seen a
\* START and no STOP, and the chip sends exactly when it was told to and not
\* told to stop.  So a STOP is never lost to a chip that holds SDA.
\* (i2c-algo-bit.c:118-144, 403-443)
HistoriesReal ==
    AtCall /\ InTime =>
        /\ bus = "owned" <=> chip.busy
        /\ talking <=> chip.mode = "send"

\* A byte that was acknowledged is the one the chip has received, and a byte
\* that was read the one it sent, bit for bit, however the chip stretches in
\* between as long as sclhi() waits for it.  (i2c-algo-bit.c:155-224)
BytesExact ==
    InTime =>
    /\ pc \in {"addr", "send"} /\ todo = <<"scl0">> /\ rx = 0 /\ ~err =>
          chip.n = 8 /\ chip.byte = OutByte
    /\ pc = "read" /\ count > 0 /\ todo = <<>> /\ ~err /\ talking =>
          chip.n = 8 /\ chip.byte = rx

\* i2c-algo-bit.c:120, 128, 139, 162, 196, 208, 222, 383: what the comments
\* assert of the lines where a call begins; so it is while sclhi() never gives
\* up.
StartAsserted ==
    todo # <<>> /\ Head(todo) = "sda0" /\ (pc = "retry_start" \/ Len(todo) > Len(CallOps)) =>
        WireScl = 1 /\ WireSda = 1
LinesAsserted ==
    InTime =>
    /\ StartAsserted
    /\ AtCall /\ (pc \in {"stop", "retry_stop", "rep", "rep10", "addr"}
                   \/ (pc \in {"send", "read"} /\ count > 0)) =>
          WireScl = 0
    /\ AtCall /\ pc \in {"ack", "bad_length"} => WireSda = 1

\* i2c-algo-bit.c:151-152: i2c_outb() returns "1 if the device acknowledged".
AckReal ==
    pc \in {"addr", "send"} /\ todo = <<"scl0">> /\ rx = 0 =>
        chip.mode # "send" /\ chip.n = 8

\* While sclhi() never gives up, SDA moves under a high SCL only to make a START
\* or a STOP: neither the program nor the chip makes one by accident inside a byte.
SdaStableIn ==
    InTime /\ WireScl = 1 /\ WireScl' = 1 /\ WireSda' # WireSda =>
        \/ pc \in {"rep", "rep10", "stop", "retry_stop", "retry_start"}
        \/ Len(todo) > Len(CallOps)
SdaStable == [][SdaStableIn]_wvars

\* The wire implements the transfer of I2cXfer, its fairness included: each
\* line operation leaves it alone, each call that returns is one of its steps,
\* and every transfer ends.
ImplementsXfer == FairSpec
=============================================================================
