-------------------------------- MODULE Ch341 -------------------------------
(***************************************************************************)
(* The ch341 serial adapter of src/src/ch341.c under a client that moves   *)
(* bits over its modem lines, as src/src/TEMPer.c does: RTS is SDA out,    *)
(* DTR is SCL, CTS is SDA in.  One step per control message or interrupt   *)
(* read.  Any message may fail, carried out or not; a status packet may    *)
(* miss the millisecond ch341_poll() waits for it.                         *)
(***************************************************************************)
EXTENDS Integers, Sequences, Ch341Baud

CONSTANTS
    SentBytes,  \* bytes i2c_outb() sends
    Speeds,     \* the speed_t values a termios holds
    MaxFail,    \* bound on the control messages that fail
    MaxLate,    \* polls in a row that may miss a packet that is due
    MaxQueue    \* status packets the adapter keeps, the newest ones

ASSUME SentBytesAssumption == SentBytes \subseteq 0..255
ASSUME SpeedsAssumption == Speeds \subseteq Nat
ASSUME BoundsAssumption == MaxFail \in Nat /\ MaxLate \in Nat /\ MaxQueue \in Nat \ {0}

VARIABLES
    call,       \* the function of the adapter that runs, or "none"
    todo,       \* what it has left to do
    heap,       \* struct ch341s allocated
    ctl,        \* line_control
    baud_rate,
    status,     \* the CTS bit of line_status
    ok,         \* the last message that carries the lines went through
    lines,      \* the lines as the adapter drives them
    programmed, \* the rate the adapter was set to, 0 before
    half,       \* the half of a new rate that was set
    pull,       \* the chip at the other end pulls SDA low
    queue,      \* status packets that wait, the oldest first
    late,       \* polls in a row that missed one
    fails

adapter == <<lines, programmed, half, pull, queue>>
vars == <<call, todo, heap, ctl, baud_rate, status, ok, adapter, late, fails>>

Level == 0..1
Lines == [sda : Level, scl : Level]
High == [sda |-> 1, scl |-> 1]
Low  == [sda |-> 0, scl |-> 0]

LevelOf(l, p) == IF l.sda = 1 /\ ~p THEN 1 ELSE 0
Cts == LevelOf(lines, pull)

DefaultBaud == 9600

-----------------------------------------------------------------------------
(* The messages of each call.                                              *)

SetBaudrate == <<"baud_a", "baud_b">>

\* ch341_configure(): "other" is a message that sets neither lines nor rate.
Configure ==
    <<"other", "other">> \o SetBaudrate \o <<"other", "other", "status", "other">>
    \o SetBaudrate \o <<"handshake", "status">>

\* ch341_open() after the first ch341_configure().
OpenRest == Configure \o <<"handshake">> \o SetBaudrate

\* Mutant of SetLine: the old lines are taken from the shadow without a poll.
SetLineBlind(op) == <<op>>
\* temper_setsda(), temper_setscl() and temper_getsda().
SetLine(op) == <<"poll", op>>
GetSda == SetLine("sda1") \o <<"poll", "sample">>

Clock == SetLine("scl1") \o SetLine("scl0")
EightTimes(op) == op[0] \o op[1] \o op[2] \o op[3] \o op[4] \o op[5] \o op[6] \o op[7]

\* i2c_outb(), i2c_inb() and acknak() on these lines.
ReadBit == SetLine("scl1") \o GetSda \o SetLine("scl0")
ReadAck == SetLine("sda1") \o ReadBit
Outb(c) ==
    LET bit(n) == IF (c \div 2^(7 - n)) % 2 = 1 THEN "sda1" ELSE "sda0"
    IN  EightTimes([n \in 0..7 |-> SetLine(bit(n)) \o Clock]) \o ReadAck
Inb == SetLine("sda1") \o EightTimes([n \in 0..7 |-> ReadBit])
Acknak(ack) == (IF ack THEN SetLine("sda0") ELSE <<>>) \o Clock

I2cStart == SetLine("sda0") \o SetLine("scl0")
I2cRepstart == SetLine("sda1") \o SetLine("scl1") \o SetLine("sda0") \o SetLine("scl0")
I2cStop == SetLine("sda0") \o SetLine("scl1") \o SetLine("sda1")

\* temp_reset(): a START, nine clocks, a START and a STOP.
ResetEnd ==
    SetLine("scl1") \o SetLine("sda0") \o SetLine("scl0")
    \o SetLine("scl1") \o SetLine("sda1")
TempReset ==
    SetLine("scl1") \o SetLine("sda1") \o SetLine("sda0") \o SetLine("scl0")
    \o SetLine("sda1") \o EightTimes([n \in 0..7 |-> Clock]) \o Clock \o ResetEnd

-----------------------------------------------------------------------------
(* One control message or poll.                                            *)

\* The interrupt endpoint reports a change of CTS.
Report(q, level) ==
    IF Len(q) < MaxQueue THEN Append(q, level) ELSE Append(Tail(q), level)

\* The chip may pull SDA from now on: it sends, or has a byte to acknowledge, or
\* is clocked on in the byte where a process before left it.
ChipsTurn ==
    \/ call \in {"inb", "acknak"}
    \/ call = "outb" /\ Len(todo) <= Len(ReadAck) + 1
    \/ call = "reset" /\ Len(todo) > Len(ResetEnd) + 1

\* The adapter drives l.  When SCL falls the chip turns to the next bit.
DriveLines(l) ==
    /\ lines' = l
    /\ pull' \in IF lines.scl = 0 \/ l.scl = 1 THEN {pull}
                 ELSE IF ChipsTurn THEN BOOLEAN ELSE {FALSE}
    /\ queue' = IF LevelOf(l, pull') = Cts THEN queue ELSE Report(queue, LevelOf(l, pull'))
    /\ UNCHANGED <<programmed, half>>

\* Mutant of Sent: the message is made before the shadow is updated.
SentBefore == ctl
Sent == ctl'

\* What a message does to the adapter that carries it out.  The rate is set in
\* two halves, of which the second makes it valid.
Effect(op) ==
    CASE op \in {"handshake", "close", "sda0", "sda1", "scl0", "scl1"} -> DriveLines(Sent)
      [] op = "baud_a" ->
            half' = baud_rate /\ UNCHANGED <<lines, programmed, pull, queue>>
      [] op = "baud_b" ->
            /\ programmed' = IF half = baud_rate THEN baud_rate ELSE 0
            /\ UNCHANGED <<lines, half, pull, queue>>
      [] OTHER -> UNCHANGED adapter

\* ch341_tiocmset() of what ch341_tiocmget() returned, one bit changed.
NewControl(op) ==
    CASE op = "sda0" -> [ctl EXCEPT !.sda = 0]
      [] op = "sda1" -> [ctl EXCEPT !.sda = 1]
      [] op = "scl0" -> [ctl EXCEPT !.scl = 0]
      [] op = "scl1" -> [ctl EXCEPT !.scl = 1]
      [] op = "close" -> Low
      [] OTHER -> ctl

Carries == {"handshake", "close", "sda0", "sda1", "scl0", "scl1"}
Ignored == Carries \ {"handshake"}

\* Mutant of Checked: the results of ch341_set_handshake() are dropped.
CheckedExceptHandshake(op) == op \notin Carries
\* The caller looks at the result of this message.
Checked(op) == call = "open" /\ op \notin Ignored

\* ch341_open() gives up: the first time round the structure is only freed.
OpenFails ==
    IF Len(todo) > Len(OpenRest)
    THEN call' = "none" /\ todo' = <<>> /\ heap' = heap - 1
    ELSE call' = "close" /\ todo' = <<"close">> /\ UNCHANGED heap

BaudRefused == ~Accepts(baud_rate)

Message ==
    LET op == Head(todo) IN
    /\ todo # <<>> /\ op \notin {"poll", "sample"}
    /\ op = "baud_a" => ~BaudRefused
    /\ ctl' = NewControl(op)
    /\ \/ /\ Effect(op)
          /\ status' = IF op = "status" THEN Cts ELSE status
          /\ ok' = (op \in Carries \/ ok)
          /\ todo' = Tail(todo)
          /\ UNCHANGED <<call, heap, fails>>
       \/ /\ fails < MaxFail
          /\ fails' = fails + 1
          /\ Effect(op) \/ UNCHANGED adapter
          /\ ok' = (ok /\ op \notin Carries)
          /\ UNCHANGED status
          /\ IF Checked(op) THEN OpenFails
             ELSE /\ todo' = IF op = "baud_a" THEN Tail(Tail(todo)) ELSE Tail(todo)
                  /\ UNCHANGED <<call, heap>>
    /\ UNCHANGED <<baud_rate, late>>

\* ch341_set_baudrate() of a rate it has no divisor for.
RefuseBaud ==
    /\ todo # <<>> /\ Head(todo) = "baud_a"
    /\ BaudRefused
    /\ IF Checked("baud_a") THEN OpenFails
       ELSE todo' = Tail(Tail(todo)) /\ UNCHANGED <<call, heap>>
    /\ UNCHANGED <<ctl, baud_rate, status, ok, adapter, late, fails>>

\* Mutant of Poll: the interrupt read waits without a limit.
PollWaits ==
    /\ todo # <<>> /\ Head(todo) = "poll" /\ queue # <<>>
    /\ todo' = Tail(todo) /\ status' = Head(queue) /\ queue' = Tail(queue)
    /\ UNCHANGED <<call, heap, ctl, baud_rate, ok, lines, programmed, half, pull, late, fails>>

\* ch341_poll(): one packet, if it comes in time.
Poll ==
    /\ todo # <<>> /\ Head(todo) = "poll"
    /\ todo' = Tail(todo)
    /\ \/ /\ queue # <<>>
          /\ status' = Head(queue)
          /\ queue' = Tail(queue)
          /\ late' = 0
       \/ /\ queue = <<>> \/ late < MaxLate
          /\ late' = IF queue = <<>> THEN 0 ELSE late + 1
          /\ UNCHANGED <<status, queue>>
    /\ UNCHANGED <<call, heap, ctl, baud_rate, ok, lines, programmed, half, pull, fails>>

\* temper_getsda() takes CTS for the level of SDA.
Sample ==
    /\ todo # <<>> /\ Head(todo) = "sample"
    /\ todo' = Tail(todo)
    /\ UNCHANGED <<call, heap, ctl, baud_rate, status, ok, adapter, late, fails>>

\* No call runs.  The bus is free after a reset or a STOP, an address follows a
\* START, and acknak() only a byte received.
Resting == {"none", "opened", "free", "started", "idle", "received"}

\* A call returns; ch341_close() has freed the structure.
Return ==
    /\ call \notin Resting
    /\ todo = <<>>
    /\ call' = (CASE call = "open" -> "opened"
                  [] call = "close" -> "none"
                  [] call \in {"reset", "stop", "termios"} -> "free"
                  [] call \in {"start", "repstart"} -> "started"
                  [] call = "inb" -> "received"
                  [] OTHER -> "idle")
    /\ heap' = IF call = "close" THEN heap - 1 ELSE heap
    /\ UNCHANGED <<todo, ctl, baud_rate, status, ok, adapter, late, fails>>

-----------------------------------------------------------------------------
(* The client.                                                             *)

Begin(what, ops) == call' = what /\ todo' = ops

Open ==
    /\ call = "none"
    /\ Begin("open", Configure \o OpenRest)
    /\ heap' = heap + 1
    /\ ctl' = High
    /\ baud_rate' = DefaultBaud
    /\ status' = 0
    /\ ok' = FALSE
    /\ UNCHANGED <<adapter, late, fails>>

Quiescent == UNCHANGED <<heap, ctl, baud_rate, status, ok, adapter, late, fails>>

\* temp_reset(), once in TEMPer_attach() and before each update.
Reset == call \in {"opened", "free"} /\ Begin("reset", TempReset) /\ Quiescent

\* The calls of the I2C layer.
Start == call = "free" /\ Begin("start", I2cStart) /\ Quiescent
RepStart == call \in {"idle", "received"} /\ Begin("repstart", I2cRepstart) /\ Quiescent
Stop == call \in {"idle", "received"} /\ Begin("stop", I2cStop) /\ Quiescent
MoveByte ==
    /\ \/ /\ call \in {"started", "idle", "received"}
          /\ \E c \in SentBytes : Begin("outb", Outb(c))
       \/ call \in {"idle", "received"} /\ Begin("inb", Inb)
       \/ call = "received" /\ \E ack \in BOOLEAN : Begin("acknak", Acknak(ack))
    /\ Quiescent

\* ch341_set_termios().
SetTermios ==
    /\ call = "free"
    /\ \E s \in Speeds :
       /\ baud_rate' = s
       /\ ctl' = IF s # 0 THEN High ELSE Low
       /\ Begin("termios", (IF s # 0 THEN SetBaudrate ELSE <<>>) \o <<"handshake">>)
    /\ UNCHANGED <<heap, status, ok, adapter, late, fails>>

Close == call \in Resting \ {"none"} /\ Begin("close", <<"close">>) /\ Quiescent

\* The process ends without ch341_close(): the adapter stays as it is.
Exit ==
    /\ call # "none"
    /\ call' = "none" /\ todo' = <<>> /\ heap' = 0
    /\ UNCHANGED <<ctl, baud_rate, status, ok, adapter, late, fails>>

Init ==
    /\ call = "none" /\ todo = <<>> /\ heap = 0
    /\ ctl = Low /\ baud_rate = 0 /\ status = 0 /\ ok = FALSE
    /\ lines \in Lines /\ programmed = 0 /\ half = 0 /\ pull = FALSE /\ queue = <<>>
    /\ late = 0 /\ fails = 0

Running == Message \/ RefuseBaud \/ Poll \/ Sample \/ Return
I2cCalls == Reset \/ Start \/ RepStart \/ Stop \/ MoveByte
Next == Running \/ Open \/ I2cCalls \/ SetTermios \/ Close \/ Exit

Spec == Init /\ [][Next]_vars /\ WF_vars(Running)

-----------------------------------------------------------------------------
(* Properties.                                                             *)

\* Every variable has its type.
TypeOK ==
    /\ call \in Resting \cup {"open", "reset", "start", "repstart", "stop", "outb", "inb",
                          "acknak", "termios", "close"}
    /\ heap \in Int /\ ctl \in Lines /\ lines \in Lines
    /\ baud_rate \in Nat /\ programmed \in Nat /\ half \in Nat
    /\ status \in Level /\ ok \in BOOLEAN /\ pull \in BOOLEAN
    /\ queue \in Seq(Level) /\ Len(queue) <= MaxQueue
    /\ late \in 0..MaxLate /\ fails \in 0..MaxFail

\* What temper_getsda() takes for SDA is the level it has, as long as no message
\* failed and no termios was set since the adapter was opened: the packets that
\* the process before, a reset, the STARTs and STOPs and the bits before left in
\* the adapter have been read, and the poll of each line operation keeps up.
\* (TEMPer.c:65-76, ch341.c:324-333)
SampleTrue ==
    todo # <<>> /\ Head(todo) = "sample" /\ fails = 0 /\ baud_rate = DefaultBaud =>
        status = Cts

\* ch341_open() returns a device only if the adapter drives both lines high and
\* runs at 9600: a message that fails is never passed over, and whichever fails,
\* the structure is freed, once.  (ch341.c:234-273)
OpenConfigured ==
    /\ call = "opened" => lines = High /\ programmed = DefaultBaud
    /\ heap = IF call = "none" THEN 0 ELSE 1

\* One message that gets through brings both lines back to what the program set,
\* whatever was lost before.  (ch341.c:305-322)
LinesFollow == ok /\ call \in Resting \ {"none"} => lines = ctl

\* What the adapter divides its clock by, from the words it is sent.
SentShift == DivMax - (WordA(baud_rate) % 256)
SentFactor == 65536 - (256 * (WordA(baud_rate) \div 256) + WordB(baud_rate))

\* The two words carry a divisor that is never 0 and the one integer for which
\* the adapter's rate is the rate asked for or the next one above it, and no
\* finer divisor would have fitted.  Only rates that no divisor fits are
\* refused, those below 46.  (ch341.c:106-127)
BaudNearest ==
    IF ~Accepts(baud_rate) THEN baud_rate < 46 ELSE
        /\ baud_rate >= 46
        /\ SentShift \in 0..DivMax /\ SentFactor \in 1..MaxFactor
        /\ baud_rate * SentFactor * EightTo(SentShift) <= BaudbaseFactor
        /\ baud_rate * (SentFactor + 1) * EightTo(SentShift) > BaudbaseFactor
        /\ SentShift > 0 => SentFactor * 8 + 7 > MaxFactor

\* Every call returns, unless the process ends first.
CallsReturn == call \notin Resting ~> call \in Resting

=============================================================================
