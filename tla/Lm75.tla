-------------------------------- MODULE Lm75 --------------------------------
(***************************************************************************)
(* The sensor of a TEMPer stick as src/src/TEMPer.c uses it: an LM75-like   *)
(* I2C slave at address 0x4f with a pointer, a temperature and a           *)
(* configuration register.  It is hardware, so everything here is external *)
(* to the repository; it knows nothing but the two wires.                  *)
(***************************************************************************)
EXTENDS Integers

RegTemp   == 0      \* REG_TEMP
RegConfig == 1      \* REG_CONFIG

WriteAddress == 158     \* 0x4f << 1
ReadingAddress == 159   \* (0x4f << 1) | 1

Word == {v \in Nat : v <= 65535}    \* two bytes

Chip == [mode  : {"off", "addr", "ptr", "data", "send"},
         n     : -1..8,     \* bit of the byte, 8 its acknowledge, -1 after START
         byte  : 0..255,    \* shifted in so far, or being sent
         ptr   : 0..3,
         cfg   : 0..255,
         latch : Word,      \* the temperature as of the address byte
         high  : BOOLEAN,   \* the next byte sent is the first of the register
         busy  : BOOLEAN]   \* a START was seen and no STOP since

\* After power on: 9 bit resolution.
PoweredUp == [mode |-> "off", n |-> -1, byte |-> 0, ptr |-> 0, cfg |-> 0,
              latch |-> 0, high |-> TRUE, busy |-> FALSE]

BitOf(b, n) == (b \div 2^(7 - n)) % 2

\* The chip pulls SDA low: an acknowledge, or a 0 it sends.
Pulls(ch) ==
    \/ ch.mode \in {"addr", "ptr", "data"} /\ ch.n = 8
    \/ ch.mode = "send" /\ ch.n \in 0..7 /\ BitOf(ch.byte, ch.n) = 0

\* Not spoken to: waits for a START.
Off(ch) == [ch EXCEPT !.mode = "off", !.n = -1, !.byte = 0, !.high = TRUE]

\* SDA falls, or rises, while SCL is high.
Started(ch) == [Off(ch) EXCEPT !.mode = "addr", !.busy = TRUE]
Stopped(ch) == [Off(ch) EXCEPT !.busy = FALSE]

\* SCL rises with this level on SDA.
Raised(ch, level) ==
    IF ch.mode \in {"addr", "ptr", "data"} /\ ch.n \in 0..7
    THEN [ch EXCEPT !.byte = (2 * @ + level) % 256]
    ELSE IF ch.mode = "send" /\ ch.n = 8 /\ level = 1
    THEN Off(ch)
    ELSE ch

\* The byte of the selected register that is sent next.
Register(ch, latch, high) ==
    CASE ch.ptr = RegTemp   -> IF high THEN latch \div 256 ELSE latch % 256
      [] ch.ptr = RegConfig -> ch.cfg
      [] OTHER -> 0

\* Eight bits are in: acknowledge them if they are for this chip.
ByteIn(ch) ==
    CASE ch.mode = "addr" /\ ch.byte \notin {WriteAddress, ReadingAddress} ->
            Off(ch)
      [] ch.mode = "ptr" -> [ch EXCEPT !.n = 8, !.ptr = ch.byte % 4]
      [] ch.mode = "data" /\ ch.ptr = RegConfig -> [ch EXCEPT !.n = 8, !.cfg = ch.byte]
      [] OTHER -> [ch EXCEPT !.n = 8]

\* The acknowledge is over: the next byte.
NextByte(ch, temp) ==
    CASE ch.mode = "addr" /\ ch.byte = ReadingAddress ->
            [ch EXCEPT !.mode = "send", !.n = 0, !.latch = temp,
                       !.byte = Register(ch, temp, TRUE), !.high = FALSE]
      [] ch.mode = "addr" /\ ch.byte = WriteAddress ->
            [ch EXCEPT !.mode = "ptr", !.n = 0, !.byte = 0]
      [] ch.mode = "send" ->
            [ch EXCEPT !.n = 0, !.byte = Register(ch, ch.latch, ch.high), !.high = ~@]
      [] OTHER -> [ch EXCEPT !.mode = "data", !.n = 0, !.byte = 0]

\* SCL falls.
Lowered(ch, temp) ==
    CASE ch.mode = "off" -> ch
      [] ch.mode # "off" /\ ch.n < 7 -> [ch EXCEPT !.n = @ + 1]
      [] ch.mode # "off" /\ ch.n = 7 -> ByteIn(ch)
      [] ch.mode # "off" /\ ch.n = 8 -> NextByte(ch, temp)
=============================================================================
