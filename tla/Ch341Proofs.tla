---------------------------- MODULE Ch341Proofs -----------------------------
(***************************************************************************)
(* Proofs about Ch341, for any bytes, rates and bounds on what fails.      *)
(***************************************************************************)
EXTENDS Ch341, SequenceTheorems, TLAPS

-----------------------------------------------------------------------------
(* What each call has to do.                                               *)

LineOps == {"poll", "sample", "sda0", "sda1", "scl0", "scl1"}
OpenOps == {"other", "baud_a", "baud_b", "status", "handshake"}
ByteCalls == {"reset", "start", "repstart", "stop", "outb", "inb", "acknak"}

LEMMA Joined ==
    ASSUME NEW S, NEW a \in Seq(S), NEW b \in Seq(S)
    PROVE  a \o b \in Seq(S)
BY ConcatProperties

LEMMA EightJoined ==
    ASSUME NEW S, NEW op \in [0..7 -> Seq(S)]
    PROVE  EightTimes(op) \in Seq(S)
<1>1. \A n \in 0..7 : op[n] \in Seq(S)
  OBVIOUS
<1>2. op[0] \o op[1] \in Seq(S)
  BY <1>1, Joined
<1>3. op[0] \o op[1] \o op[2] \in Seq(S)
  BY <1>1, <1>2, Joined
<1>4. op[0] \o op[1] \o op[2] \o op[3] \in Seq(S)
  BY <1>1, <1>3, Joined
<1>5. op[0] \o op[1] \o op[2] \o op[3] \o op[4] \in Seq(S)
  BY <1>1, <1>4, Joined
<1>6. op[0] \o op[1] \o op[2] \o op[3] \o op[4] \o op[5] \in Seq(S)
  BY <1>1, <1>5, Joined
<1>7. op[0] \o op[1] \o op[2] \o op[3] \o op[4] \o op[5] \o op[6] \in Seq(S)
  BY <1>1, <1>6, Joined
<1>8. op[0] \o op[1] \o op[2] \o op[3] \o op[4] \o op[5] \o op[6] \o op[7] \in Seq(S)
  BY <1>1, <1>7, Joined
<1> QED BY <1>8 DEF EightTimes

LEMMA LineSteps ==
    /\ \A op \in LineOps : SetLine(op) \in Seq(LineOps)
    /\ Clock \in Seq(LineOps)
    /\ ReadBit \in Seq(LineOps)
    /\ ReadAck \in Seq(LineOps)
<1>1. \A op \in LineOps : SetLine(op) \in Seq(LineOps)
  BY DEF SetLine, LineOps
<1>2. {"sda0", "sda1", "scl0", "scl1"} \subseteq LineOps
  BY DEF LineOps
<1>3. Clock \in Seq(LineOps)
  BY <1>1, <1>2, Joined DEF Clock
<1>4. <<"poll", "sample">> \in Seq(LineOps)
  BY DEF LineOps
<1>5. GetSda \in Seq(LineOps)
  BY <1>1, <1>2, <1>4, Joined DEF GetSda
<1>6. SetLine("scl1") \o GetSda \in Seq(LineOps)
  BY <1>1, <1>2, <1>5, Joined
<1>7. ReadBit \in Seq(LineOps)
  BY <1>1, <1>2, <1>6, Joined DEF ReadBit
<1>8. ReadAck \in Seq(LineOps)
  BY <1>1, <1>2, <1>7, Joined DEF ReadAck
<1> QED BY <1>1, <1>3, <1>7, <1>8

\* The calls of the I2C layer send nothing but lines.
LEMMA ByteCallsMoveLines ==
    /\ \A c \in SentBytes : Outb(c) \in Seq(LineOps)
    /\ Inb \in Seq(LineOps)
    /\ \A ack \in BOOLEAN : Acknak(ack) \in Seq(LineOps)
    /\ TempReset \in Seq(LineOps)
    /\ I2cStart \in Seq(LineOps) /\ I2cRepstart \in Seq(LineOps) /\ I2cStop \in Seq(LineOps)
<1>1. \A op \in {"sda0", "sda1", "scl0", "scl1"} : SetLine(op) \in Seq(LineOps)
  BY LineSteps DEF LineOps
<1>2. ASSUME NEW c \in SentBytes PROVE Outb(c) \in Seq(LineOps)
  <2> DEFINE bit(n) == IF (c \div 2^(7 - n)) % 2 = 1 THEN "sda1" ELSE "sda0"
             op == [n \in 0..7 |-> SetLine(bit(n)) \o Clock]
  <2>1. ASSUME NEW n \in 0..7 PROVE SetLine(bit(n)) \o Clock \in Seq(LineOps)
    <3>1. bit(n) \in {"sda0", "sda1"}
      BY Zenon
    <3> QED BY <1>1, <3>1, LineSteps, Joined
  <2>2. op \in [0..7 -> Seq(LineOps)]
    BY <2>1
  <2>3. EightTimes(op) \in Seq(LineOps)
    BY <2>2, EightJoined
  <2> QED BY <2>3, LineSteps, Joined DEF Outb
<1>3. Inb \in Seq(LineOps)
  <2>1. [n \in 0..7 |-> ReadBit] \in [0..7 -> Seq(LineOps)]
    BY LineSteps
  <2>2. EightTimes([n \in 0..7 |-> ReadBit]) \in Seq(LineOps)
    BY <2>1, EightJoined
  <2> QED BY <1>1, <2>2, Joined DEF Inb
<1>4. ASSUME NEW ack \in BOOLEAN PROVE Acknak(ack) \in Seq(LineOps)
  <2>1. (IF ack THEN SetLine("sda0") ELSE <<>>) \in Seq(LineOps)
    BY <1>1
  <2> QED BY <2>1, LineSteps, Joined DEF Acknak
<1>5. TempReset \in Seq(LineOps)
  <2>1. [n \in 0..7 |-> Clock] \in [0..7 -> Seq(LineOps)]
    BY LineSteps
  <2>2. EightTimes([n \in 0..7 |-> Clock]) \in Seq(LineOps)
    BY <2>1, EightJoined
  <2> DEFINE a == SetLine("scl1") \o SetLine("sda1") \o SetLine("sda0")
                  \o SetLine("scl0") \o SetLine("sda1")
  <2>3. SetLine("scl1") \o SetLine("sda1") \in Seq(LineOps)
    BY <1>1, Joined
  <2>4. SetLine("scl1") \o SetLine("sda1") \o SetLine("sda0") \in Seq(LineOps)
    BY <1>1, <2>3, Joined
  <2>5. SetLine("scl1") \o SetLine("sda1") \o SetLine("sda0") \o SetLine("scl0") \in Seq(LineOps)
    BY <1>1, <2>4, Joined
  <2>6. a \in Seq(LineOps)
    BY <1>1, <2>5, Joined
  <2> HIDE DEF a
  <2> DEFINE c == a \o EightTimes([n \in 0..7 |-> Clock]) \o Clock
  <2>7. a \o EightTimes([n \in 0..7 |-> Clock]) \in Seq(LineOps)
    BY <2>2, <2>6, Joined
  <2>8. c \in Seq(LineOps)
    BY <2>7, LineSteps, Joined
  <2> HIDE DEF c
  <2>9. SetLine("scl1") \o SetLine("sda0") \in Seq(LineOps)
    BY <1>1, Joined
  <2>10. SetLine("scl1") \o SetLine("sda0") \o SetLine("scl0") \in Seq(LineOps)
    BY <1>1, <2>9, Joined
  <2>11. SetLine("scl1") \o SetLine("sda0") \o SetLine("scl0") \o SetLine("scl1") \in Seq(LineOps)
    BY <1>1, <2>10, Joined
  <2>12. ResetEnd \in Seq(LineOps)
    BY <1>1, <2>11, Joined DEF ResetEnd
  <2>13. TempReset = c \o ResetEnd
    BY DEF TempReset, c, a
  <2> QED BY <2>8, <2>12, <2>13, Joined
<1>6. I2cStart \in Seq(LineOps)
  BY <1>1, Joined DEF I2cStart
<1>7. I2cRepstart \in Seq(LineOps)
  <2>1. SetLine("sda1") \o SetLine("scl1") \in Seq(LineOps)
    BY <1>1, Joined
  <2>2. SetLine("sda1") \o SetLine("scl1") \o SetLine("sda0") \in Seq(LineOps)
    BY <1>1, <2>1, Joined
  <2> QED BY <1>1, <2>2, Joined DEF I2cRepstart
<1>8. I2cStop \in Seq(LineOps)
  <2>1. SetLine("sda0") \o SetLine("scl1") \in Seq(LineOps)
    BY <1>1, Joined
  <2> QED BY <1>1, <2>1, Joined DEF I2cStop
<1> QED BY <1>2, <1>3, <1>4, <1>5, <1>6, <1>7, <1>8

-----------------------------------------------------------------------------
(* The invariant.                                                          *)

\* What the running call may have left to do.
TermiosOps == {<<"baud_a", "baud_b", "handshake">>, <<"baud_b", "handshake">>, <<"handshake">>}
Left ==
    /\ call \in Resting => todo = <<>>
    /\ call \in ByteCalls => todo \in Seq(LineOps)
    /\ call = "close" => todo \in {<<>>, <<"close">>}
    /\ call = "termios" => todo \in TermiosOps \cup {<<>>}
    /\ call = "open" => todo \in Seq(OpenOps)

\* An open ends with the handshake and the two halves of the rate, and what of
\* them is done has had its effect.
Opening ==
    call = "open" =>
        /\ ctl = High /\ baud_rate = DefaultBaud
        /\ Len(todo) >= 1 => todo[Len(todo)] = "baud_b"
        /\ Len(todo) >= 2 => todo[Len(todo) - 1] = "baud_a"
        /\ Len(todo) >= 3 => todo[Len(todo) - 2] = "handshake"
        /\ Len(todo) <= 2 => lines = High
        /\ Len(todo) <= 1 => half = DefaultBaud
        /\ Len(todo) = 0 => programmed = DefaultBaud

\* The lines are the shadow's, or the handshake that makes them so is to come.
Follows ==
    ok /\ call # "none" => lines = ctl \/ (call = "termios" /\ todo \in TermiosOps)

Inv == TypeOK /\ Left /\ Opening /\ OpenConfigured /\ Follows

LEMMA Adapter ==
    ASSUME TypeOK, NEW op, Effect(op), ctl' \in Lines
    PROVE  /\ lines' \in Lines /\ programmed' \in Nat /\ half' \in Nat /\ pull' \in BOOLEAN
           /\ queue' \in Seq(Level) /\ Len(queue') <= MaxQueue
           /\ lines' = IF op \in Carries THEN ctl' ELSE lines
           /\ half' = IF op = "baud_a" THEN baud_rate ELSE half
           /\ programmed' = IF op = "baud_b"
                            THEN IF half = baud_rate THEN baud_rate ELSE 0
                            ELSE programmed
<1>1. CASE op \in Carries
  <2>1. DriveLines(Sent)
    BY <1>1 DEF Effect, Carries
  <2>2. lines' = ctl' /\ programmed' = programmed /\ half' = half
    BY <2>1 DEF DriveLines, Sent
  <2>3. pull' \in BOOLEAN
    BY <2>1, Zenon DEF DriveLines, TypeOK
  <2>4. \A l, p : LevelOf(l, p) \in Level
    BY DEF LevelOf, Level
  <2>5. \A v \in Level : Report(queue, v) \in Seq(Level) /\ Len(Report(queue, v)) <= MaxQueue
    BY BoundsAssumption DEF TypeOK, Report
  <2>6. queue' \in Seq(Level) /\ Len(queue') <= MaxQueue
    BY <2>1, <2>4, <2>5, Zenon DEF DriveLines, TypeOK
  <2> QED BY <1>1, <2>2, <2>3, <2>6 DEF TypeOK, Carries
<1>2. CASE op \notin Carries
  <2>1. CASE op = "baud_a"
    BY <1>2, <2>1 DEF Effect, TypeOK, Carries
  <2>2. CASE op = "baud_b"
    BY <1>2, <2>2 DEF Effect, TypeOK, Carries
  <2>3. CASE op \notin {"baud_a", "baud_b"}
    BY <1>2, <2>3 DEF Effect, TypeOK, Carries, adapter
  <2> QED BY <2>1, <2>2, <2>3
<1> QED BY <1>1, <1>2

LEMMA Control ==
    ASSUME TypeOK, NEW op
    PROVE  /\ NewControl(op) \in Lines
           /\ op \notin Carries => NewControl(op) = ctl
           /\ op \in OpenOps => NewControl(op) = ctl
<1>1. \A b \in Level : [ctl EXCEPT !.sda = b] \in Lines /\ [ctl EXCEPT !.scl = b] \in Lines
  BY DEF TypeOK, Lines
<1>2. 0 \in Level /\ 1 \in Level /\ Low \in Lines /\ ctl \in Lines
  BY DEF Level, Lines, Low, TypeOK
<1> QED BY <1>1, <1>2, Zenon DEF NewControl, Carries, OpenOps

\* The last two and the one before of a sequence that ends in two more.
LEMMA Ends ==
    ASSUME NEW S, NEW s \in Seq(S), Len(s) >= 1, NEW t \in Seq(S), Len(t) = 2
    PROVE  LET j == s \o t IN
           /\ j \in Seq(S) /\ Len(j) >= 3
           /\ j[Len(j)] = t[2] /\ j[Len(j) - 1] = t[1] /\ j[Len(j) - 2] = s[Len(s)]
<1> DEFINE j == s \o t
<1>1. /\ j \in Seq(S) /\ Len(j) = Len(s) + 2
      /\ \A k \in 1..(Len(s) + 2) : j[k] = IF k <= Len(s) THEN s[k] ELSE t[k - Len(s)]
  <2>1. /\ j \in Seq(S) /\ Len(j) = Len(s) + Len(t)
        /\ \A k \in 1..(Len(s) + Len(t)) : j[k] = IF k <= Len(s) THEN s[k] ELSE t[k - Len(s)]
    BY ConcatProperties, Zenon
  <2> QED BY <2>1
<1>2. Len(s) \in Nat
  OBVIOUS
<1> HIDE DEF j
<1>3. j[Len(s) + 2] = t[2] /\ j[Len(s) + 1] = t[1] /\ j[Len(s)] = s[Len(s)]
  BY <1>1, <1>2
<1> QED BY <1>1, <1>2, <1>3 DEF j

\* The program of ch341_open().
LEMMA OpenProgram ==
    LET s == Configure \o OpenRest IN
    /\ s \in Seq(OpenOps) /\ Len(s) >= 3
    /\ s[Len(s)] = "baud_b" /\ s[Len(s) - 1] = "baud_a" /\ s[Len(s) - 2] = "handshake"
<1> DEFINE h == <<"handshake">>
           t == <<"baud_a", "baud_b">>
           s == Configure \o (Configure \o h)
<1>1. Configure \in Seq(OpenOps)
  <2>1. <<"other", "other">> \in Seq(OpenOps) /\ <<"baud_a", "baud_b">> \in Seq(OpenOps)
        /\ <<"other", "other", "status", "other">> \in Seq(OpenOps)
        /\ <<"handshake", "status">> \in Seq(OpenOps) /\ <<"handshake">> \in Seq(OpenOps)
    BY DEF OpenOps
  <2>2. <<"other", "other">> \o SetBaudrate \in Seq(OpenOps)
    BY <2>1, Joined DEF SetBaudrate
  <2>3. <<"other", "other">> \o SetBaudrate \o <<"other", "other", "status", "other">> \in Seq(OpenOps)
    BY <2>1, <2>2, Joined
  <2>4. <<"other", "other">> \o SetBaudrate \o <<"other", "other", "status", "other">>
        \o SetBaudrate \in Seq(OpenOps)
    BY <2>1, <2>3, Joined DEF SetBaudrate
  <2> QED BY <2>1, <2>4, Joined DEF Configure
<1>2. /\ h \in Seq(OpenOps) /\ Len(h) = 1 /\ h[1] = "handshake"
      /\ t \in Seq(OpenOps) /\ Len(t) = 2 /\ t[1] = "baud_a" /\ t[2] = "baud_b"
  BY DEF OpenOps
<1>3. Configure \o OpenRest = Configure \o ((Configure \o h) \o t)
  BY DEF OpenRest, SetBaudrate
<1> HIDE DEF h, t
<1>4. /\ Configure \o h \in Seq(OpenOps) /\ Len(Configure \o h) = Len(Configure) + 1
      /\ (Configure \o h)[Len(Configure) + 1] = "handshake"
  <2> DEFINE a == Configure
  <2>1. /\ a \o h \in Seq(OpenOps) /\ Len(a \o h) = Len(a) + Len(h)
        /\ \A k \in 1..(Len(a) + Len(h)) : (a \o h)[k] = IF k <= Len(a) THEN a[k] ELSE h[k - Len(a)]
    BY <1>1, <1>2, ConcatProperties, Zenon
  <2>2. Len(a) \in Nat
    BY <1>1
  <2> HIDE DEF a
  <2>3. /\ a \o h \in Seq(OpenOps) /\ Len(a \o h) = Len(a) + 1
        /\ (a \o h)[Len(a) + 1] = "handshake"
    BY <1>2, <2>1, <2>2
  <2> QED BY <2>3 DEF a
<1>5. /\ s \in Seq(OpenOps) /\ Len(s) = Len(Configure) + (Len(Configure) + 1)
      /\ s[Len(Configure) + (Len(Configure) + 1)] = "handshake"
  <2>1. Len(Configure) \in Nat
    BY <1>1
  <2> DEFINE a == Configure
             b == Configure \o h
  <2>2. /\ a \o b \in Seq(OpenOps) /\ Len(a \o b) = Len(a) + Len(b)
        /\ \A k \in 1..(Len(a) + Len(b)) : (a \o b)[k] = IF k <= Len(a) THEN a[k] ELSE b[k - Len(a)]
    BY <1>1, <1>4, ConcatProperties, Zenon
  <2>3. Len(b) = Len(a) + 1 /\ b[Len(a) + 1] = "handshake"
    BY <1>4
  <2>4. s = a \o b
    OBVIOUS
  <2> HIDE DEF a, b, s
  <2>5. Len(a) \in Nat /\ Len(Configure) = Len(a)
    BY <2>1 DEF a
  <2> QED BY <2>2, <2>3, <2>4, <2>5
<1>6. (Configure \o (Configure \o h)) \o t = Configure \o ((Configure \o h) \o t)
  BY <1>1, <1>2, <1>4, ConcatAssociative
<1>7. Configure \o OpenRest = s \o t
  BY <1>3, <1>6
<1>8. Len(s) >= 1
  BY <1>1, <1>5
<1> HIDE DEF s
<1>9. /\ s \o t \in Seq(OpenOps) /\ Len(s \o t) >= 3
      /\ (s \o t)[Len(s \o t)] = "baud_b" /\ (s \o t)[Len(s \o t) - 1] = "baud_a"
      /\ (s \o t)[Len(s \o t) - 2] = "handshake"
  <2>1. s[Len(s)] = "handshake"
    BY <1>5
  <2>2. /\ s \o t \in Seq(OpenOps) /\ Len(s \o t) >= 3
        /\ (s \o t)[Len(s \o t)] = t[2] /\ (s \o t)[Len(s \o t) - 1] = t[1]
        /\ (s \o t)[Len(s \o t) - 2] = s[Len(s)]
    BY <1>2, <1>5, <1>8, Ends, Zenon
  <2> QED BY <1>2, <2>1, <2>2
<1> QED BY <1>7, <1>9

-----------------------------------------------------------------------------
(* The invariant holds.                                                    *)

Calls == Resting \cup ByteCalls \cup {"open", "termios", "close"}

LEMMA InvInit == Init => Inv
<1> SUFFICES ASSUME Init PROVE Inv
  OBVIOUS
<1>1. TypeOK
  <2>1. Low \in Lines
    BY DEF Low, Lines, Level
  <2>2. 0 \in Level /\ 0 \in 0..MaxLate /\ 0 \in 0..MaxFail /\ <<>> \in Seq(Level) /\ Len(<<>>) <= MaxQueue
    BY BoundsAssumption DEF Level
  <2>3. ok \in BOOLEAN /\ pull \in BOOLEAN
    BY Zenon DEF Init
  <2> QED BY <2>1, <2>2, <2>3 DEF Init, TypeOK, Resting
<1> QED BY <1>1 DEF Init, Inv, Left, Opening, OpenConfigured, Follows, Resting, ByteCalls

\* ch341_open() gives up after a step that left the lines alone, or lost a
\* message that carries them.
LEMMA GivesUp ==
    ASSUME Inv, call = "open", OpenFails, TypeOK', ok' => ok /\ UNCHANGED <<lines, ctl>>
    PROVE  Inv'
<1> USE DEF Resting, ByteCalls
<1>1. heap = 1 /\ (ok => lines = ctl)
  BY DEF Inv, OpenConfigured, Follows
<1>2. \/ call' = "none" /\ todo' = <<>> /\ heap' = 0
      \/ call' = "close" /\ todo' = <<"close">> /\ heap' = 1
  BY <1>1 DEF OpenFails
<1> QED BY <1>1, <1>2 DEF Inv, Left, Opening, OpenConfigured, Follows

\* The first operation of what is left, by call.
LEMMA First ==
    ASSUME Inv, todo # <<>>
    PROVE  /\ call \in ByteCalls \cup {"open", "termios", "close"}
           /\ call \in ByteCalls => Head(todo) \in LineOps /\ Tail(todo) \in Seq(LineOps)
           /\ call = "open" => Head(todo) \in OpenOps /\ Tail(todo) \in Seq(OpenOps)
           /\ call = "close" => Head(todo) = "close" /\ Tail(todo) = <<>>
           /\ call = "termios" =>
                 \/ /\ Head(todo) = "baud_a" /\ Tail(todo) = <<"baud_b", "handshake">>
                    /\ Tail(Tail(todo)) = <<"handshake">>
                 \/ Head(todo) = "baud_b" /\ Tail(todo) = <<"handshake">>
                 \/ Head(todo) = "handshake" /\ Tail(todo) = <<>>
<1>1. call \in ByteCalls \cup {"open", "termios", "close"}
  BY DEF Inv, TypeOK, Left, Resting, ByteCalls
<1>2. call \in ByteCalls => Head(todo) \in LineOps /\ Tail(todo) \in Seq(LineOps)
  BY DEF Inv, Left
<1>3. call = "open" => Head(todo) \in OpenOps /\ Tail(todo) \in Seq(OpenOps)
  BY DEF Inv, Left
<1>4. ASSUME call = "close" PROVE Head(todo) = "close" /\ Tail(todo) = <<>>
  <2>1. todo = <<"close">>
    BY <1>4 DEF Inv, Left
  <2> QED BY <2>1
<1>5. ASSUME call = "termios"
      PROVE  \/ /\ Head(todo) = "baud_a" /\ Tail(todo) = <<"baud_b", "handshake">>
                /\ Tail(Tail(todo)) = <<"handshake">>
             \/ Head(todo) = "baud_b" /\ Tail(todo) = <<"handshake">>
             \/ Head(todo) = "handshake" /\ Tail(todo) = <<>>
  <2>1. todo \in TermiosOps
    BY <1>5 DEF Inv, Left
  <2>2. CASE todo = <<"baud_a", "baud_b", "handshake">>
    <3>1. Tail(todo) = <<"baud_b", "handshake">>
      BY <2>2
    <3>2. Tail(<<"baud_b", "handshake">>) = <<"handshake">>
      OBVIOUS
    <3> QED BY <2>2, <3>1, <3>2
  <2>3. CASE todo = <<"baud_b", "handshake">>
    BY <2>3
  <2>4. CASE todo = <<"handshake">>
    BY <2>4
  <2> QED BY <2>1, <2>2, <2>3, <2>4 DEF TermiosOps
<1> QED BY <1>1, <1>2, <1>3, <1>4, <1>5

\* A step of an open that does op and goes on.
LEMMA OpensOn ==
    ASSUME Inv, call = "open", todo # <<>>, NEW op, op = Head(todo), op \in OpenOps,
           call' = call, todo' = Tail(todo), UNCHANGED <<ctl, baud_rate>>,
           lines' = IF op \in Carries THEN ctl' ELSE lines,
           half' = IF op = "baud_a" THEN baud_rate ELSE half,
           programmed' = IF op = "baud_b" THEN IF half = baud_rate THEN baud_rate ELSE 0
                         ELSE programmed
    PROVE  Opening'
<1>1. /\ todo \in Seq(OpenOps) /\ Len(todo) \in Nat /\ Len(todo) >= 1 /\ op = todo[1]
      /\ Len(Tail(todo)) = Len(todo) - 1
      /\ \A k \in 1..(Len(todo) - 1) : Tail(todo)[k] = todo[k + 1]
  BY DEF Inv, Left
<1>2. /\ ctl = High /\ baud_rate = DefaultBaud
      /\ Len(todo) >= 1 => todo[Len(todo)] = "baud_b"
      /\ Len(todo) >= 2 => todo[Len(todo) - 1] = "baud_a"
      /\ Len(todo) >= 3 => todo[Len(todo) - 2] = "handshake"
      /\ Len(todo) <= 2 => lines = High
      /\ Len(todo) <= 1 => half = DefaultBaud
  BY DEF Inv, Opening
<1>3. /\ Len(todo') >= 1 => todo'[Len(todo')] = "baud_b"
      /\ Len(todo') >= 2 => todo'[Len(todo') - 1] = "baud_a"
      /\ Len(todo') >= 3 => todo'[Len(todo') - 2] = "handshake"
  <2>1. Len(todo) >= 2 => Tail(todo)[Len(todo) - 1] = todo[Len(todo)]
    BY <1>1
  <2>2. Len(todo) >= 3 => Tail(todo)[Len(todo) - 2] = todo[Len(todo) - 1]
    BY <1>1
  <2>3. Len(todo) >= 4 => Tail(todo)[Len(todo) - 3] = todo[Len(todo) - 2]
    BY <1>1
  <2> QED BY <1>1, <1>2, <2>1, <2>2, <2>3
<1>4. CASE Len(todo) >= 4
  BY <1>1, <1>2, <1>3, <1>4 DEF Opening
<1>5. CASE Len(todo) = 3
  <2>1. op = "handshake"
    BY <1>1, <1>2, <1>5
  <2>2. lines' = High
    BY <1>2, <2>1 DEF Carries
  <2>3. Len(todo') = 2
    BY <1>1, <1>5
  <2>4. ctl' = High /\ baud_rate' = DefaultBaud
    BY <1>2
  <2>5. ~(Len(todo') <= 1) /\ Len(todo') # 0
    <3>1. \A n : n = 2 => ~(n <= 1) /\ n # 0
      OBVIOUS
    <3> QED BY <2>3, <3>1, Zenon
  <2> QED BY <1>3, <2>2, <2>4, <2>5, Zenon DEF Opening
<1>6. CASE Len(todo) = 2
  <2>1. op = "baud_a"
    BY <1>1, <1>2, <1>6
  <2>2. half' = DefaultBaud /\ lines' = High
    BY <1>2, <1>6, <2>1 DEF Carries
  <2> QED BY <1>1, <1>2, <1>3, <1>6, <2>2 DEF Opening
<1>7. CASE Len(todo) = 1
  <2>1. op = "baud_b"
    BY <1>1, <1>2, <1>7
  <2>2. programmed' = DefaultBaud /\ lines' = High /\ half' = DefaultBaud
    BY <1>2, <1>7, <2>1 DEF Carries
  <2> QED BY <1>1, <1>2, <1>3, <1>7, <2>2 DEF Opening
<1> QED BY <1>1, <1>4, <1>5, <1>6, <1>7

LEMMA MessageInv == Inv /\ Message => Inv'
<1> SUFFICES ASSUME Inv, Message PROVE Inv'
  OBVIOUS
<1> DEFINE op == Head(todo)
<1>1. /\ TypeOK /\ Left /\ Opening /\ OpenConfigured /\ Follows
  BY DEF Inv
<1>2. /\ todo # <<>> /\ op \notin {"poll", "sample"} /\ ctl' = NewControl(op)
      /\ UNCHANGED <<baud_rate, late>>
  BY DEF Message
<1>3. ctl' \in Lines /\ (op \notin Carries \/ op \in OpenOps => ctl' = ctl)
  BY <1>1, <1>2, Control
<1>4. /\ call \in ByteCalls \cup {"open", "termios", "close"}
      /\ call \in ByteCalls => op \in LineOps /\ Tail(todo) \in Seq(LineOps)
      /\ call = "open" => op \in OpenOps /\ Tail(todo) \in Seq(OpenOps)
      /\ call = "close" => op = "close" /\ Tail(todo) = <<>>
      /\ call = "termios" =>
            \/ /\ op = "baud_a" /\ Tail(todo) = <<"baud_b", "handshake">>
               /\ Tail(Tail(todo)) = <<"handshake">>
            \/ op = "baud_b" /\ Tail(todo) = <<"handshake">>
            \/ op = "handshake" /\ Tail(todo) = <<>>
  BY <1>2, First
<1>5. heap = 1
  BY <1>1, <1>4 DEF OpenConfigured, ByteCalls
<1> HIDE DEF op
<1>6. ASSUME Effect(op), status' = IF op = "status" THEN Cts ELSE status,
             ok' = (op \in Carries \/ ok), todo' = Tail(todo), UNCHANGED <<call, heap, fails>>
      PROVE  Inv'
  <2>1. /\ lines' \in Lines /\ programmed' \in Nat /\ half' \in Nat /\ pull' \in BOOLEAN
        /\ queue' \in Seq(Level) /\ Len(queue') <= MaxQueue
        /\ lines' = IF op \in Carries THEN ctl' ELSE lines
        /\ half' = IF op = "baud_a" THEN baud_rate ELSE half
        /\ programmed' = IF op = "baud_b" THEN IF half = baud_rate THEN baud_rate ELSE 0
                         ELSE programmed
    BY <1>1, <1>3, <1>6, Adapter
  <2>2. status' \in Level
    BY <1>1, <1>6 DEF TypeOK, Cts, LevelOf, Level
  <2>3. ok' \in BOOLEAN
    BY <1>6
  <2>4. TypeOK'
    BY <1>1, <1>2, <1>3, <1>6, <2>1, <2>2, <2>3 DEF TypeOK
  <2>5. Left'
    BY <1>4, <1>6 DEF Left, Resting, ByteCalls, TermiosOps
  <2>6. Opening'
    <3>1. CASE call = "open"
      <4>1. ctl' = ctl /\ op \in OpenOps
        BY <1>3, <1>4, <3>1
      <4> QED BY <1>2, <1>6, <2>1, <3>1, <4>1, OpensOn DEF op
    <3> QED BY <1>6, <3>1 DEF Opening
  <2>7. OpenConfigured'
    BY <1>4, <1>5, <1>6 DEF OpenConfigured, ByteCalls
  <2>8. Follows'
    <3>1. CASE op \in Carries
      BY <2>1, <3>1 DEF Follows
    <3>2. CASE op \notin Carries
      <4>1. ctl' = ctl /\ lines' = lines /\ (ok' => ok)
        BY <1>3, <1>6, <2>1, <3>2
      <4>2. call = "termios" => todo' \in TermiosOps
        BY <1>4, <1>6, <3>2 DEF Carries, TermiosOps
      <4> QED BY <1>1, <1>6, <4>1, <4>2 DEF Follows
    <3> QED BY <3>1, <3>2
  <2> QED BY <2>4, <2>5, <2>6, <2>7, <2>8 DEF Inv
<1>7. ASSUME fails < MaxFail, fails' = fails + 1, Effect(op) \/ UNCHANGED adapter,
             ok' = (ok /\ op \notin Carries), UNCHANGED status,
             IF Checked(op) THEN OpenFails
             ELSE /\ todo' = IF op = "baud_a" THEN Tail(Tail(todo)) ELSE Tail(todo)
                  /\ UNCHANGED <<call, heap>>
      PROVE  Inv'
  <2>1. /\ lines' \in Lines /\ programmed' \in Nat /\ half' \in Nat /\ pull' \in BOOLEAN
        /\ queue' \in Seq(Level) /\ Len(queue') <= MaxQueue
        /\ op \notin Carries => lines' = lines
    <3>1. CASE Effect(op)
      BY <1>1, <1>3, <3>1, Adapter
    <3>2. CASE UNCHANGED adapter
      BY <1>1, <3>2 DEF adapter, TypeOK
    <3> QED BY <1>7, <3>1, <3>2
  <2>2. ok' => ok /\ UNCHANGED <<lines, ctl>>
    BY <1>3, <1>7, <2>1
  <2>3. call' \in Calls /\ heap' \in Int
    BY <1>4, <1>5, <1>7 DEF OpenFails, Calls, Resting
  <2>4. fails' \in 0..MaxFail
    BY <1>1, <1>7, BoundsAssumption DEF TypeOK
  <2>5. ok' \in BOOLEAN
    BY <1>7
  <2>6. TypeOK'
    BY <1>1, <1>2, <1>3, <1>7, <2>1, <2>3, <2>4, <2>5 DEF TypeOK, Calls, ByteCalls
  <2>7. CASE Checked(op)
    BY <1>7, <2>2, <2>6, <2>7, GivesUp DEF Checked
  <2>8. CASE ~Checked(op)
    <3>1. call # "open"
      BY <1>4, <2>8 DEF Checked, Ignored, Carries, OpenOps
    <3>2. /\ todo' = IF op = "baud_a" THEN Tail(Tail(todo)) ELSE Tail(todo)
          /\ UNCHANGED <<call, heap>>
      BY <1>7, <2>8
    <3>3. Left'
      BY <1>4, <3>1, <3>2 DEF Left, Resting, ByteCalls, TermiosOps, LineOps
    <3>4. Opening' /\ OpenConfigured'
      BY <1>4, <1>5, <3>1, <3>2 DEF Opening, OpenConfigured, ByteCalls
    <3>5. Follows'
      <4>1. call = "termios" /\ op \notin Carries => todo' \in TermiosOps
        BY <1>4, <3>2 DEF Carries, TermiosOps
      <4> QED BY <1>1, <1>7, <2>2, <3>2, <4>1 DEF Follows
    <3> QED BY <2>6, <3>3, <3>4, <3>5 DEF Inv
  <2> QED BY <2>7, <2>8
<1> QED BY <1>6, <1>7, Zenon DEF Message, op

LEMMA RefuseBaudInv == Inv /\ RefuseBaud => Inv'
<1> SUFFICES ASSUME Inv, RefuseBaud PROVE Inv'
  OBVIOUS
<1>1. /\ TypeOK /\ Left /\ Opening /\ OpenConfigured /\ Follows
  BY DEF Inv
<1>2. /\ todo # <<>> /\ Head(todo) = "baud_a"
      /\ IF Checked("baud_a") THEN OpenFails
         ELSE todo' = Tail(Tail(todo)) /\ UNCHANGED <<call, heap>>
      /\ UNCHANGED <<ctl, baud_rate, status, ok, adapter, late, fails>>
  BY DEF RefuseBaud
<1>3. call \in {"open", "termios"} /\ (call = "termios" => Tail(Tail(todo)) = <<"handshake">>)
  BY <1>2, First DEF LineOps
<1>4. heap = 1
  BY <1>1, <1>3 DEF OpenConfigured
<1>5. Checked("baud_a") <=> call = "open"
  BY DEF Checked, Ignored, Carries
<1>6. TypeOK'
  <2>1. call' \in Calls /\ heap' \in Int
    BY <1>2, <1>3, <1>4 DEF OpenFails, Calls, Resting
  <2> QED BY <1>1, <1>2, <2>1 DEF TypeOK, adapter, Calls, ByteCalls
<1>7. CASE call = "open"
  BY <1>2, <1>5, <1>6, <1>7, GivesUp DEF adapter
<1>8. CASE call = "termios"
  <2>1. call' = "termios" /\ todo' = <<"handshake">> /\ heap' = heap
    BY <1>2, <1>3, <1>5, <1>8
  <2> QED BY <1>1, <1>2, <1>4, <1>6, <1>8, <2>1
          DEF Inv, Left, Opening, OpenConfigured, Follows, Resting, ByteCalls, TermiosOps, adapter
<1> QED BY <1>3, <1>7, <1>8

\* Reading status packets or CTS disturbs no call.
LEMMA ReadsInv == Inv /\ (Poll \/ Sample) => Inv'
<1> SUFFICES ASSUME Inv, Poll \/ Sample PROVE Inv'
  OBVIOUS
<1>1. /\ TypeOK /\ Left /\ Opening /\ OpenConfigured /\ Follows
  BY DEF Inv
<1>2. /\ todo # <<>> /\ Head(todo) \in {"poll", "sample"} /\ todo' = Tail(todo)
      /\ UNCHANGED <<call, heap, ctl, baud_rate, ok, lines, programmed, half, pull, fails>>
  BY DEF Poll, Sample, adapter
<1>3. call \in ByteCalls /\ Tail(todo) \in Seq(LineOps)
  BY <1>2, First DEF OpenOps
<1>4. /\ status' \in Level /\ late' \in 0..MaxLate
      /\ queue' \in Seq(Level) /\ Len(queue') <= MaxQueue
  <2>1. CASE Sample
    BY <1>1, <2>1 DEF Sample, TypeOK, adapter
  <2>2. CASE Poll
    <3>1. CASE queue # <<>> /\ status' = Head(queue) /\ queue' = Tail(queue) /\ late' = 0
      BY <1>1, <3>1, BoundsAssumption DEF TypeOK
    <3>2. CASE /\ queue = <<>> \/ late < MaxLate
               /\ late' = IF queue = <<>> THEN 0 ELSE late + 1
               /\ UNCHANGED <<status, queue>>
      BY <1>1, <3>2, BoundsAssumption DEF TypeOK
    <3> QED BY <2>2, <3>1, <3>2 DEF Poll
  <2> QED BY <2>1, <2>2
<1>5. TypeOK'
  BY <1>1, <1>2, <1>4 DEF TypeOK
<1> QED BY <1>1, <1>2, <1>3, <1>5
        DEF Inv, Left, Opening, OpenConfigured, Follows, Resting, ByteCalls

LEMMA ReturnInv == Inv /\ Return => Inv'
<1> SUFFICES ASSUME Inv, Return PROVE Inv'
  OBVIOUS
<1>1. /\ TypeOK /\ Left /\ Opening /\ OpenConfigured /\ Follows
  BY DEF Inv
<1>2. /\ call \notin Resting /\ todo = <<>>
      /\ call' = CASE call = "open" -> "opened" [] call = "close" -> "none"
                   [] call \in {"reset", "stop", "termios"} -> "free"
                   [] call \in {"start", "repstart"} -> "started"
                   [] call = "inb" -> "received" [] OTHER -> "idle"
      /\ heap' = IF call = "close" THEN heap - 1 ELSE heap
      /\ UNCHANGED <<todo, ctl, baud_rate, status, ok, adapter, late, fails>>
  BY DEF Return
<1>3. heap = 1 /\ (ok => lines = ctl)
  BY <1>1, <1>2 DEF OpenConfigured, Follows, Resting, TermiosOps
<1>4. /\ call = "open" => call' = "opened"
      /\ call = "close" => call' = "none" /\ heap' = 0
      /\ call # "close" => heap' = 1
      /\ call \notin {"open", "close"} => call' \in {"free", "started", "received", "idle"}
  BY <1>2, <1>3
<1>5. TypeOK'
  BY <1>1, <1>2, <1>3, <1>4 DEF TypeOK, adapter, Resting
<1>6. call = "open" => lines = High /\ programmed = DefaultBaud
  BY <1>1, <1>2 DEF Opening
<1> QED BY <1>2, <1>3, <1>4, <1>5, <1>6
        DEF Inv, Left, Opening, OpenConfigured, Follows, Resting, ByteCalls, adapter

LEMMA ClientInv == Inv /\ (Open \/ I2cCalls \/ SetTermios \/ Close \/ Exit) => Inv'
<1> SUFFICES ASSUME Inv, Open \/ I2cCalls \/ SetTermios \/ Close \/ Exit PROVE Inv'
  OBVIOUS
<1>1. /\ TypeOK /\ Left /\ Opening /\ OpenConfigured /\ Follows
  BY DEF Inv
<1> USE DEF Resting, ByteCalls
<1>2. CASE Open
  <2>1. /\ call = "none" /\ call' = "open" /\ todo' = Configure \o OpenRest
        /\ heap' = heap + 1 /\ ctl' = High /\ baud_rate' = DefaultBaud
        /\ status' = 0 /\ ok' = FALSE /\ UNCHANGED <<adapter, late, fails>>
    BY <1>2 DEF Open, Begin
  <2>2. heap' = 1
    BY <1>1, <2>1 DEF OpenConfigured
  <2>3. TypeOK'
    <3>1. High \in Lines /\ DefaultBaud \in Nat /\ 0 \in Level
      BY DEF High, Lines, Level, DefaultBaud
    <3>2. ok' \in BOOLEAN
      BY <2>1, Zenon
    <3> QED BY <1>1, <2>1, <2>2, <3>1, <3>2 DEF TypeOK, adapter
  <2>4. Left'
    BY <2>1, OpenProgram DEF Left
  <2>5. Opening'
    <3> DEFINE s == Configure \o OpenRest
    <3>1. /\ Len(s) \in Nat /\ Len(s) >= 3
          /\ s[Len(s)] = "baud_b" /\ s[Len(s) - 1] = "baud_a" /\ s[Len(s) - 2] = "handshake"
      BY OpenProgram
    <3>2. todo' = s
      BY <2>1
    <3> HIDE DEF s
    <3> QED BY <2>1, <3>1, <3>2 DEF Opening
  <2> QED BY <2>1, <2>2, <2>3, <2>4, <2>5 DEF Inv, OpenConfigured, Follows
<1>3. CASE I2cCalls
  <2>1. call \in Resting \ {"none"} /\ Quiescent /\ call' \in ByteCalls /\ todo' \in Seq(LineOps)
    BY <1>3, ByteCallsMoveLines DEF I2cCalls, Reset, Start, RepStart, Stop, MoveByte, Begin
  <2>2. TypeOK'
    BY <1>1, <2>1 DEF TypeOK, Quiescent, adapter
  <2>3. ok => lines = ctl
    BY <1>1, <2>1 DEF Follows
  <2> QED BY <1>1, <2>1, <2>2, <2>3
          DEF Inv, Left, Opening, OpenConfigured, Follows, Quiescent, adapter
<1>4. CASE SetTermios
  <2>1. PICK s \in Speeds :
        /\ baud_rate' = s
        /\ ctl' = IF s # 0 THEN High ELSE Low
        /\ todo' = (IF s # 0 THEN SetBaudrate ELSE <<>>) \o <<"handshake">>
    BY <1>4 DEF SetTermios, Begin
  <2>2. /\ call = "free" /\ call' = "termios"
        /\ UNCHANGED <<heap, status, ok, adapter, late, fails>>
    BY <1>4 DEF SetTermios, Begin
  <2>3. todo' \in TermiosOps
    <3> DEFINE a == <<"baud_a", "baud_b">>
               b == <<"handshake">>
               c == <<"baud_a", "baud_b", "handshake">>
    <3>1. /\ a \in Seq(OpenOps) /\ Len(a) = 2 /\ a[1] = "baud_a" /\ a[2] = "baud_b"
          /\ b \in Seq(OpenOps) /\ Len(b) = 1 /\ b[1] = "handshake"
          /\ c \in Seq(OpenOps) /\ Len(c) = 3
          /\ c[1] = "baud_a" /\ c[2] = "baud_b" /\ c[3] = "handshake"
      BY DEF OpenOps
    <3> HIDE DEF a, b, c
    <3>2. /\ a \o b \in Seq(OpenOps) /\ Len(a \o b) = 3
          /\ \A k \in 1..3 : (a \o b)[k] = c[k]
      <4>1. /\ a \o b \in Seq(OpenOps) /\ Len(a \o b) = Len(a) + Len(b)
            /\ \A k \in 1..(Len(a) + Len(b)) : (a \o b)[k] = IF k <= Len(a) THEN a[k] ELSE b[k - Len(a)]
        BY <3>1, ConcatProperties, Zenon
      <4>2. (a \o b)[1] = a[1] /\ (a \o b)[2] = a[2] /\ (a \o b)[3] = b[1]
        BY <3>1, <4>1
      <4> QED BY <3>1, <4>1, <4>2
    <3>3. a \o b = c
      BY <3>1, <3>2, SeqEqual
    <3>4. <<>> \o b = b
      BY <3>1, ConcatEmptySeq
    <3> USE DEF a, b, c
    <3> QED BY <2>1, <3>3, <3>4 DEF TermiosOps, SetBaudrate
  <2>4. TypeOK'
    BY <1>1, <2>1, <2>2, SpeedsAssumption DEF TypeOK, adapter, High, Low, Lines, Level
  <2> QED BY <1>1, <2>2, <2>3, <2>4 DEF Inv, Left, Opening, OpenConfigured, Follows, adapter
<1>5. CASE Close
  <2>1. /\ call \in Resting \ {"none"} /\ call' = "close" /\ todo' = <<"close">> /\ Quiescent
    BY <1>5 DEF Close, Begin
  <2>2. TypeOK'
    BY <1>1, <2>1 DEF TypeOK, Quiescent, adapter
  <2>3. ok => lines = ctl
    BY <1>1, <2>1 DEF Follows
  <2> QED BY <1>1, <2>1, <2>2, <2>3
          DEF Inv, Left, Opening, OpenConfigured, Follows, Quiescent, adapter
<1>6. CASE Exit
  <2>1. call' = "none" /\ todo' = <<>> /\ heap' = 0
        /\ UNCHANGED <<ctl, baud_rate, status, ok, adapter, late, fails>>
    BY <1>6 DEF Exit
  <2>2. TypeOK'
    BY <1>1, <2>1 DEF TypeOK, adapter
  <2> QED BY <2>1, <2>2 DEF Inv, Left, Opening, OpenConfigured, Follows
<1> QED BY <1>2, <1>3, <1>4, <1>5, <1>6

LEMMA InvNext == Inv /\ [Next]_vars => Inv'
<1> SUFFICES ASSUME Inv, [Next]_vars PROVE Inv'
  OBVIOUS
<1>1. CASE UNCHANGED vars
  BY <1>1 DEF vars, adapter, Inv, TypeOK, Left, Opening, OpenConfigured, Follows
<1> QED BY <1>1, MessageInv, RefuseBaudInv, ReadsInv, ReturnInv, ClientInv DEF Next, Running

LEMMA Invariant == Spec => []Inv
BY InvInit, InvNext, PTL DEF Spec

\* Every variable of the adapter and its driver keeps its type, for any bounds:
\* no queue of status packets grows past what the adapter keeps.
THEOREM TypeCorrect == Spec => []TypeOK
<1>1. Inv => TypeOK
  BY DEF Inv
<1> QED BY <1>1, Invariant, PTL

\* Whichever messages fail, ch341_open() either returns an adapter that drives
\* both lines high at 9600, or frees the structure, once.  (ch341.c:234-273)
THEOREM OpensConfigured == Spec => []OpenConfigured
<1>1. Inv => OpenConfigured
  BY DEF Inv
<1> QED BY <1>1, Invariant, PTL

\* Whatever was lost, after one message that got through the lines are what the
\* program set them to.  (ch341.c:305-322)
THEOREM LinesAreFollowed == Spec => []LinesFollow
<1>1. Inv => LinesFollow
  BY DEF Inv, Left, Follows, LinesFollow, Resting, TermiosOps
<1> QED BY <1>1, Invariant, PTL

-----------------------------------------------------------------------------
(* The packets that wait.  Every operation has a poll before it, which takes  *)
(* a packet unless it is late, and adds at most one: Debt counts the polls    *)
(* that are missing, and Owed bounds it at each place of each call.           *)

\* The polls that surely read the queue up, if no two in a row are late.
Debt == IF queue = <<>> THEN 0 ELSE 2 * Len(queue) - late

\* The newest packet tells CTS.
Reported == queue # <<>> => queue[Len(queue)] = Cts

\* The operation that is j-th from the end of a call, its polls left out.
ReadOps(j) == CASE j % 4 = 0 -> {"scl1"} [] j % 4 = 3 -> {"sda1"}
                [] j % 4 = 2 -> {"sample"} [] OTHER -> {"scl0"}
BitOps(j) == CASE j % 3 = 2 -> {"sda0", "sda1"} [] j % 3 = 1 -> {"scl1"} [] OTHER -> {"scl0"}
ResetOps(j) == CASE j \in {27, 24, 1} -> {"sda1"} [] j \in {26, 4} -> {"sda0"}
                 [] j \in {28, 5, 2} \/ (j \in 7..23 /\ j % 2 = 1) -> {"scl1"}
                 [] OTHER -> {"scl0"}
StartOps(j) == CASE j = 4 -> {"sda1"} [] j = 3 -> {"scl1"} [] j = 2 -> {"sda0"} [] OTHER -> {"scl0"}
StopOps(j) == CASE j = 3 -> {"sda0"} [] j = 2 -> {"scl1"} [] OTHER -> {"sda1"}
Plan(what, j) ==
    CASE what = "reset" -> ResetOps(j)
      [] what \in {"start", "repstart"} -> StartOps(j)
      [] what = "stop" -> StopOps(j)
      [] what = "outb" -> IF j > 5 THEN BitOps(j) ELSE IF j = 5 THEN {"sda1"} ELSE ReadOps(j)
      [] what = "inb" -> IF j = 33 THEN {"sda1"} ELSE ReadOps(j)
      [] OTHER -> CASE j = 3 -> {"sda0"} [] j = 2 -> {"scl1"} [] OTHER -> {"scl0"}
Size(what) == CASE what = "reset" -> 28 [] what = "start" -> 2 [] what = "repstart" -> 4
                [] what = "outb" -> 29 [] what = "inb" -> 33 [] OTHER -> 3

\* With n steps of a call left, op is next: each operation has a poll before it.
Planned(what, n, op) ==
    IF n % 2 = 0 THEN op = "poll" ELSE op \in Plan(what, (n + 1) \div 2)

\* The debt a call may have with j operations left.  Nothing is read before the
\* first byte, an address, whose bits pay what a reset or a STOP left.
Plus(n) == IF n > 0 THEN n ELSE 0
BitOwed(j, pulls) ==
    CASE j \in {29, 27} -> IF pulls THEN 5 ELSE 7
      [] j = 28 -> IF pulls THEN 6 ELSE 8
      [] j < 27 /\ j % 3 = 2 -> Plus((j \div 3) - 2)
      [] j < 27 /\ j % 3 = 1 -> Plus((j \div 3) - 3) + 2
      [] OTHER -> Plus((j \div 3) - 3) + 1
ReadOwed(j) == CASE j % 4 = 0 -> 3 [] j % 4 = 3 -> 2 [] j % 4 = 2 -> 1 [] OTHER -> 0
Owed(what, j, sda, pulls) ==
    CASE what \in {"reset", "stop"} -> 8
      [] what \in {"start", "repstart"} -> IF j = 0 THEN 7 ELSE 8
      [] OTHER ->
           IF j = 0 THEN 2 ELSE
           CASE what = "outb" -> IF j > 5 THEN BitOwed(j, pulls)
                                 ELSE IF j = 5 THEN 2 * sda ELSE Plus(j - 2)
             [] what = "inb" -> IF j = 33 THEN 2 ELSE ReadOwed(j)
             [] OTHER -> IF j = 3 THEN 2 ELSE j + 1 - sda

\* The lines l, and whether the chip pulls, there.
Driven(what, j, l, pulls) ==
    CASE what \in {"reset", "stop"} -> j <= 1 => l.scl = 1
      [] what \in {"start", "repstart"} -> /\ j \in 1..2 => l.scl = 1
                                           /\ j = 1 => l.sda = 0
                                           /\ j = 0 => ~pulls
      [] what = "outb" -> /\ j = 27 => l.scl = 1
                          /\ j \in 6..26 => ~pulls
                          /\ j < 5 => l.sda = 1
      [] what = "inb" -> j < 33 => l.sda = 1
      [] OTHER -> TRUE

\* The debt after the poll of an operation, or before it.
Allowed(what, n, sda, pulls) ==
    IF n % 2 = 0 THEN Owed(what, n \div 2, sda, pulls)
    ELSE Plus(Owed(what, (n + 1) \div 2, sda, pulls) - 1)

OnCourse ==
    LET n == Len(todo) IN
    /\ n <= 2 * Size(call)
    /\ \A i \in 1..n : Planned(call, n - i + 1, todo[i])
    /\ Driven(call, (n + 1) \div 2, lines, pull)
    /\ Debt <= Allowed(call, n, lines.sda, pull)

\* Nothing failed, and the rate is the one the adapter was opened with.
Sound == fails = 0 /\ baud_rate = DefaultBaud

Known == queue = <<>> => status = Cts
Watched ==
    Sound =>
        /\ call # "termios"
        /\ call = "open" /\ Len(todo) >= 4 => todo[Len(todo) - 3] = "status"
        /\ call = "open" /\ Len(todo) <= 3 => Known
        /\ call \notin {"none", "open", "close"} => lines = ctl /\ Known
        /\ call = "free" => lines.scl = 1
        /\ call = "started" => ~pull /\ Debt < 8
        /\ call \in {"idle", "received"} => Debt <= 2
        /\ call \in ByteCalls => OnCourse

-----------------------------------------------------------------------------
(* The programs of the calls keep to the plan.                             *)

\* s makes k operations of the call, each after a poll, and m are to follow.
Does(what, s, k, m) ==
    /\ s \in Seq(LineOps) /\ Len(s) = 2 * k
    /\ \A i \in 1..(2 * k) : Planned(what, 2 * (m + k) - i + 1, s[i])

LEMMA DoesLine ==
    ASSUME NEW what, NEW m \in Nat, NEW op \in LineOps, op \in Plan(what, m + 1)
    PROVE  Does(what, SetLine(op), 1, m)
<1> DEFINE s == SetLine(op)
<1>1. s \in Seq(LineOps) /\ Len(s) = 2 /\ s[1] = "poll" /\ s[2] = op
  BY DEF SetLine, LineOps
<1>2. Planned(what, 2 * (m + 1), "poll")
  <2>1. (2 * (m + 1)) % 2 = 0
    OBVIOUS
  <2> QED BY <2>1 DEF Planned
<1>3. Planned(what, 2 * (m + 1) - 1, op)
  <2>1. (2 * (m + 1) - 1) % 2 # 0 /\ ((2 * (m + 1) - 1) + 1) \div 2 = m + 1
    OBVIOUS
  <2> QED BY <2>1 DEF Planned
<1> HIDE DEF s
<1>4. 2 * (m + 1) - 1 + 1 = 2 * (m + 1) /\ 2 * (m + 1) - 2 + 1 = 2 * (m + 1) - 1
  OBVIOUS
<1>5. ASSUME NEW i \in 1..2 PROVE Planned(what, 2 * (m + 1) - i + 1, s[i])
  <2>1. CASE i = 1
    BY <1>1, <1>2, <1>4, <2>1
  <2>2. CASE i = 2
    BY <1>1, <1>3, <1>4, <2>2
  <2> QED BY <2>1, <2>2
<1> QED BY <1>1, <1>5 DEF Does, s

LEMMA DoesBoth ==
    ASSUME NEW what, NEW a, NEW b, NEW k \in Nat, NEW l \in Nat, NEW m \in Nat,
           Does(what, a, k, m + l), Does(what, b, l, m)
    PROVE  Does(what, a \o b, k + l, m)
<1> DEFINE s == a \o b
<1>1. a \in Seq(LineOps) /\ b \in Seq(LineOps) /\ Len(a) = 2 * k /\ Len(b) = 2 * l
  BY DEF Does
<1>2. /\ s \in Seq(LineOps) /\ Len(s) = 2 * k + 2 * l
      /\ \A i \in 1..(2 * k + 2 * l) : s[i] = IF i <= 2 * k THEN a[i] ELSE b[i - 2 * k]
  <2>1. /\ s \in Seq(LineOps) /\ Len(s) = Len(a) + Len(b)
        /\ \A i \in 1..(Len(a) + Len(b)) : s[i] = IF i <= Len(a) THEN a[i] ELSE b[i - Len(a)]
    BY <1>1, ConcatProperties, Zenon
  <2> QED BY <1>1, <2>1
<1> HIDE DEF s
<1>3. ASSUME NEW i \in 1..(2 * (k + l)) PROVE Planned(what, 2 * (m + (k + l)) - i + 1, s[i])
  <2>1. CASE i <= 2 * k
    <3>1. i \in 1..(2 * k) /\ s[i] = a[i] /\ 2 * ((m + l) + k) - i + 1 = 2 * (m + (k + l)) - i + 1
      BY <1>2, <2>1
    <3>2. Planned(what, 2 * ((m + l) + k) - i + 1, a[i])
      BY <3>1 DEF Does
    <3> QED BY <3>1, <3>2
  <2>2. CASE i > 2 * k
    <3> DEFINE h == i - 2 * k
    <3>1. h \in 1..(2 * l) /\ s[i] = b[h] /\ 2 * (m + l) - h + 1 = 2 * (m + (k + l)) - i + 1
      BY <1>2, <2>2
    <3> HIDE DEF h
    <3>2. Planned(what, 2 * (m + l) - h + 1, b[h])
      BY <3>1 DEF Does
    <3> QED BY <3>1, <3>2
  <2> QED BY <2>1, <2>2
<1>4. 2 * k + 2 * l = 2 * (k + l)
  OBVIOUS
<1> QED BY <1>2, <1>3, <1>4 DEF Does, s

LEMMA DoesRead ==
    ASSUME NEW what \in {"outb", "inb"}, NEW m \in Nat, m % 4 = 0, m + 4 < 33,
           what = "outb" => m = 0
    PROVE  Does(what, ReadBit, 4, m)
<1>1. /\ (m + 1) % 4 = 1 /\ (m + 2) % 4 = 2 /\ (m + 3) % 4 = 3 /\ (m + 4) % 4 = 0
  OBVIOUS
<1>2. /\ "scl0" \in ReadOps(m + 1) /\ "sample" \in ReadOps(m + 2)
      /\ "sda1" \in ReadOps(m + 3) /\ "scl1" \in ReadOps(m + 4)
  BY <1>1 DEF ReadOps
<1>3. \A j \in (m + 1)..(m + 4) : Plan(what, j) = ReadOps(j)
  BY DEF Plan
<1>4. /\ "scl0" \in Plan(what, m + 1) /\ "sample" \in Plan(what, m + 2)
      /\ "sda1" \in Plan(what, m + 3) /\ "scl1" \in Plan(what, m + 4)
  <2>1. {m + 1, m + 2, m + 3, m + 4} \subseteq (m + 1)..(m + 4)
    OBVIOUS
  <2> QED BY <1>2, <1>3, <2>1
<1>5. {"scl0", "scl1", "sample", "sda1"} \subseteq LineOps
  BY DEF LineOps
<1>6. Does(what, SetLine("scl0"), 1, m)
  BY <1>4, <1>5, DoesLine
<1>7. Does(what, SetLine("sample"), 1, m + 1)
  <2>1. (m + 1) + 1 = m + 2 /\ m + 1 \in Nat
    OBVIOUS
  <2> QED BY <1>4, <1>5, <2>1, DoesLine
<1>8. Does(what, SetLine("sda1"), 1, m + 2)
  <2>1. (m + 2) + 1 = m + 3 /\ m + 2 \in Nat
    OBVIOUS
  <2> QED BY <1>4, <1>5, <2>1, DoesLine
<1>9. Does(what, SetLine("scl1"), 1, m + 3)
  <2>1. (m + 3) + 1 = m + 4 /\ m + 3 \in Nat
    OBVIOUS
  <2> QED BY <1>4, <1>5, <2>1, DoesLine
<1>10. Does(what, GetSda, 2, m + 1)
  <2>1. GetSda = SetLine("sda1") \o SetLine("sample")
    BY DEF GetSda, SetLine
  <2>2. (m + 1) + 1 = m + 2 /\ 1 + 1 = 2 /\ m + 1 \in Nat
    OBVIOUS
  <2> QED BY <1>7, <1>8, <2>1, <2>2, DoesBoth
<1>11. Does(what, SetLine("scl1") \o GetSda, 3, m + 1)
  <2>1. (m + 1) + 2 = m + 3 /\ 1 + 2 = 3 /\ m + 1 \in Nat
    OBVIOUS
  <2> QED BY <1>9, <1>10, <2>1, DoesBoth
<1> QED
  <2>1. 3 + 1 = 4
    OBVIOUS
  <2> QED BY <1>6, <1>11, <2>1, DoesBoth DEF ReadBit

\* Eight pieces of k operations each.
LEMMA DoesEight ==
    ASSUME NEW what, NEW k \in Nat, NEW m \in Nat, NEW op \in [0..7 -> Seq(LineOps)],
           Does(what, op[7], k, m), Does(what, op[6], k, m + k),
           Does(what, op[5], k, m + 2 * k), Does(what, op[4], k, m + 3 * k),
           Does(what, op[3], k, m + 4 * k), Does(what, op[2], k, m + 5 * k),
           Does(what, op[1], k, m + 6 * k), Does(what, op[0], k, m + 7 * k)
    PROVE  Does(what, EightTimes(op), 8 * k, m)
<1>1. Does(what, op[0] \o op[1], 2 * k, m + 6 * k)
  <2>1. m + 6 * k \in Nat /\ (m + 6 * k) + k = m + 7 * k /\ k + k = 2 * k
    OBVIOUS
  <2> QED BY <2>1, DoesBoth
<1>2. Does(what, op[0] \o op[1] \o op[2], 3 * k, m + 5 * k)
  <2>1. /\ m + 5 * k \in Nat /\ 2 * k \in Nat /\ (m + 5 * k) + k = m + 6 * k /\ 2 * k + k = 3 * k
    OBVIOUS
  <2> QED BY <1>1, <2>1, DoesBoth
<1>3. Does(what, op[0] \o op[1] \o op[2] \o op[3], 4 * k, m + 4 * k)
  <2>1. /\ m + 4 * k \in Nat /\ 3 * k \in Nat /\ (m + 4 * k) + k = m + 5 * k /\ 3 * k + k = 4 * k
    OBVIOUS
  <2> QED BY <1>2, <2>1, DoesBoth
<1>4. Does(what, op[0] \o op[1] \o op[2] \o op[3] \o op[4], 5 * k, m + 3 * k)
  <2>1. /\ m + 3 * k \in Nat /\ 4 * k \in Nat /\ (m + 3 * k) + k = m + 4 * k /\ 4 * k + k = 5 * k
    OBVIOUS
  <2> QED BY <1>3, <2>1, DoesBoth
<1>5. Does(what, op[0] \o op[1] \o op[2] \o op[3] \o op[4] \o op[5], 6 * k, m + 2 * k)
  <2>1. /\ m + 2 * k \in Nat /\ 5 * k \in Nat /\ (m + 2 * k) + k = m + 3 * k /\ 5 * k + k = 6 * k
    OBVIOUS
  <2> QED BY <1>4, <2>1, DoesBoth
<1>6. Does(what, op[0] \o op[1] \o op[2] \o op[3] \o op[4] \o op[5] \o op[6], 7 * k, m + k)
  <2>1. /\ m + k \in Nat /\ 6 * k \in Nat /\ (m + k) + k = m + 2 * k /\ 6 * k + k = 7 * k
    OBVIOUS
  <2> QED BY <1>5, <2>1, DoesBoth
<1>7. Does(what, op[0] \o op[1] \o op[2] \o op[3] \o op[4] \o op[5] \o op[6] \o op[7], 8 * k, m)
  <2>1. 7 * k \in Nat /\ 7 * k + k = 8 * k
    OBVIOUS
  <2> QED BY <1>6, <2>1, DoesBoth
<1> QED BY <1>7 DEF EightTimes

LEMMA AckPlanned == Does("outb", ReadAck, 5, 0)
<1>1. Does("outb", ReadBit, 4, 0)
  BY DoesRead
<1>2. Does("outb", SetLine("sda1"), 1, 4)
  <2>1. "sda1" \in LineOps /\ "sda1" \in Plan("outb", 5)
    BY DEF LineOps, Plan
  <2>2. 4 + 1 = 5
    OBVIOUS
  <2> QED BY <2>1, <2>2, DoesLine
<1>3. 0 + 4 = 4 /\ 1 + 4 = 5
  OBVIOUS
<1> QED BY <1>1, <1>2, <1>3, DoesBoth DEF ReadAck

LEMMA OutbPlan ==
    ASSUME NEW c \in SentBytes
    PROVE  Does("outb", Outb(c), 29, 0)
<1> DEFINE bit(n) == IF (c \div 2^(7 - n)) % 2 = 1 THEN "sda1" ELSE "sda0"
           op == [n \in 0..7 |-> SetLine(bit(n)) \o Clock]
<1>1. ASSUME NEW b \in {"sda0", "sda1"}, NEW m \in Nat, m >= 5, m % 3 = 2
      PROVE  Does("outb", SetLine(b) \o Clock, 3, m)
  <2>1. (m + 1) % 3 = 0 /\ (m + 2) % 3 = 1 /\ (m + 3) % 3 = 2
    BY <1>1
  <2>2. Plan("outb", m + 1) = BitOps(m + 1) /\ Plan("outb", m + 2) = BitOps(m + 2)
        /\ Plan("outb", m + 3) = BitOps(m + 3)
    BY <1>1 DEF Plan
  <2>3. "scl0" \in Plan("outb", m + 1) /\ "scl1" \in Plan("outb", m + 2) /\ b \in Plan("outb", m + 3)
    BY <2>1, <2>2 DEF BitOps
  <2>4. "scl0" \in LineOps /\ "scl1" \in LineOps /\ b \in LineOps
    BY DEF LineOps
  <2>5. Does("outb", SetLine("scl0"), 1, m)
    BY <2>3, <2>4, DoesLine
  <2>6. Does("outb", SetLine("scl1"), 1, m + 1)
    <3>1. (m + 1) + 1 = m + 2 /\ m + 1 \in Nat
      OBVIOUS
    <3> QED BY <2>3, <2>4, <3>1, DoesLine
  <2>7. Does("outb", SetLine(b), 1, m + 2)
    <3>1. (m + 2) + 1 = m + 3 /\ m + 2 \in Nat
      OBVIOUS
    <3> QED BY <2>3, <2>4, <3>1, DoesLine
  <2>8. Does("outb", Clock, 2, m)
    <3>1. 1 + 1 = 2
      OBVIOUS
    <3> QED BY <2>5, <2>6, <3>1, DoesBoth DEF Clock
  <2> QED
    <3>1. 1 + 2 = 3
      OBVIOUS
    <3> QED BY <2>7, <2>8, <3>1, DoesBoth
<1>2. ASSUME NEW n \in 0..7, NEW m \in Nat, m >= 5, m % 3 = 2
      PROVE  Does("outb", op[n], 3, m)
  <2>1. bit(n) \in {"sda0", "sda1"}
    BY Zenon
  <2>2. op[n] = SetLine(bit(n)) \o Clock
    OBVIOUS
  <2> HIDE DEF bit, op
  <2> QED BY <1>1, <1>2, <2>1, <2>2
<1>3. op \in [0..7 -> Seq(LineOps)]
  <2>1. \A n \in 0..7 : op[n] \in Seq(LineOps)
    <3>1. 5 \in Nat /\ 5 >= 5 /\ 5 % 3 = 2
      OBVIOUS
    <3> HIDE DEF op
    <3> QED BY <1>2, <3>1 DEF Does
  <2>2. op = [n \in 0..7 |-> op[n]]
    OBVIOUS
  <2> HIDE DEF op
  <2> QED BY <2>1, <2>2
<1> HIDE DEF op
<1>4. Does("outb", EightTimes(op), 24, 5)
  <2>1. /\ Does("outb", op[7], 3, 5) /\ Does("outb", op[6], 3, 8)
        /\ Does("outb", op[5], 3, 11) /\ Does("outb", op[4], 3, 14)
        /\ Does("outb", op[3], 3, 17) /\ Does("outb", op[2], 3, 20)
        /\ Does("outb", op[1], 3, 23) /\ Does("outb", op[0], 3, 26)
    BY <1>2
  <2>2. /\ 5 + 3 = 8 /\ 5 + 2 * 3 = 11 /\ 5 + 3 * 3 = 14 /\ 5 + 4 * 3 = 17
        /\ 5 + 5 * 3 = 20 /\ 5 + 6 * 3 = 23 /\ 5 + 7 * 3 = 26 /\ 8 * 3 = 24
    OBVIOUS
  <2> QED BY <1>3, <2>1, <2>2, DoesEight
<1>5. Does("outb", ReadAck, 5, 0)
  BY AckPlanned
<1>6. Outb(c) = EightTimes(op) \o ReadAck
  BY DEF Outb, op
<1>7. 0 + 5 = 5 /\ 24 + 5 = 29
  OBVIOUS
<1> QED BY <1>4, <1>5, <1>6, <1>7, DoesBoth

LEMMA InbPlan == Does("inb", Inb, 33, 0)
<1> DEFINE op == [n \in 0..7 |-> ReadBit]
<1>1. \A n \in 0..7 : op[n] = ReadBit
  OBVIOUS
<1>2. op \in [0..7 -> Seq(LineOps)]
  BY LineSteps
<1> HIDE DEF op
<1>3. \A m \in {0, 4, 8, 12, 16, 20, 24, 28} : Does("inb", ReadBit, 4, m)
  <2> SUFFICES ASSUME NEW m \in {0, 4, 8, 12, 16, 20, 24, 28}
               PROVE  Does("inb", ReadBit, 4, m)
    OBVIOUS
  <2>1. m \in Nat /\ m % 4 = 0 /\ m + 4 < 33
    OBVIOUS
  <2> QED BY <2>1, DoesRead
<1>4. Does("inb", EightTimes(op), 32, 0)
  <2>1. /\ Does("inb", op[7], 4, 0) /\ Does("inb", op[6], 4, 4)
        /\ Does("inb", op[5], 4, 8) /\ Does("inb", op[4], 4, 12)
        /\ Does("inb", op[3], 4, 16) /\ Does("inb", op[2], 4, 20)
        /\ Does("inb", op[1], 4, 24) /\ Does("inb", op[0], 4, 28)
    BY <1>1, <1>3
  <2>2. /\ 0 + 4 = 4 /\ 0 + 2 * 4 = 8 /\ 0 + 3 * 4 = 12 /\ 0 + 4 * 4 = 16
        /\ 0 + 5 * 4 = 20 /\ 0 + 6 * 4 = 24 /\ 0 + 7 * 4 = 28 /\ 8 * 4 = 32
    OBVIOUS
  <2> QED BY <1>2, <2>1, <2>2, DoesEight
<1>5. Does("inb", SetLine("sda1"), 1, 32)
  <2>1. "sda1" \in LineOps /\ "sda1" \in Plan("inb", 33)
    BY DEF LineOps, Plan
  <2>2. 32 + 1 = 33
    OBVIOUS
  <2> QED BY <2>1, <2>2, DoesLine
<1> QED
  <2>1. 0 + 32 = 32 /\ 1 + 32 = 33
    OBVIOUS
  <2> QED BY <1>4, <1>5, <2>1, DoesBoth DEF Inb, op

LEMMA AckPlan ==
    ASSUME NEW ack \in BOOLEAN
    PROVE  Does("acknak", Acknak(ack), IF ack THEN 3 ELSE 2, 0)
<1>1. "sda0" \in LineOps /\ "scl0" \in LineOps /\ "scl1" \in LineOps
  BY DEF LineOps
<1>2. /\ "scl0" \in Plan("acknak", 1) /\ "scl1" \in Plan("acknak", 2)
      /\ "sda0" \in Plan("acknak", 3)
  BY DEF Plan
<1>3. 0 + 1 = 1 /\ 1 + 1 = 2 /\ 2 + 1 = 3 /\ 0 + 2 = 2 /\ 1 + 2 = 3
  OBVIOUS
<1>4. Does("acknak", Clock, 2, 0)
  <2>1. Does("acknak", SetLine("scl0"), 1, 0) /\ Does("acknak", SetLine("scl1"), 1, 1)
    BY <1>1, <1>2, <1>3, DoesLine
  <2> QED BY <1>3, <2>1, DoesBoth DEF Clock
<1>5. CASE ack
  <2>1. Does("acknak", SetLine("sda0"), 1, 2)
    BY <1>1, <1>2, <1>3, DoesLine
  <2>2. Does("acknak", SetLine("sda0") \o Clock, 3, 0)
    BY <1>3, <1>4, <2>1, DoesBoth
  <2>3. Acknak(ack) = SetLine("sda0") \o Clock
    BY <1>5, Zenon DEF Acknak
  <2> QED BY <1>5, <2>2, <2>3
<1>6. CASE ~ack
  <2>1. Acknak(ack) = <<>> \o Clock
    BY <1>6, Zenon DEF Acknak
  <2>2. <<>> \o Clock = Clock
    BY <1>4, ConcatEmptySeq DEF Does
  <2> QED BY <1>4, <1>6, <2>1, <2>2
<1> QED BY <1>5, <1>6

\* A START, a repeated START and a STOP.
LEMMA BusPlans ==
    /\ Does("start", I2cStart, 2, 0)
    /\ Does("repstart", I2cRepstart, 4, 0)
    /\ Does("stop", I2cStop, 3, 0)
<1>1. {"sda0", "sda1", "scl0", "scl1"} \subseteq LineOps
  BY DEF LineOps
<1>2. 0 + 1 = 1 /\ 1 + 1 = 2 /\ 2 + 1 = 3 /\ 3 + 1 = 4 /\ 1 + 2 = 3 /\ 1 + 3 = 4 /\ 0 + 2 = 2
  OBVIOUS
<1>3. ASSUME NEW what \in {"start", "repstart"}
      PROVE  /\ Does(what, SetLine("scl0"), 1, 0) /\ Does(what, SetLine("sda0"), 1, 1)
             /\ Does(what, SetLine("scl1"), 1, 2) /\ Does(what, SetLine("sda1"), 1, 3)
  <2>1. /\ "scl0" \in Plan(what, 1) /\ "sda0" \in Plan(what, 2)
        /\ "scl1" \in Plan(what, 3) /\ "sda1" \in Plan(what, 4)
    BY DEF Plan, StartOps
  <2> QED BY <1>1, <1>2, <2>1, DoesLine
<1>4. Does("start", I2cStart, 2, 0)
  BY <1>2, <1>3, DoesBoth DEF I2cStart
<1>5. Does("repstart", I2cRepstart, 4, 0)
  <2> DEFINE R(s, k, m) == Does("repstart", s, k, m)
             L(op) == SetLine(op)
  <2>1. R(L("scl0"), 1, 0) /\ R(L("sda0"), 1, 1) /\ R(L("scl1"), 1, 2) /\ R(L("sda1"), 1, 3)
    BY <1>3
  <2>2. R(L("sda1") \o L("scl1"), 2, 2)
    BY <1>2, <2>1, DoesBoth
  <2>3. R(L("sda1") \o L("scl1") \o L("sda0"), 3, 1)
    <3>1. 2 + 1 = 3 /\ 1 + 1 = 2
      OBVIOUS
    <3> QED BY <2>1, <2>2, <3>1, DoesBoth
  <2>4. R(L("sda1") \o L("scl1") \o L("sda0") \o L("scl0"), 4, 0)
    <3>1. 3 + 1 = 4 /\ 0 + 1 = 1
      OBVIOUS
    <3> QED BY <2>1, <2>3, <3>1, DoesBoth
  <2> QED BY <2>4 DEF I2cRepstart
<1>6. Does("stop", I2cStop, 3, 0)
  <2>1. "sda1" \in Plan("stop", 1) /\ "scl1" \in Plan("stop", 2) /\ "sda0" \in Plan("stop", 3)
    BY DEF Plan, StopOps
  <2>2. /\ Does("stop", SetLine("sda1"), 1, 0) /\ Does("stop", SetLine("scl1"), 1, 1)
        /\ Does("stop", SetLine("sda0"), 1, 2)
    BY <1>1, <1>2, <2>1, DoesLine
  <2>3. Does("stop", SetLine("sda0") \o SetLine("scl1"), 2, 1)
    BY <1>2, <2>2, DoesBoth
  <2>4. Does("stop", SetLine("sda0") \o SetLine("scl1") \o SetLine("sda1"), 3, 0)
    <3>1. 2 + 1 = 3 /\ 0 + 1 = 1
      OBVIOUS
    <3> QED BY <2>2, <2>3, <3>1, DoesBoth
  <2> QED BY <2>4 DEF I2cStop
<1> QED BY <1>4, <1>5, <1>6

LEMMA ResetPlan == Does("reset", TempReset, 28, 0)
<1> DEFINE R(s, k, m) == Does("reset", s, k, m)
           L(op) == SetLine(op)
           op8 == [n \in 0..7 |-> Clock]
<1>1. ASSUME NEW m \in Nat, NEW op \in {"sda0", "sda1", "scl0", "scl1"}, op \in ResetOps(m + 1)
      PROVE  R(L(op), 1, m)
  <2>1. op \in LineOps /\ op \in Plan("reset", m + 1)
    BY <1>1 DEF LineOps, Plan
  <2> QED BY <2>1, DoesLine
<1>2. ASSUME NEW m \in {5, 7, 9, 11, 13, 15, 17, 19, 21} PROVE R(Clock, 2, m)
  <2>1. /\ m \in Nat /\ m + 1 \in Nat /\ (m + 1) + 1 = m + 2
        /\ m + 2 \in 7..23 /\ (m + 2) % 2 = 1 /\ (m + 1) % 2 = 0
        /\ m + 1 \notin {27, 24, 1, 26, 4, 28, 5, 2} /\ m + 2 \notin {27, 24, 1, 26, 4, 28, 5, 2}
    OBVIOUS
  <2>2. "scl0" \in ResetOps(m + 1) /\ "scl1" \in ResetOps(m + 2)
    BY <2>1 DEF ResetOps
  <2>3. R(L("scl0"), 1, m) /\ R(L("scl1"), 1, m + 1)
    BY <1>1, <2>1, <2>2
  <2>4. 1 + 1 = 2
    OBVIOUS
  <2> QED BY <2>1, <2>3, <2>4, DoesBoth DEF Clock
<1>3. /\ "sda1" \in ResetOps(1) /\ "scl1" \in ResetOps(2) /\ "scl0" \in ResetOps(3)
      /\ "sda0" \in ResetOps(4) /\ "scl1" \in ResetOps(5)
      /\ "sda1" \in ResetOps(24) /\ "scl0" \in ResetOps(25)
      /\ "sda0" \in ResetOps(26) /\ "sda1" \in ResetOps(27) /\ "scl1" \in ResetOps(28)
  BY DEF ResetOps
<1>4. /\ R(L("sda1"), 1, 0) /\ R(L("scl1"), 1, 1) /\ R(L("scl0"), 1, 2)
      /\ R(L("sda0"), 1, 3) /\ R(L("scl1"), 1, 4)
      /\ R(L("sda1"), 1, 23) /\ R(L("scl0"), 1, 24) /\ R(L("sda0"), 1, 25)
      /\ R(L("sda1"), 1, 26) /\ R(L("scl1"), 1, 27)
  <2>1. /\ 0 + 1 = 1 /\ 1 + 1 = 2 /\ 2 + 1 = 3 /\ 3 + 1 = 4 /\ 4 + 1 = 5
        /\ 23 + 1 = 24 /\ 24 + 1 = 25 /\ 25 + 1 = 26 /\ 26 + 1 = 27 /\ 27 + 1 = 28
    OBVIOUS
  <2> HIDE DEF R, L
  <2> QED BY <1>1, <1>3, <2>1
<1>5. R(EightTimes(op8), 16, 7)
  <2>1. op8 \in [0..7 -> Seq(LineOps)] /\ \A n \in 0..7 : op8[n] = Clock
    BY LineSteps
  <2> HIDE DEF op8
  <2>2. /\ R(op8[7], 2, 7) /\ R(op8[6], 2, 9) /\ R(op8[5], 2, 11) /\ R(op8[4], 2, 13)
        /\ R(op8[3], 2, 15) /\ R(op8[2], 2, 17) /\ R(op8[1], 2, 19) /\ R(op8[0], 2, 21)
    BY <1>2, <2>1
  <2>3. /\ 7 + 2 = 9 /\ 7 + 2 * 2 = 11 /\ 7 + 3 * 2 = 13 /\ 7 + 4 * 2 = 15 /\ 7 + 5 * 2 = 17
        /\ 7 + 6 * 2 = 19 /\ 7 + 7 * 2 = 21 /\ 8 * 2 = 16
    OBVIOUS
  <2> QED BY <2>1, <2>2, <2>3, DoesEight
<1>6. R(Clock, 2, 5)
  BY <1>2
<1>7. ASSUME NEW a, NEW b, NEW k \in Nat, NEW l \in Nat, NEW m \in Nat, NEW n \in Nat,
             n = m + l, R(a, k, n), R(b, l, m)
      PROVE  R(a \o b, k + l, m)
  BY <1>7, DoesBoth
<1> HIDE DEF R, L, op8
<1>8. R(L("scl1") \o L("sda1"), 2, 26)
  BY <1>4, <1>7
<1>9. R(L("scl1") \o L("sda1") \o L("sda0"), 3, 25)
  BY <1>4, <1>7, <1>8
<1>10. R(L("scl1") \o L("sda1") \o L("sda0") \o L("scl0"), 4, 24)
  BY <1>4, <1>7, <1>9
<1>11. R(L("scl1") \o L("sda1") \o L("sda0") \o L("scl0") \o L("sda1"), 5, 23)
  BY <1>4, <1>7, <1>10
<1> DEFINE a == L("scl1") \o L("sda1") \o L("sda0") \o L("scl0") \o L("sda1")
           c == a \o EightTimes(op8) \o Clock
<1>12. R(a, 5, 23)
  BY <1>11
<1> HIDE DEF a
<1>13. R(a \o EightTimes(op8), 21, 7)
  BY <1>5, <1>7, <1>12
<1>14. R(c, 23, 5)
  BY <1>6, <1>7, <1>13
<1> HIDE DEF c
<1>15. R(L("scl1") \o L("sda0"), 2, 3)
  BY <1>4, <1>7
<1>16. R(L("scl1") \o L("sda0") \o L("scl0"), 3, 2)
  BY <1>4, <1>7, <1>15
<1>17. R(L("scl1") \o L("sda0") \o L("scl0") \o L("scl1"), 4, 1)
  BY <1>4, <1>7, <1>16
<1>18. R(L("scl1") \o L("sda0") \o L("scl0") \o L("scl1") \o L("sda1"), 5, 0)
  BY <1>4, <1>7, <1>17
<1>19. ResetEnd = L("scl1") \o L("sda0") \o L("scl0") \o L("scl1") \o L("sda1")
  BY DEF ResetEnd, L
<1>20. TempReset = c \o ResetEnd
  BY DEF TempReset, c, a, op8, L
<1>21. R(ResetEnd, 5, 0)
  BY <1>18, <1>19
<1>22. R(TempReset, 28, 0)
  BY <1>7, <1>14, <1>20, <1>21
<1> QED BY <1>22 DEF R

-----------------------------------------------------------------------------
(* What an operation does to the debt.                                     *)

\* l after the operation op.
Moved(l, op) ==
    [sda |-> IF op = "sda0" THEN 0 ELSE IF op = "sda1" THEN 1 ELSE l.sda,
     scl |-> IF op = "scl0" THEN 0 ELSE IF op = "scl1" THEN 1 ELSE l.scl]

\* op takes lines l, pull p and debt d to m, q and e: only an edge of CTS adds a
\* packet, and only when SCL falls the chip may change its mind.
Step(op, l, p, d, m, q, e) ==
    /\ m = Moved(l, op)
    /\ ~(l.scl = 1 /\ m.scl = 0) => q = p
    /\ e <= d + 2
    /\ m.sda = l.sda /\ (l.sda = 0 \/ q = p) => e = d

\* A reset, a START and a STOP owe what fits in the adapter at most.
LEMMA BusOwes ==
    ASSUME NEW what \in {"reset", "start", "repstart", "stop"}, NEW j \in Nat, j >= 1,
           NEW op \in Plan(what, j), NEW l \in Lines, NEW m,
           NEW p \in BOOLEAN, NEW q \in BOOLEAN, NEW d \in Nat, NEW e \in 0..8,
           Step(op, l, p, d, m, q, e),
           what \in {"start", "repstart"} => (l.scl = 1 /\ m.scl = 0 => ~q),
           Driven(what, j, l, p), d <= Plus(Owed(what, j, l.sda, p) - 1)
    PROVE  Driven(what, j - 1, m, q) /\ e <= Owed(what, j - 1, m.sda, q)
<1>1. /\ l.sda \in 0..1 /\ l.scl \in 0..1
      /\ m.sda = IF op = "sda0" THEN 0 ELSE IF op = "sda1" THEN 1 ELSE l.sda
      /\ m.scl = IF op = "scl0" THEN 0 ELSE IF op = "scl1" THEN 1 ELSE l.scl
  BY DEF Lines, Level, Step, Moved
<1>2. CASE what \in {"reset", "stop"}
  <2>1. (j = 1 => op = "sda1") /\ (j = 2 => op = "scl1")
    BY <1>2 DEF Plan, ResetOps, StopOps
  <2>2. Driven(what, j - 1, m, q)
    BY <1>1, <1>2, <2>1 DEF Driven
  <2> QED BY <1>2, <2>2 DEF Owed
<1>3. CASE what \in {"start", "repstart"}
  <2>1. /\ j = 1 => op = "scl0"
        /\ j = 2 => op = "sda0"
        /\ j = 3 => op = "scl1"
    BY <1>3 DEF Plan, StartOps
  <2>2. /\ j \in 1..2 => l.scl = 1
        /\ j = 1 => l.sda = 0
    BY <1>3 DEF Driven
  <2>3. j - 1 \in 1..2 => m.scl = 1
    BY <1>1, <2>1, <2>2
  <2>4. j - 1 = 1 => m.sda = 0
    BY <1>1, <2>1
  <2>5. j - 1 = 0 => ~q
    <3>1. j = 1 => l.scl = 1 /\ m.scl = 0
      BY <1>1, <2>1, <2>2
    <3>2. j - 1 = 0 => j = 1
      OBVIOUS
    <3> QED BY <1>3, <3>1, <3>2, Zenon
  <2>6. Driven(what, j - 1, m, q)
    BY <1>3, <2>3, <2>4, <2>5 DEF Driven
  <2>7. CASE j = 1
    <3>1. m.sda = l.sda /\ l.sda = 0
      BY <1>1, <2>1, <2>2, <2>7
    <3>2. e = d
      BY <3>1 DEF Step
    <3>3. d <= 7
      BY <1>3, <2>7 DEF Owed, Plus
    <3>4. Owed(what, 0, m.sda, q) = 7
      BY <1>3 DEF Owed
    <3> QED BY <2>6, <2>7, <3>2, <3>3, <3>4
  <2>8. CASE j # 1
    <3>1. Owed(what, j - 1, m.sda, q) = 8
      BY <1>3, <2>8 DEF Owed
    <3> QED BY <2>6, <3>1
  <2> QED BY <2>7, <2>8
<1> QED BY <1>2, <1>3

LEMMA OutbOwes ==
    ASSUME NEW j \in 1..29, NEW op \in Plan("outb", j), NEW l \in Lines, NEW m,
           NEW p \in BOOLEAN, NEW q \in BOOLEAN, NEW d \in Nat, NEW e \in Nat,
           Step(op, l, p, d, m, q, e), j > 6 => (l.scl = 1 /\ m.scl = 0 => ~q),
           Driven("outb", j, l, p), d <= Plus(Owed("outb", j, l.sda, p) - 1)
    PROVE  Driven("outb", j - 1, m, q) /\ e <= Owed("outb", j - 1, m.sda, q)
<1>1. /\ l.sda \in 0..1 /\ l.scl \in 0..1
      /\ m.sda = IF op = "sda0" THEN 0 ELSE IF op = "sda1" THEN 1 ELSE l.sda
      /\ m.scl = IF op = "scl0" THEN 0 ELSE IF op = "scl1" THEN 1 ELSE l.scl
  BY DEF Lines, Level, Step, Moved
<1>2. /\ j > 5 /\ j % 3 = 2 => op \in {"sda0", "sda1"}
      /\ j > 5 /\ j % 3 = 1 => op = "scl1"
      /\ j > 5 /\ j % 3 = 0 => op = "scl0"
      /\ j \in {5, 3} => op = "sda1"
      /\ j = 4 => op = "scl1"
      /\ j = 2 => op = "sample"
      /\ j = 1 => op = "scl0"
  BY DEF Plan, BitOps, ReadOps
<1>3. Driven("outb", j - 1, m, q)
  <2>1. j - 1 = 27 => m.scl = 1
    BY <1>1, <1>2
  <2>2. j - 1 \in 6..26 => ~q
    <3>1. CASE j = 27
      BY <1>1, <1>2, <3>1 DEF Driven
    <3>2. CASE j \in 7..26
      BY <1>1, <3>2 DEF Driven, Step
    <3> QED BY <3>1, <3>2
  <2>3. j - 1 < 5 => m.sda = 1
    BY <1>1, <1>2 DEF Driven
  <2> QED BY <2>1, <2>2, <2>3 DEF Driven
<1>4. \A i \in 0..29 : \A s, u : Owed("outb", i, s, u) =
          IF i = 0 THEN 2 ELSE
          IF i > 5 THEN (IF i \in {29, 27} THEN (IF u THEN 5 ELSE 7)
                         ELSE IF i = 28 THEN (IF u THEN 6 ELSE 8) ELSE
                         IF i % 3 = 2 THEN Plus((i \div 3) - 2) ELSE
                         IF i % 3 = 1 THEN Plus((i \div 3) - 3) + 2 ELSE Plus((i \div 3) - 3) + 1)
          ELSE IF i = 5 THEN 2 * s ELSE Plus(i - 2)
  BY DEF Owed, BitOwed
<1>5. e <= d + 2 /\ (m.sda = l.sda /\ (l.sda = 0 \/ q = p) => e = d)
      /\ (~(l.scl = 1 /\ m.scl = 0) => q = p)
  BY DEF Step
<1>6. CASE j > 6
  <2>1. j \in 7..26 => ~p /\ ~q
    BY <1>1, <1>5, <1>6 DEF Driven
  <2>2. op # "scl0" /\ op # "sda0" /\ op # "sda1" => e = d
    BY <1>1, <1>5
  <2>3. j \in 7..26 /\ op = "scl0" => e = d
    BY <1>1, <1>5, <2>1
  <2>4. CASE j \in 27..29
    <3>1. /\ Owed("outb", 29, l.sda, p) = IF p THEN 5 ELSE 7
          /\ Owed("outb", 28, l.sda, p) = IF p THEN 6 ELSE 8
          /\ Owed("outb", 28, m.sda, q) = IF q THEN 6 ELSE 8
          /\ Owed("outb", 27, l.sda, p) = IF p THEN 5 ELSE 7
          /\ Owed("outb", 27, m.sda, q) = IF q THEN 5 ELSE 7
          /\ Owed("outb", 26, m.sda, q) = 6
      BY <1>4 DEF Plus
    <3>2. CASE j = 29
      <4>1. q = p
        BY <1>1, <1>2, <1>5, <3>2
      <4> QED BY <1>3, <1>5, <3>1, <3>2, <4>1 DEF Plus
    <3>3. CASE j = 28
      <4>1. q = p /\ e = d
        BY <1>1, <1>2, <1>5, <3>3
      <4> QED BY <1>3, <3>1, <3>3, <4>1 DEF Plus
    <3>4. CASE j = 27
      <4>1. m.sda = l.sda /\ ~q
        BY <1>1, <1>2, <1>3, <3>4 DEF Driven
      <4>2. CASE p
        <5>1. Owed("outb", j, l.sda, p) = 5
          BY <3>1, <3>4, <4>2
        <5>2. d <= 4
          BY <5>1 DEF Plus
        <5>3. e <= 6
          BY <1>5, <5>2
        <5> QED BY <1>3, <3>1, <3>4, <5>3
      <4>3. CASE ~p
        <5>1. e = d
          BY <1>5, <4>1, <4>3
        <5> QED BY <1>3, <3>1, <3>4, <4>3, <5>1 DEF Plus
      <4> QED BY <4>2, <4>3
    <3> QED BY <2>4, <3>2, <3>3, <3>4
  <2>5. CASE j \in 7..26 /\ j % 3 = 2
    BY <1>2, <1>3, <1>4, <1>5, <2>5 DEF Plus
  <2>6. CASE j \in 7..26 /\ j % 3 # 2
    <3>1. e = d
      BY <1>2, <2>2, <2>3, <2>6
    <3> QED BY <1>3, <1>4, <2>6, <3>1 DEF Plus
  <2> QED BY <1>6, <2>4, <2>5, <2>6
<1>7. CASE j = 6
  <2>1. d = 0
    BY <1>4, <1>7 DEF Plus
  <2>2. op = "scl0" /\ m.sda = l.sda
    BY <1>1, <1>2, <1>7
  <2>3. l.sda = 0 => e = 0
    BY <1>5, <2>1, <2>2
  <2> QED BY <1>1, <1>3, <1>4, <1>5, <1>7, <2>1, <2>2, <2>3
<1>8. CASE j = 5
  <2>1. op = "sda1" /\ q = p /\ m.sda = 1
    BY <1>1, <1>2, <1>5, <1>8
  <2>2. l.sda = 0 => d = 0
    BY <1>4, <1>8 DEF Plus
  <2>3. l.sda = 1 => e = d /\ d <= 1
    BY <1>4, <1>5, <1>8, <2>1 DEF Plus
  <2> QED BY <1>1, <1>3, <1>4, <1>5, <1>8, <2>1, <2>2, <2>3 DEF Plus
<1>9. CASE j < 5
  <2>1. l.sda = 1
    BY <1>9 DEF Driven
  <2>2. op # "scl0" => e = d
    BY <1>1, <1>2, <1>5, <1>9, <2>1
  <2> QED BY <1>2, <1>3, <1>4, <1>5, <1>9, <2>2 DEF Plus
<1> QED BY <1>6, <1>7, <1>8, <1>9

LEMMA InbOwes ==
    ASSUME NEW j \in 1..33, NEW op \in Plan("inb", j), NEW l \in Lines, NEW m,
           NEW p \in BOOLEAN, NEW q \in BOOLEAN, NEW d \in Nat, NEW e \in Nat,
           Step(op, l, p, d, m, q, e),
           Driven("inb", j, l, p), d <= Plus(Owed("inb", j, l.sda, p) - 1)
    PROVE  Driven("inb", j - 1, m, q) /\ e <= Owed("inb", j - 1, m.sda, q)
<1>1. /\ l.sda \in 0..1 /\ l.scl \in 0..1
      /\ m.sda = IF op = "sda0" THEN 0 ELSE IF op = "sda1" THEN 1 ELSE l.sda
      /\ m.scl = IF op = "scl0" THEN 0 ELSE IF op = "scl1" THEN 1 ELSE l.scl
  BY DEF Lines, Level, Step, Moved
<1>2. /\ j = 33 \/ j % 4 = 3 => op = "sda1"
      /\ j < 33 /\ j % 4 = 0 => op = "scl1"
      /\ j < 33 /\ j % 4 = 2 => op = "sample"
      /\ j < 33 /\ j % 4 = 1 => op = "scl0"
  BY DEF Plan, ReadOps
<1>3. Driven("inb", j - 1, m, q)
  BY <1>1, <1>2 DEF Driven
<1>4. \A i \in 0..33 : \A s, u : Owed("inb", i, s, u) =
          IF i = 0 THEN 2 ELSE IF i = 33 THEN 2 ELSE
          IF i % 4 = 0 THEN 3 ELSE IF i % 4 = 3 THEN 2 ELSE IF i % 4 = 2 THEN 1 ELSE 0
  BY DEF Owed, ReadOwed
<1>5. e <= d + 2 /\ (m.sda = l.sda /\ (l.sda = 0 \/ q = p) => e = d)
      /\ (~(l.scl = 1 /\ m.scl = 0) => q = p)
  BY DEF Step
<1>6. CASE j = 33
  BY <1>3, <1>4, <1>5, <1>6 DEF Plus
<1>7. CASE j < 33
  <2>1. l.sda = 1
    BY <1>7 DEF Driven
  <2>2. op # "scl0" => e = d
    BY <1>1, <1>2, <1>5, <1>7, <2>1
  <2> QED BY <1>2, <1>3, <1>4, <1>5, <1>7, <2>2 DEF Plus
<1> QED BY <1>6, <1>7

LEMMA AckOwes ==
    ASSUME NEW j \in 1..3, NEW op \in Plan("acknak", j), NEW l \in Lines, NEW m,
           NEW p \in BOOLEAN, NEW q \in BOOLEAN, NEW d \in Nat, NEW e \in Nat,
           Step(op, l, p, d, m, q, e), d <= Plus(Owed("acknak", j, l.sda, p) - 1)
    PROVE  Driven("acknak", j - 1, m, q) /\ e <= Owed("acknak", j - 1, m.sda, q)
<1>1. /\ l.sda \in 0..1 /\ l.scl \in 0..1
      /\ m.sda = IF op = "sda0" THEN 0 ELSE IF op = "sda1" THEN 1 ELSE l.sda
      /\ m.scl = IF op = "scl0" THEN 0 ELSE IF op = "scl1" THEN 1 ELSE l.scl
  BY DEF Lines, Level, Step, Moved
<1>2. (j = 3 => op = "sda0") /\ (j = 2 => op = "scl1") /\ (j = 1 => op = "scl0")
  BY DEF Plan
<1>3. Driven("acknak", j - 1, m, q)
  BY DEF Driven
<1>4. \A i \in 0..3 : \A s, u : Owed("acknak", i, s, u) =
          IF i = 0 THEN 2 ELSE IF i = 3 THEN 2 ELSE i + 1 - s
  BY DEF Owed
<1>5. e <= d + 2 /\ (m.sda = l.sda /\ (l.sda = 0 \/ q = p) => e = d)
      /\ (~(l.scl = 1 /\ m.scl = 0) => q = p)
  BY DEF Step
<1>6. CASE j = 3
  BY <1>1, <1>2, <1>3, <1>4, <1>5, <1>6 DEF Plus
<1>7. CASE j = 2
  BY <1>1, <1>2, <1>3, <1>4, <1>5, <1>7 DEF Plus
<1>8. CASE j = 1
  BY <1>1, <1>2, <1>3, <1>4, <1>5, <1>8 DEF Plus
<1> QED BY <1>6, <1>7, <1>8

-----------------------------------------------------------------------------
(* The debt in the states of the adapter.                                  *)

\* No two polls in a row are late, the adapter keeps at most four packets, and
\* the code of no rate is 9600.
Timely == MaxLate <= 1 /\ MaxQueue <= 4 /\ DefaultBaud \notin Speeds

LEMMA Debts ==
    ASSUME Timely, TypeOK
    PROVE  /\ Debt \in 0..8
           /\ Debt = 0 => queue = <<>>
<1>1. late \in 0..1
  BY BoundsAssumption DEF TypeOK, Timely
<1>2. queue \in Seq(Level) /\ Len(queue) <= MaxQueue
  BY DEF TypeOK
<1>3. Len(queue) \in Nat /\ Len(queue) <= 4
  BY <1>2, BoundsAssumption DEF Timely
<1>4. CASE queue = <<>>
  BY <1>4 DEF Debt
<1>5. CASE queue # <<>>
  <2>1. Len(queue) >= 1
    BY <1>2, <1>5
  <2>2. Debt = 2 * Len(queue) - late
    BY <1>5 DEF Debt
  <2>3. PICK m, n : m = Len(queue) /\ n = late
    OBVIOUS
  <2>4. m \in Nat /\ m >= 1 /\ m <= 4 /\ n \in 0..1
    BY <1>1, <1>3, <2>1, <2>3, Zenon
  <2>5. m \in 1..4 /\ n \in 0..1
    BY <2>4
  <2>6. 2 * m - n \in 1..8
    BY <2>5
  <2>7. Debt \in 1..8
    BY <2>2, <2>3, <2>6, Zenon
  <2> QED BY <1>5, <2>7
<1> QED BY <1>4, <1>5

InTime == Timely /\ TypeOK
InDebt == Debt \in 0..8

LEMMA DebtsBound == InTime => InDebt
BY Debts DEF InTime, InDebt

LEMMA DebtsNext == InTime' => InDebt'
BY DebtsBound, PTL

\* Whatever message is carried out, the newest packet tells CTS, and if there is
\* none CTS did not change.
LEMMA EffectReports ==
    ASSUME TypeOK, Reported, NEW op, Effect(op)
    PROVE  /\ Reported'
           /\ queue' = <<>> => queue = <<>> /\ Cts' = Cts
<1>1. CASE op \in Carries
  <2>1. DriveLines(Sent)
    BY <1>1 DEF Effect, Carries
  <2>2. PICK v : v = LevelOf(Sent, pull')
    OBVIOUS
  <2>3. Cts' = v /\ queue' = IF v = Cts THEN queue ELSE Report(queue, v)
    BY <2>1, <2>2 DEF DriveLines, Cts
  <2>4. v \in Level
    BY <2>2 DEF LevelOf, Level
  <2>5. CASE v = Cts
    BY <2>3, <2>5 DEF Reported
  <2>6. CASE v # Cts
    <3>1. queue' \in Seq(Level) /\ Len(queue') >= 1 /\ queue'[Len(queue')] = v
      <4>1. queue' = Report(queue, v) /\ queue \in Seq(Level)
        BY <2>3, <2>6 DEF TypeOK
      <4>2. CASE Len(queue) < MaxQueue
        BY <2>4, <4>1, <4>2 DEF Report
      <4>3. CASE ~(Len(queue) < MaxQueue)
        <5>1. Len(queue) >= 1
          BY <4>1, <4>3, BoundsAssumption
        <5>2. PICK t : t = Tail(queue)
          OBVIOUS
        <5>4. t \in Seq(Level)
          BY <4>1, <5>1, <5>2
        <5>3. queue' = Append(t, v)
          BY <4>1, <4>3, <5>2 DEF Report
        <5> QED BY <2>4, <5>3, <5>4
      <4> QED BY <4>2, <4>3
    <3>2. queue' # <<>>
      BY <3>1
    <3> QED BY <2>3, <3>1, <3>2 DEF Reported
  <2> QED BY <2>5, <2>6
<1>2. CASE op \notin Carries
  <2>1. UNCHANGED <<lines, pull, queue>>
    BY <1>2, Zenon DEF Effect, Carries, adapter
  <2> QED BY <2>1 DEF Reported, Cts
<1> QED BY <1>1, <1>2

\* An operation on the lines is a Step.
LEMMA LineStep ==
    ASSUME Timely, TypeOK, NEW op \in {"sda0", "sda1", "scl0", "scl1"}, Effect(op),
           lines = ctl, ctl' = NewControl(op), late' = late
    PROVE  /\ Step(op, lines, pull, Debt, lines', pull', Debt')
           /\ lines' = ctl'
           /\ ~ChipsTurn => (lines.scl = 1 /\ lines'.scl = 0 => ~pull')
<1>1. DriveLines(Sent)
  BY DEF Effect
<1>2. lines' = ctl'
  BY <1>1 DEF DriveLines, Sent
<1>3. ctl' = Moved(lines, op)
  <2>1. ctl = [sda |-> ctl.sda, scl |-> ctl.scl]
    BY DEF TypeOK, Lines
  <2> QED BY <2>1 DEF NewControl, Moved, TypeOK, Lines
<1>4. lines.scl \in 0..1 /\ lines'.scl \in 0..1 /\ lines.sda \in 0..1
  BY <1>2, <1>3 DEF TypeOK, Lines, Level, Moved
<1>5. /\ ~(lines.scl = 1 /\ lines'.scl = 0) => pull' = pull
      /\ ~ChipsTurn => (lines.scl = 1 /\ lines'.scl = 0 => ~pull')
  <2>1. lines' = Sent /\ pull' \in IF lines.scl = 0 \/ Sent.scl = 1 THEN {pull}
                                   ELSE IF ChipsTurn THEN BOOLEAN ELSE {FALSE}
    BY <1>1 DEF DriveLines
  <2>2. CASE lines.scl = 0 \/ lines'.scl = 1
    <3>1. pull' = pull
      BY <2>1, <2>2, Zenon
    <3>2. ~(lines.scl = 1 /\ lines'.scl = 0)
      BY <2>2
    <3> QED BY <3>1, <3>2, Zenon
  <2>3. CASE ~(lines.scl = 0 \/ lines'.scl = 1)
    <3>1. lines.scl = 1 /\ lines'.scl = 0
      BY <1>4, <2>3
    <3>2. ~ChipsTurn => ~pull'
      BY <2>1, <2>3, Zenon
    <3> QED BY <3>1, <3>2, Zenon
  <2> QED BY <2>2, <2>3
<1>6. Debt' <= Debt + 2
  <2>1. \A v : Len(Report(queue, v)) <= Len(queue) + 1 /\ Len(Report(queue, v)) \in Nat
    BY BoundsAssumption DEF Report, TypeOK
  <2>2. Len(queue') \in Nat /\ Len(queue') <= Len(queue) + 1
    BY <1>1, <2>1 DEF DriveLines, TypeOK
  <2>3. queue' = <<>> \/ queue = <<>> \/ Len(queue') <= Len(queue) + 1
    BY <2>2
  <2>4. queue = <<>> => Len(queue) = 0
    OBVIOUS
  <2>5. late \in 0..1
    BY BoundsAssumption DEF TypeOK, Timely
  <2> QED BY <2>2, <2>4, <2>5 DEF Debt, TypeOK
<1>7. lines'.sda = lines.sda /\ (lines.sda = 0 \/ pull' = pull) => Debt' = Debt
  <2>1. SUFFICES ASSUME lines'.sda = lines.sda, lines.sda = 0 \/ pull' = pull
                 PROVE  queue' = queue
    BY DEF Debt
  <2>2. LevelOf(lines', pull') = Cts
    BY <2>1 DEF LevelOf, Cts
  <2> QED BY <1>1, <1>2, <2>2 DEF DriveLines, Sent
<1> QED BY <1>2, <1>3, <1>5, <1>6, <1>7 DEF Step

\* A poll pays one, if it is not late a second time.
LEMMA PollPays ==
    ASSUME Timely, TypeOK, Reported, Poll
    PROVE  Reported' /\ (Known => Known') /\ Debt' <= Plus(Debt - 1)
<1>1. late \in 0..1 /\ queue \in Seq(Level) /\ UNCHANGED <<lines, pull>>
  BY BoundsAssumption DEF TypeOK, Timely, Poll
<1>2. Cts' = Cts
  BY <1>1 DEF Cts
<1>3. CASE queue # <<>> /\ status' = Head(queue) /\ queue' = Tail(queue) /\ late' = 0
  <2>1. /\ Len(queue) \in Nat /\ Len(queue) >= 1 /\ queue' \in Seq(Level)
        /\ Len(queue') = Len(queue) - 1
    BY <1>1, <1>3
  <2>2. queue' # <<>> => queue'[Len(queue')] = queue[Len(queue)]
    BY <1>1, <1>3, <2>1
  <2>3. queue' = <<>> => Len(queue) = 1
    BY <2>1
  <2>4. queue' = <<>> => status' = queue[Len(queue)]
    BY <1>1, <1>3, <2>3
  <2>5. Debt' <= Plus(Debt - 1)
    BY <1>1, <1>3, <2>1 DEF Debt, Plus
  <2> QED BY <1>2, <1>3, <2>2, <2>4, <2>5 DEF Reported, Known
<1>4. CASE /\ queue = <<>> \/ late < MaxLate
           /\ late' = IF queue = <<>> THEN 0 ELSE late + 1
           /\ UNCHANGED <<status, queue>>
  <2>1. Debt' <= Plus(Debt - 1)
    <3>1. CASE queue = <<>>
      BY <1>4, <3>1 DEF Debt, Plus
    <3>2. CASE queue # <<>>
      <4>1. late = 0 /\ late' = 1 /\ Len(queue) \in Nat /\ Len(queue) >= 1
        BY <1>1, <1>4, <3>2, BoundsAssumption DEF Timely
      <4> QED BY <1>4, <3>2, <4>1 DEF Debt, Plus
    <3> QED BY <3>1, <3>2
  <2> QED BY <1>2, <1>4, <2>1 DEF Reported, Known
<1> QED BY <1>3, <1>4 DEF Poll

\* The last message of ch341_configure() is a status request.
LEMMA OpenAsks ==
    LET s == Configure \o OpenRest IN
    Len(s) \in Nat /\ Len(s) >= 4 /\ s[Len(s) - 3] = "status"
<1> DEFINE a == <<"other", "other">> \o SetBaudrate \o <<"other", "other", "status", "other">>
                \o SetBaudrate
           h == <<"handshake", "status">>
           t == <<"handshake", "baud_a", "baud_b">>
<1>1. a \in Seq(OpenOps)
  <2>1. <<"other", "other">> \in Seq(OpenOps) /\ <<"baud_a", "baud_b">> \in Seq(OpenOps)
        /\ <<"other", "other", "status", "other">> \in Seq(OpenOps)
    BY DEF OpenOps
  <2>2. <<"other", "other">> \o SetBaudrate \in Seq(OpenOps)
    BY <2>1, Joined DEF SetBaudrate
  <2>3. <<"other", "other">> \o SetBaudrate \o <<"other", "other", "status", "other">> \in Seq(OpenOps)
    BY <2>1, <2>2, Joined
  <2> QED BY <2>1, <2>3, Joined DEF SetBaudrate
<1>2. Configure = a \o h
  BY DEF Configure
<1>3. /\ h \in Seq(OpenOps) /\ Len(h) = 2 /\ h[2] = "status"
      /\ t \in Seq(OpenOps) /\ Len(t) = 3
  BY DEF OpenOps
<1> HIDE DEF a, h
<1>4. Configure \in Seq(OpenOps) /\ Len(Configure) >= 2 /\ Configure[Len(Configure)] = "status"
  <2>1. /\ a \o h \in Seq(OpenOps) /\ Len(a \o h) = Len(a) + Len(h)
        /\ \A k \in 1..(Len(a) + Len(h)) : (a \o h)[k] = IF k <= Len(a) THEN a[k] ELSE h[k - Len(a)]
    BY <1>1, <1>3, ConcatProperties, Zenon
  <2>2. Len(a) \in Nat
    BY <1>1
  <2> QED BY <1>2, <1>3, <2>1, <2>2
<1>5. OpenRest = Configure \o t
  <2>1. <<"handshake">> \in Seq(OpenOps) /\ <<"baud_a", "baud_b">> \in Seq(OpenOps)
    BY DEF OpenOps
  <2>2. Configure \o <<"handshake">> \o <<"baud_a", "baud_b">>
        = Configure \o (<<"handshake">> \o <<"baud_a", "baud_b">>)
    BY <1>4, <2>1, ConcatAssociative
  <2>3. <<"handshake">> \o <<"baud_a", "baud_b">> = t
    <3> DEFINE b == <<"handshake">>
               c == <<"baud_a", "baud_b">>
    <3>1. /\ Len(b) = 1 /\ b[1] = "handshake" /\ Len(c) = 2 /\ c[1] = "baud_a" /\ c[2] = "baud_b"
          /\ t[1] = "handshake" /\ t[2] = "baud_a" /\ t[3] = "baud_b"
      OBVIOUS
    <3> HIDE DEF b, c
    <3>2. b \in Seq(OpenOps) /\ c \in Seq(OpenOps)
      BY <2>1 DEF b, c
    <3> HIDE DEF t
    <3>3. /\ b \o c \in Seq(OpenOps) /\ Len(b \o c) = Len(b) + Len(c)
          /\ \A k \in 1..(Len(b) + Len(c)) : (b \o c)[k] = IF k <= Len(b) THEN b[k] ELSE c[k - Len(b)]
      BY <3>2, ConcatProperties, Zenon
    <3>4. (b \o c)[1] = b[1] /\ (b \o c)[2] = c[1] /\ (b \o c)[3] = c[2]
      BY <3>1, <3>3
    <3>5. b \o c = t
      BY <1>3, <3>1, <3>3, <3>4, SeqEqual
    <3> QED BY <3>5 DEF b, c, t
  <2> QED BY <2>2, <2>3 DEF OpenRest, SetBaudrate
<1> HIDE DEF t
<1>6. /\ OpenRest \in Seq(OpenOps) /\ Len(OpenRest) = Len(Configure) + 3
      /\ OpenRest[Len(Configure)] = "status"
  <2> DEFINE c == Configure
  <2>1. /\ c \o t \in Seq(OpenOps) /\ Len(c \o t) = Len(c) + Len(t)
        /\ \A k \in 1..(Len(c) + Len(t)) : (c \o t)[k] = IF k <= Len(c) THEN c[k] ELSE t[k - Len(c)]
    BY <1>3, <1>4, ConcatProperties, Zenon
  <2>2. Len(c) \in Nat /\ Len(c) >= 2 /\ c[Len(c)] = "status" /\ OpenRest = c \o t
    BY <1>4, <1>5
  <2>3. Len(Configure) = Len(c)
    OBVIOUS
  <2> HIDE DEF c
  <2> QED BY <1>3, <2>1, <2>2, <2>3
<1>7. /\ Len(Configure \o OpenRest) \in Nat /\ Len(Configure \o OpenRest) >= 4
      /\ (Configure \o OpenRest)[Len(Configure \o OpenRest) - 3] = "status"
  <2> DEFINE c == Configure
             r == OpenRest
  <2>1. /\ c \o r \in Seq(OpenOps) /\ Len(c \o r) = Len(c) + Len(r)
        /\ \A k \in 1..(Len(c) + Len(r)) : (c \o r)[k] = IF k <= Len(c) THEN c[k] ELSE r[k - Len(c)]
    BY <1>4, <1>6, ConcatProperties, Zenon
  <2>2. Len(c) \in Nat /\ Len(c) >= 2 /\ Len(r) = Len(c) + 3 /\ r[Len(c)] = "status"
    BY <1>4, <1>6
  <2>3. Configure \o OpenRest = c \o r
    OBVIOUS
  <2> HIDE DEF c, r
  <2>4. Len(c \o r) - 3 = Len(c) + Len(c)
    BY <2>1, <2>2
  <2>5. (c \o r)[Len(c) + Len(c)] = r[(Len(c) + Len(c)) - Len(c)]
    BY <2>1, <2>2
  <2>6. (Len(c) + Len(c)) - Len(c) = Len(c)
    BY <2>2
  <2>7. Len(c \o r) \in Nat /\ Len(c \o r) >= 4
    BY <2>1, <2>2
  <2> QED BY <2>2, <2>3, <2>4, <2>5, <2>6, <2>7
<1> QED BY <1>7

\* A call of the I2C layer that begins.
Ready ==
    /\ Timely /\ TypeOK /\ call \in ByteCalls
    /\ \E k \in Nat :
          /\ Does(call, todo, k, 0)
          /\ k = Size(call) \/ (call = "acknak" /\ k = 2)
    /\ call = "outb" => Debt <= 2 \/ (~pull /\ Debt <= 7)
    /\ call \in {"inb", "acknak"} => Debt <= 2
    /\ call = "start" => lines.scl = 1

LEMMA Begins == Ready => OnCourse
<1> SUFFICES ASSUME Ready PROVE OnCourse
  OBVIOUS
<1>1. /\ Timely /\ TypeOK /\ call \in ByteCalls
      /\ call = "outb" => Debt <= 2 \/ (~pull /\ Debt <= 7)
      /\ call \in {"inb", "acknak"} => Debt <= 2
      /\ call = "start" => lines.scl = 1
  BY DEF Ready
<1>2. PICK k \in Nat : /\ Does(call, todo, k, 0)
                       /\ k = Size(call) \/ (call = "acknak" /\ k = 2)
  BY Zenon DEF Ready
<1>3. Len(todo) = 2 * k /\ k <= Size(call)
  <2>1. Does(call, todo, k, 0) /\ (k = Size(call) \/ (call = "acknak" /\ k = 2))
    BY <1>2
  <2>3. Len(todo) = 2 * k
    BY <2>1 DEF Does
  <2>2. call = "acknak" => Size(call) = 3
    BY DEF Size
  <2> QED BY <2>1, <2>2, <2>3
<1>4. \A i \in 1..(2 * k) : Planned(call, 2 * k - i + 1, todo[i])
  <2>1. \A i \in 1..(2 * k) : Planned(call, 2 * (0 + k) - i + 1, todo[i])
    <3>1. Does(call, todo, k, 0)
      BY <1>2
    <3> QED BY <3>1 DEF Does
  <2>2. 0 + k = k
    OBVIOUS
  <2> QED BY <2>1, <2>2
<1>5. (2 * k + 1) \div 2 = k /\ (2 * k) % 2 = 0 /\ (2 * k) \div 2 = k
  OBVIOUS
<1>6. Driven(call, k, lines, pull)
  BY <1>1, <1>2 DEF Driven, Size, ByteCalls
<1>7. Debt \in 0..8 /\ lines.sda \in 0..1
  BY <1>1, Debts DEF TypeOK, Lines, Level
<1>8. Debt <= Owed(call, k, lines.sda, pull)
  <2>1. CASE call \in {"reset", "start", "repstart", "stop"}
    <3>1. call \in {"start", "repstart"} => k # 0
      BY <1>2 DEF Size
    <3> QED BY <1>7, <2>1, <3>1 DEF Owed
  <2>2. CASE call = "outb"
    BY <1>1, <1>2, <1>7, <2>2 DEF Owed, Size, BitOwed
  <2>3. CASE call = "inb"
    BY <1>1, <1>2, <1>7, <2>3 DEF Owed, Size
  <2>4. CASE call = "acknak"
    BY <1>1, <1>2, <1>7, <2>4 DEF Owed, Size
  <2> QED BY <1>1, <2>1, <2>2, <2>3, <2>4 DEF ByteCalls
<1>9. Allowed(call, Len(todo), lines.sda, pull) = Owed(call, k, lines.sda, pull)
  BY <1>3, <1>5 DEF Allowed
<1>10. Len(todo) <= 2 * Size(call)
  <2>1. Size(call) \in Nat
    BY DEF Size
  <2> QED BY <1>3, <2>1
<1>11. \A i \in 1..Len(todo) : Planned(call, Len(todo) - i + 1, todo[i])
  BY <1>3, <1>4
<1>12. Driven(call, (Len(todo) + 1) \div 2, lines, pull)
  BY <1>3, <1>5, <1>6
<1>13. Debt <= Allowed(call, Len(todo), lines.sda, pull)
  BY <1>8, <1>9
<1> QED BY <1>10, <1>11, <1>12, <1>13, Zenon DEF OnCourse

\* The plan of what is left.
LEMMA PlanShifts ==
    ASSUME NEW what, NEW s \in Seq(LineOps), s # <<>>,
           \A i \in 1..Len(s) : Planned(what, Len(s) - i + 1, s[i])
    PROVE  /\ Len(Tail(s)) = Len(s) - 1 /\ Len(s) \in Nat \ {0}
           /\ Planned(what, Len(s), Head(s))
           /\ \A i \in 1..(Len(s) - 1) : Planned(what, (Len(s) - 1) - i + 1, Tail(s)[i])
<1>1. Len(s) \in Nat \ {0} /\ Len(Tail(s)) = Len(s) - 1 /\ Head(s) = s[1]
  OBVIOUS
<1>2. Planned(what, Len(s), Head(s))
  <2>1. 1 \in 1..Len(s) /\ Len(s) - 1 + 1 = Len(s)
    BY <1>1
  <2> QED BY <1>1, <2>1
<1>3. ASSUME NEW i \in 1..(Len(s) - 1) PROVE Planned(what, (Len(s) - 1) - i + 1, Tail(s)[i])
  <2>1. i + 1 \in 1..Len(s) /\ Len(s) - (i + 1) + 1 = (Len(s) - 1) - i + 1
    BY <1>1
  <2>2. Tail(s)[i] = s[i + 1]
    BY <1>1
  <2>3. Planned(what, Len(s) - (i + 1) + 1, s[i + 1])
    BY <2>1
  <2> QED BY <2>1, <2>2, <2>3
<1> QED BY <1>1, <1>2, <1>3

\* A call's next operation, its poll made, keeps it on course.
LEMMA OperationOnCourse ==
    ASSUME Timely, TypeOK, OnCourse, call \in ByteCalls, todo \in Seq(LineOps), todo # <<>>,
           NEW op, op = Head(todo), op # "poll",
           call' = call, todo' = Tail(todo), lines' \in Lines, pull' \in BOOLEAN,
           Debt' \in 0..8, Step(op, lines, pull, Debt, lines', pull', Debt'),
           ~ChipsTurn => (lines.scl = 1 /\ lines'.scl = 0 => ~pull')
    PROVE  OnCourse'
<1> DEFINE n == Len(todo)
           j == (n + 1) \div 2
           d == Debt
           e == Debt'
<1>1. /\ n <= 2 * Size(call) /\ Driven(call, j, lines, pull)
      /\ \A i \in 1..n : Planned(call, n - i + 1, todo[i])
      /\ d <= Allowed(call, n, lines.sda, pull)
  BY DEF OnCourse
<1>2. /\ Len(todo') = n - 1 /\ n \in Nat \ {0} /\ Planned(call, n, op)
      /\ \A i \in 1..(n - 1) : Planned(call, (n - 1) - i + 1, todo'[i])
  BY <1>1, PlanShifts
<1>3. n % 2 # 0 /\ op \in Plan(call, j)
  BY <1>2 DEF Planned
<1> HIDE DEF n
<1>4. /\ j \in Nat /\ n = 2 * j - 1 /\ j >= 1
      /\ ((n - 1) + 1) \div 2 = j - 1 /\ (n - 1) % 2 = 0 /\ (n - 1) \div 2 = j - 1
  BY <1>2, <1>3
<1> HIDE DEF j
<1>5. d <= Plus(Owed(call, j, lines.sda, pull) - 1)
  <2>1. (n + 1) \div 2 = j
    BY <1>4
  <2> QED BY <1>1, <1>3, <2>1 DEF Allowed
<1>6. d \in 0..8 /\ e \in 0..8 /\ lines \in Lines /\ pull \in BOOLEAN
  BY Debts, Zenon DEF TypeOK
<1>7. d \in Nat /\ e \in Nat /\ pull' \in BOOLEAN
  BY <1>6
<1>8. Step(op, lines, pull, d, lines', pull', e)
  OBVIOUS
<1> HIDE DEF d, e
<1>9. Driven(call, j - 1, lines', pull') /\ e <= Owed(call, j - 1, lines'.sda, pull')
  <2>1. CASE call \in {"reset", "start", "repstart", "stop"}
    <3>1. j \in Nat /\ j >= 1 /\ op \in Plan(call, j)
      BY <1>3, <1>4
    <3>2. call \in {"start", "repstart"} => (lines.scl = 1 /\ lines'.scl = 0 => ~pull')
      BY Zenon DEF ChipsTurn
    <3>3. Driven(call, j, lines, pull)
      BY <1>1 DEF j
    <3>4. PICK w, m, p, q : w = call /\ m = lines' /\ p = pull /\ q = pull'
      OBVIOUS
    <3>5. /\ w \in {"reset", "start", "repstart", "stop"} /\ op \in Plan(w, j)
          /\ p \in BOOLEAN /\ q \in BOOLEAN /\ Step(op, lines, p, d, m, q, e) /\ Driven(w, j, lines, p)
          /\ (w \in {"start", "repstart"} => (lines.scl = 1 /\ m.scl = 0 => ~q))
          /\ d <= Plus(Owed(w, j, lines.sda, p) - 1)
      BY <1>5, <1>6, <1>7, <1>8, <2>1, <3>1, <3>2, <3>3, <3>4, Zenon
    <3>6. Driven(w, j - 1, m, q) /\ e <= Owed(w, j - 1, m.sda, q)
      BY <1>6, <1>7, <3>1, <3>5, BusOwes, ZenonT(60)
    <3> QED BY <3>4, <3>6
  <2>2. CASE call = "outb"
    <3>1. j \in 1..29
      <4>1. Size(call) = 29
        BY <2>2 DEF Size
      <4>2. n <= 2 * 29
        BY <1>1, <4>1, Zenon
      <4> QED BY <1>4, <4>2
    <3>2. op \in Plan("outb", j)
      BY <1>3, <2>2
    <3>3. j > 6 => (lines.scl = 1 /\ lines'.scl = 0 => ~pull')
      <4>1. j > 6 => ~(Len(todo) <= Len(ReadAck) + 1)
        <5>1. Len(ReadAck) = 10
          BY AckPlanned DEF Does
        <5> QED BY <1>4, <5>1 DEF n
      <4> QED BY <2>2, <4>1, Zenon DEF ChipsTurn
    <3>4. Driven("outb", j, lines, pull)
      BY <1>1, <2>2 DEF j
    <3>5. PICK m, p, q : m = lines' /\ p = pull /\ q = pull'
      OBVIOUS
    <3>6. p \in BOOLEAN /\ q \in BOOLEAN /\ Step(op, lines, p, d, m, q, e) /\ Driven("outb", j, lines, p)
          /\ (j > 6 => (lines.scl = 1 /\ m.scl = 0 => ~q))
          /\ d <= Plus(Owed("outb", j, lines.sda, p) - 1)
      BY <1>5, <1>6, <1>7, <1>8, <2>2, <3>3, <3>4, <3>5, Zenon
    <3>7. Driven("outb", j - 1, m, q) /\ e <= Owed("outb", j - 1, m.sda, q)
      BY <1>6, <1>7, <3>1, <3>2, <3>6, OutbOwes, Zenon
    <3> QED BY <2>2, <3>5, <3>7
  <2>3. CASE call = "inb"
    <3>1. j \in 1..33
      <4>1. Size(call) = 33
        BY <2>3 DEF Size
      <4>2. n <= 2 * 33
        BY <1>1, <4>1, Zenon
      <4> QED BY <1>4, <4>2
    <3>2. op \in Plan("inb", j)
      BY <1>3, <2>3
    <3>3. Driven("inb", j, lines, pull)
      BY <1>1, <2>3 DEF j
    <3>4. PICK m, p, q : m = lines' /\ p = pull /\ q = pull'
      OBVIOUS
    <3>5. p \in BOOLEAN /\ q \in BOOLEAN /\ Step(op, lines, p, d, m, q, e) /\ Driven("inb", j, lines, p)
          /\ d <= Plus(Owed("inb", j, lines.sda, p) - 1)
      BY <1>5, <1>6, <1>7, <1>8, <2>3, <3>3, <3>4, Zenon
    <3>6. Driven("inb", j - 1, m, q) /\ e <= Owed("inb", j - 1, m.sda, q)
      BY <1>6, <1>7, <3>1, <3>2, <3>5, InbOwes, Zenon
    <3> QED BY <2>3, <3>4, <3>6
  <2>4. CASE call = "acknak"
    <3>1. j \in 1..3
      <4>1. Size(call) = 3
        BY <2>4 DEF Size
      <4>2. n <= 2 * 3
        BY <1>1, <4>1, Zenon
      <4> QED BY <1>4, <4>2
    <3>2. op \in Plan("acknak", j)
      BY <1>3, <2>4
    <3>3. PICK m, p, q : m = lines' /\ p = pull /\ q = pull'
      OBVIOUS
    <3>4. /\ p \in BOOLEAN /\ q \in BOOLEAN /\ Step(op, lines, p, d, m, q, e)
          /\ d <= Plus(Owed("acknak", j, lines.sda, p) - 1)
      BY <1>5, <1>6, <1>7, <1>8, <2>4, <3>3, Zenon
    <3>5. Driven("acknak", j - 1, m, q) /\ e <= Owed("acknak", j - 1, m.sda, q)
      BY <1>6, <1>7, <3>1, <3>2, <3>4, AckOwes, Zenon
    <3> QED BY <2>4, <3>3, <3>5
  <2> QED BY <2>1, <2>2, <2>3, <2>4 DEF ByteCalls
<1>10. Allowed(call', Len(todo'), lines'.sda, pull') = Owed(call, j - 1, lines'.sda, pull')
  BY <1>2, <1>4 DEF Allowed
<1>11. Len(todo') <= 2 * Size(call')
  <2>1. Size(call) \in Nat
    BY DEF Size
  <2> QED BY <1>1, <1>2, <2>1
<1>12. Driven(call', (Len(todo') + 1) \div 2, lines', pull')
  BY <1>2, <1>4, <1>9
<1>13. \A i \in 1..Len(todo') : Planned(call', Len(todo') - i + 1, todo'[i])
  BY <1>2
<1>14. Debt' <= Allowed(call', Len(todo'), lines'.sda, pull')
  BY <1>9, <1>10 DEF e
<1> QED BY <1>11, <1>12, <1>13, <1>14, Zenon DEF OnCourse

LEMMA BeginsNext == Ready' => OnCourse'
BY Begins, PTL

\* A poll keeps the call on course.
LEMMA PollOnCourse ==
    ASSUME Timely, TypeOK, OnCourse, call \in ByteCalls, todo \in Seq(LineOps), todo # <<>>,
           Head(todo) = "poll", call' = call, todo' = Tail(todo), UNCHANGED <<lines, pull>>,
           Debt' \in 0..8, Debt' <= Plus(Debt - 1)
    PROVE  OnCourse'
<1> DEFINE n == Len(todo)
           j == (n + 1) \div 2
<1>1. /\ n <= 2 * Size(call) /\ Driven(call, j, lines, pull)
      /\ \A i \in 1..n : Planned(call, n - i + 1, todo[i])
      /\ Debt <= Allowed(call, n, lines.sda, pull)
  BY DEF OnCourse
<1>2. /\ Len(todo') = n - 1 /\ n \in Nat \ {0} /\ Planned(call, n, "poll")
      /\ \A i \in 1..(n - 1) : Planned(call, (n - 1) - i + 1, todo'[i])
  BY <1>1, PlanShifts
<1>3. n % 2 = 0
  <2>1. \A i : "poll" \notin Plan(call, i)
    BY DEF Plan, ResetOps, StartOps, StopOps, BitOps, ReadOps
  <2> QED BY <1>2, <2>1 DEF Planned
<1> HIDE DEF n
<1>4. /\ j \in Nat /\ n = 2 * j /\ ((n - 1) + 1) \div 2 = j /\ (n - 1) % 2 # 0 /\ n \div 2 = j
  BY <1>2, <1>3
<1> HIDE DEF j
<1>5. Debt <= Owed(call, j, lines.sda, pull)
  BY <1>1, <1>3, <1>4 DEF Allowed
<1>6. Debt \in 0..8
  BY Debts
<1>7. PICK d, e, w : d = Debt /\ e = Debt' /\ w = Owed(call, j, lines.sda, pull)
  OBVIOUS
<1>8. w \in Int
  <2>1. lines.sda \in Int
    BY DEF TypeOK, Lines, Level
  <2>2. \A i \in Int : Plus(i) \in Int
    BY DEF Plus
  <2>3. BitOwed(j, pull) \in Int
    <3>1. (j \div 3) \in Int /\ (j \div 3) - 2 \in Int /\ (j \div 3) - 3 \in Int
      BY <1>4
    <3>2. Plus((j \div 3) - 2) \in Int /\ Plus((j \div 3) - 3) + 2 \in Int
          /\ Plus((j \div 3) - 3) + 1 \in Int
      <4>1. Plus((j \div 3) - 2) \in Int /\ Plus((j \div 3) - 3) \in Int
        BY <2>2, <3>1
      <4> QED BY <4>1
    <3> QED BY <3>2 DEF BitOwed
  <2>4. ReadOwed(j) \in Int
    BY <1>4 DEF ReadOwed
  <2>5. Plus(j - 2) \in Int /\ 2 * lines.sda \in Int /\ j + 1 - lines.sda \in Int
    BY <1>4, <2>1 DEF Plus
  <2> QED BY <1>7, <2>3, <2>4, <2>5 DEF Owed
<1>9. e <= Plus(w - 1)
  <2>1. d \in 0..8 /\ e \in 0..8 /\ d <= w /\ e <= Plus(d - 1)
    BY <1>5, <1>6, <1>7
  <2> QED BY <1>8, <2>1 DEF Plus
<1>10. Allowed(call', Len(todo'), lines'.sda, pull') = Plus(w - 1)
  BY <1>2, <1>4, <1>7 DEF Allowed
<1>11. Len(todo') <= 2 * Size(call')
  <2>1. Size(call) \in Nat
    BY DEF Size
  <2> QED BY <1>1, <1>2, <2>1
<1>12. Driven(call', (Len(todo') + 1) \div 2, lines', pull')
  <2>1. (Len(todo') + 1) \div 2 = j
    BY <1>2, <1>4
  <2>2. Driven(call, j, lines, pull)
    BY <1>1 DEF j
  <2> QED BY <2>1, <2>2
<1>13. \A i \in 1..Len(todo') : Planned(call', Len(todo') - i + 1, todo'[i])
  BY <1>2
<1>14. Debt' <= Allowed(call', Len(todo'), lines'.sda, pull')
  BY <1>7, <1>9, <1>10
<1> QED BY <1>11, <1>12, <1>13, <1>14, Zenon DEF OnCourse

\* The invariant of SampleTrue.
Polled == Reported /\ Watched

LEMMA PolledInit == Init => Polled
<1>1. Init => queue = <<>> /\ baud_rate # DefaultBaud
  BY DEF Init, DefaultBaud
<1> QED BY <1>1 DEF Polled, Reported, Watched, Sound

LEMMA PolledMessage ==
    ASSUME Timely, Inv, Inv', Polled, Message
    PROVE  Polled'
<1> DEFINE op == Head(todo)
<1>1. /\ TypeOK /\ TypeOK' /\ Left /\ Opening /\ Reported
  BY DEF Inv, Polled
<1>2. /\ todo # <<>> /\ op \notin {"poll", "sample"} /\ ctl' = NewControl(op)
      /\ UNCHANGED <<baud_rate, late>>
  BY DEF Message
<1>3. /\ call \in ByteCalls \cup {"open", "termios", "close"}
      /\ call \in ByteCalls => op \in LineOps /\ Tail(todo) \in Seq(LineOps)
      /\ call = "open" => op \in OpenOps /\ Tail(todo) \in Seq(OpenOps)
  BY <1>2, First
<1>4. CASE /\ Effect(op)
           /\ status' = IF op = "status" THEN Cts ELSE status
           /\ todo' = Tail(todo)
           /\ UNCHANGED <<call, heap, fails>>
  <2>1. Reported' /\ (queue' = <<>> => queue = <<>> /\ Cts' = Cts)
    BY <1>1, <1>4, EffectReports
  <2> SUFFICES ASSUME Sound' PROVE Watched'
    BY <2>1 DEF Polled, Watched
  <2>2. Sound
    BY <1>2, <1>4 DEF Sound
  <2>3. /\ call # "termios"
        /\ call = "open" /\ Len(todo) >= 4 => todo[Len(todo) - 3] = "status"
        /\ call = "open" /\ Len(todo) <= 3 => Known
        /\ call \notin {"none", "open", "close"} => lines = ctl /\ Known
        /\ call \in ByteCalls => OnCourse
    BY <2>2 DEF Watched, Polled
  <2>4. Known => Known'
    BY <1>4, <2>1 DEF Known
  <2>5. CASE call = "open"
    <3>1. todo \in Seq(OpenOps) /\ Len(todo) \in Nat /\ Len(todo) >= 1 /\ op = todo[1]
      BY <1>1, <1>2, <2>5 DEF Left
    <3>2. Len(todo') = Len(todo) - 1
      BY <1>4, <3>1
    <3>3. Len(todo') >= 4 => todo'[Len(todo') - 3] = "status"
      <4>1. Len(todo) >= 5 => Tail(todo)[Len(todo) - 4] = todo[Len(todo) - 3]
        BY <3>1
      <4>2. Len(todo) >= 5 => (Len(todo) - 1) - 3 = Len(todo) - 4
        BY <3>1
      <4> QED BY <1>4, <2>3, <2>5, <3>1, <3>2, <4>1, <4>2
    <3>4. Len(todo') <= 3 => Known'
      <4>1. CASE Len(todo) = 4
        <5>1. op = "status"
          <6>1. Len(todo) - 3 = 1
            BY <4>1
          <6>2. todo[Len(todo) - 3] = "status"
            BY <2>3, <2>5, <4>1
          <6> QED BY <3>1, <6>1, <6>2
        <5> HIDE DEF op
        <5>2. status' = Cts
          BY <1>4, <5>1
        <5> QED BY <2>1, <5>2 DEF Known
      <4>2. CASE Len(todo) <= 3
        BY <2>3, <2>4, <2>5, <4>2
      <4> QED BY <3>1, <3>2, <4>1, <4>2
    <3>5. call' = "open"
      BY <1>4, <2>5
    <3> QED BY <3>3, <3>4, <3>5 DEF Watched, ByteCalls
  <2>6. CASE call = "close"
    <3>1. call' = "close"
      BY <1>4, <2>6
    <3> QED BY <3>1 DEF Watched, ByteCalls
  <2>7. CASE call \in ByteCalls
    <3>1. op \in {"sda0", "sda1", "scl0", "scl1"} /\ todo \in Seq(LineOps)
      BY <1>1, <1>2, <1>3, <2>7 DEF LineOps, Left
    <3>2. lines = ctl /\ Known /\ OnCourse
      BY <2>3, <2>7 DEF ByteCalls
    <3> HIDE DEF op
    <3>3. Effect(op) /\ ctl' = NewControl(op) /\ late' = late
      BY <1>2, <1>4
    <3>4. /\ Step(op, lines, pull, Debt, lines', pull', Debt')
          /\ lines' = ctl'
          /\ ~ChipsTurn => (lines.scl = 1 /\ lines'.scl = 0 => ~pull')
      BY <1>1, <3>1, <3>2, <3>3, LineStep, Zenon
    <3>5. Debt' \in 0..8
      BY <1>1, DebtsNext DEF Timely, InTime, InDebt
    <3>6. lines' \in Lines /\ pull' \in BOOLEAN
      BY <1>1, Zenon DEF TypeOK
    <3>7. op = Head(todo) /\ op # "poll" /\ todo # <<>> /\ call' = call /\ todo' = Tail(todo)
      BY <1>2, <1>4, <3>1 DEF op
    <3>8. OnCourse'
      BY <1>1, <2>7, <3>1, <3>2, <3>4, <3>5, <3>6, <3>7, OperationOnCourse, Zenon
    <3>9. Known' /\ call' \in ByteCalls
      BY <2>4, <2>7, <3>2, <3>7
    <3> QED BY <3>4, <3>8, <3>9 DEF Watched, ByteCalls
  <2> QED BY <1>3, <2>3, <2>5, <2>6, <2>7
<1>5. CASE /\ fails < MaxFail
           /\ fails' = fails + 1
           /\ Effect(op) \/ UNCHANGED adapter
  <2>1. Reported'
    <3>1. CASE Effect(op)
      BY <1>1, <3>1, EffectReports
    <3>2. CASE UNCHANGED adapter
      BY <1>1, <3>2 DEF adapter, Reported, Cts
    <3> QED BY <1>5, <3>1, <3>2
  <2>2. fails' # 0
    BY <1>1, <1>5, BoundsAssumption DEF TypeOK
  <2> QED BY <2>1, <2>2 DEF Polled, Watched, Sound
<1> QED BY <1>4, <1>5, Zenon DEF Message

LEMMA PolledRefuse ==
    ASSUME Timely, Inv, Inv', Polled, RefuseBaud
    PROVE  Polled'
<1>1. /\ todo # <<>> /\ Head(todo) = "baud_a"
      /\ IF Checked("baud_a") THEN OpenFails
         ELSE todo' = Tail(Tail(todo)) /\ UNCHANGED <<call, heap>>
      /\ UNCHANGED <<ctl, baud_rate, status, ok, adapter, late, fails>>
  BY DEF RefuseBaud
<1>2. call \in {"open", "termios"}
  BY <1>1, First DEF LineOps
<1>3. Reported'
  BY <1>1 DEF Polled, Reported, Cts, adapter
<1>4. Sound' => Sound
  BY <1>1 DEF Sound
<1>5. CASE call = "termios"
  <2>1. ~Sound'
    BY <1>4, <1>5 DEF Polled, Watched
  <2> QED BY <1>3, <2>1 DEF Polled, Watched
<1>6. CASE call = "open"
  <2>1. Checked("baud_a")
    BY <1>6 DEF Checked, Ignored, Carries
  <2>2. call' \in {"none", "close"}
    BY <1>1, <2>1 DEF OpenFails
  <2> QED BY <1>3, <2>2 DEF Polled, Watched, ByteCalls
<1> QED BY <1>2, <1>5, <1>6

LEMMA PolledReads ==
    ASSUME Timely, Inv, Inv', Polled, Poll \/ Sample
    PROVE  Polled'
<1>1. /\ TypeOK /\ TypeOK' /\ Left /\ Reported
  BY DEF Inv, Polled
<1>2. /\ todo # <<>> /\ Head(todo) \in {"poll", "sample"} /\ todo' = Tail(todo)
      /\ UNCHANGED <<call, heap, ctl, baud_rate, ok, lines, programmed, half, pull, fails>>
  BY DEF Poll, Sample, adapter
<1>3. call \in ByteCalls /\ todo \in Seq(LineOps)
  <2>1. call \in ByteCalls
    BY <1>2, First DEF OpenOps
  <2> QED BY <1>1, <2>1 DEF Left
<1>4. Sound' => Sound
  BY <1>2 DEF Sound
<1>5. Sound => lines = ctl /\ Known /\ OnCourse
  BY <1>3 DEF Polled, Watched, ByteCalls
<1>6. Debt' \in 0..8
  BY <1>1, DebtsNext DEF Timely, InTime, InDebt
<1>7. SUFFICES Reported' /\ (Known => Known') /\ (OnCourse => OnCourse')
  BY <1>2, <1>3, <1>4, <1>5 DEF Polled, Watched, ByteCalls
<1>8. CASE Poll
  <2>1. Reported' /\ (Known => Known') /\ Debt' <= Plus(Debt - 1)
    BY <1>1, <1>8, PollPays
  <2>2. Head(todo) = "poll"
    BY <1>8 DEF Poll
  <2>3. ASSUME OnCourse PROVE OnCourse'
    BY <1>1, <1>2, <1>3, <1>6, <2>1, <2>2, <2>3, PollOnCourse
  <2> QED BY <2>1, <2>3
<1>9. CASE Sample
  <2>1. Head(todo) = "sample" /\ UNCHANGED <<status, adapter, late>>
    BY <1>9 DEF Sample
  <2>2. Reported' /\ (Known => Known') /\ Debt' = Debt
    BY <1>1, <2>1 DEF Reported, Known, Cts, Debt, adapter
  <2>3. Step("sample", lines, pull, Debt, lines', pull', Debt')
    <3>1. lines' = lines /\ pull' = pull /\ lines = Moved(lines, "sample")
      <4>1. lines = [sda |-> lines.sda, scl |-> lines.scl]
        BY <1>1 DEF TypeOK, Lines
      <4> QED BY <1>2, <4>1 DEF Moved
    <3>2. Debt \in 0..8
      BY <1>1, Debts
    <3>3. Debt' <= Debt + 2
      BY <2>2, <3>2
    <3> QED BY <2>2, <3>1, <3>3, Zenon DEF Step
  <2>4. ~(lines.scl = 1 /\ lines'.scl = 0)
    BY <1>2
  <2>5. lines' \in Lines /\ pull' \in BOOLEAN
    BY <1>1, Zenon DEF TypeOK
  <2>6. ASSUME OnCourse PROVE OnCourse'
    <3>1. "sample" = Head(todo) /\ "sample" # "poll" /\ call' = call /\ todo' = Tail(todo)
      BY <1>2, <2>1
    <3> QED BY <1>1, <1>2, <1>3, <1>6, <2>3, <2>4, <2>5, <2>6, <3>1, OperationOnCourse, Zenon
  <2> QED BY <2>2, <2>6
<1> QED BY <1>8, <1>9

LEMMA PolledReturn ==
    ASSUME Timely, Inv, Inv', Polled, Return
    PROVE  Polled'
<1>1. /\ call \notin Resting /\ todo = <<>>
      /\ call' = CASE call = "open" -> "opened" [] call = "close" -> "none"
                   [] call \in {"reset", "stop", "termios"} -> "free"
                   [] call \in {"start", "repstart"} -> "started"
                   [] call = "inb" -> "received" [] OTHER -> "idle"
      /\ UNCHANGED <<todo, ctl, baud_rate, status, ok, adapter, late, fails>>
  BY DEF Return
<1>2. Reported' /\ (Known => Known') /\ Debt' = Debt /\ lines' = lines /\ ctl' = ctl
  BY <1>1 DEF Polled, Reported, Known, Cts, Debt, adapter
<1>3. Sound' => Sound
  BY <1>1 DEF Sound
<1> SUFFICES ASSUME Sound' PROVE Watched'
  BY <1>2 DEF Polled, Watched
<1>4. /\ call # "termios"
      /\ call = "open" /\ Len(todo) <= 3 => Known
      /\ call \notin {"none", "open", "close"} => lines = ctl /\ Known
      /\ call \in ByteCalls => OnCourse
  BY <1>3 DEF Polled, Watched
<1>5. Len(todo) = 0
  BY <1>1
<1>6. CASE call = "open"
  <2>1. call' = "opened" /\ Known
    BY <1>1, <1>4, <1>5, <1>6
  <2>2. lines = ctl
    BY <1>5, <1>6 DEF Inv, Opening
  <2> QED BY <1>2, <2>1, <2>2 DEF Watched, ByteCalls
<1>7. CASE call = "close"
  <2>1. call' = "none"
    BY <1>1, <1>7
  <2> QED BY <2>1 DEF Watched, ByteCalls
<1>8. CASE call \in ByteCalls
  <2>1. /\ call \in {"reset", "stop"} => call' = "free"
        /\ call \in {"start", "repstart"} => call' = "started"
        /\ call \in {"outb", "inb", "acknak"} => call' \in {"idle", "received"}
    BY <1>1 DEF ByteCalls
  <2>2. lines = ctl /\ Known /\ OnCourse
    BY <1>4, <1>8 DEF ByteCalls
  <2>3. Driven(call, 0, lines, pull) /\ Debt <= Owed(call, 0, lines.sda, pull)
    <3>1. /\ Driven(call, (Len(todo) + 1) \div 2, lines, pull)
          /\ Debt <= Allowed(call, Len(todo), lines.sda, pull)
      BY <2>2 DEF OnCourse
    <3>2. (0 + 1) \div 2 = 0 /\ 0 % 2 = 0 /\ 0 \div 2 = 0
      OBVIOUS
    <3>3. Driven(call, (0 + 1) \div 2, lines, pull) /\ Debt <= Allowed(call, 0, lines.sda, pull)
      BY <1>5, <3>1
    <3> QED BY <3>2, <3>3 DEF Allowed
  <2>4. /\ call' = "free" => lines'.scl = 1
        /\ call' = "started" => ~pull' /\ Debt' < 8
        /\ call' \in {"idle", "received"} => Debt' <= 2
    <3>0. pull' = pull
      BY <1>1 DEF adapter
    <3>1. CASE call \in {"reset", "stop"}
      BY <1>2, <2>1, <2>3, <3>1 DEF Driven
    <3>2. CASE call \in {"start", "repstart"}
      <4>1. ~pull
        BY <2>3, <3>2 DEF Driven
      <4>2. Debt \in 0..8 /\ Debt <= 7
        BY <2>3, <3>2, Debts DEF Owed, Inv
      <4>3. Debt < 8
        BY <4>2
      <4> QED BY <1>2, <2>1, <3>0, <3>2, <4>1, <4>3
    <3>3. CASE call \in {"outb", "inb", "acknak"}
      <4>1. Debt <= 2
        BY <2>3, <3>3 DEF Owed
      <4> QED BY <1>2, <2>1, <3>3, <4>1
    <3> QED BY <1>8, <3>1, <3>2, <3>3 DEF ByteCalls
  <2>5. call' \in {"free", "started", "idle", "received"}
    BY <1>8, <2>1 DEF ByteCalls
  <2> QED BY <1>2, <2>2, <2>4, <2>5 DEF Watched, ByteCalls
<1>9. call \in ByteCalls \cup {"open", "close", "termios"}
  BY <1>1 DEF Inv, TypeOK, Resting, ByteCalls
<1> QED BY <1>4, <1>6, <1>7, <1>8, <1>9

LEMMA PolledClient ==
    ASSUME Timely, Inv, Inv', Polled, Open \/ I2cCalls \/ SetTermios \/ Close \/ Exit
    PROVE  Polled'
<1>1. TypeOK /\ TypeOK' /\ Reported
  BY DEF Inv, Polled
<1>2. UNCHANGED <<adapter, late>>
  BY DEF Open, I2cCalls, Reset, Start, RepStart, Stop, MoveByte, SetTermios, Close, Exit, Quiescent
<1>3. Reported' /\ Debt' = Debt /\ Cts' = Cts
  BY <1>1, <1>2 DEF Reported, Debt, Cts, adapter
<1>4. CASE Open
  <2>1. call' = "open" /\ todo' = Configure \o OpenRest
    BY <1>4 DEF Open, Begin
  <2>2. Len(todo') >= 4 => todo'[Len(todo') - 3] = "status"
    BY <2>1, OpenAsks, Zenon
  <2>3. ~(Len(todo') <= 3)
    <3>1. Len(Configure \o OpenRest) >= 4 /\ Len(Configure \o OpenRest) \in Nat
      BY OpenAsks
    <3>2. \A n \in Nat : n >= 4 => ~(n <= 3)
      OBVIOUS
    <3> QED BY <2>1, <3>1, <3>2
  <2> QED BY <1>3, <2>1, <2>2, <2>3 DEF Polled, Watched, ByteCalls
<1>5. CASE I2cCalls
  <2>1. /\ call \in Resting \ {"none"} /\ Quiescent /\ call' \in ByteCalls
        /\ call' = "outb" => call \in {"started", "idle", "received"}
        /\ call' \in {"inb", "acknak"} => call \in {"idle", "received"}
        /\ call' = "start" => call = "free"
        /\ \E k \in Nat :
              /\ Does(call', todo', k, 0)
              /\ k = Size(call') \/ (call' = "acknak" /\ k = 2)
    <3>1. CASE Reset
      <4>1. call \in {"opened", "free"} /\ Quiescent /\ call' = "reset" /\ todo' = TempReset
        BY <3>1 DEF Reset, Begin
      <4>2. Does(call', todo', 28, 0)
        BY <4>1, ResetPlan
      <4>3. Size(call') = 28
        BY <4>1 DEF Size
      <4> QED BY <4>1, <4>2, <4>3 DEF Resting, ByteCalls
    <3>5. CASE Start
      <4>1. call = "free" /\ Quiescent /\ call' = "start" /\ todo' = I2cStart
        BY <3>5 DEF Start, Begin
      <4>2. Does(call', todo', 2, 0) /\ Size(call') = 2
        BY <4>1, BusPlans DEF Size
      <4> QED BY <4>1, <4>2 DEF Resting, ByteCalls
    <3>6. CASE RepStart
      <4>1. /\ call \in {"idle", "received"} /\ Quiescent
            /\ call' = "repstart" /\ todo' = I2cRepstart
        BY <3>6 DEF RepStart, Begin
      <4>2. Does(call', todo', 4, 0) /\ Size(call') = 4
        BY <4>1, BusPlans DEF Size
      <4> QED BY <4>1, <4>2 DEF Resting, ByteCalls
    <3>7. CASE Stop
      <4>1. call \in {"idle", "received"} /\ Quiescent /\ call' = "stop" /\ todo' = I2cStop
        BY <3>7 DEF Stop, Begin
      <4>2. Does(call', todo', 3, 0) /\ Size(call') = 3
        BY <4>1, BusPlans DEF Size
      <4> QED BY <4>1, <4>2 DEF Resting, ByteCalls
    <3>2. CASE /\ call \in {"started", "idle", "received"} /\ Quiescent
               /\ \E c \in SentBytes : Begin("outb", Outb(c))
      <4>1. PICK c \in SentBytes : call' = "outb" /\ todo' = Outb(c)
        BY <3>2 DEF Begin
      <4>2. Does(call', todo', 29, 0)
        BY <4>1, OutbPlan
      <4>3. Size(call') = 29
        BY <4>1 DEF Size
      <4> QED BY <3>2, <4>1, <4>2, <4>3 DEF Resting, ByteCalls
    <3>3. CASE call \in {"idle", "received"} /\ Quiescent /\ Begin("inb", Inb)
      <4>1. call' = "inb" /\ todo' = Inb
        BY <3>3 DEF Begin
      <4>2. Does(call', todo', 33, 0)
        BY <4>1, InbPlan
      <4>3. Size(call') = 33
        BY <4>1 DEF Size
      <4> QED BY <3>3, <4>1, <4>2, <4>3 DEF Resting, ByteCalls
    <3>4. CASE /\ call = "received" /\ Quiescent
               /\ \E ack \in BOOLEAN : Begin("acknak", Acknak(ack))
      <4>1. PICK ack \in BOOLEAN : call' = "acknak" /\ todo' = Acknak(ack)
        BY <3>4, Zenon DEF Begin
      <4>2. Does(call', todo', 3, 0) \/ Does(call', todo', 2, 0)
        <5>1. CASE ack
          BY <4>1, <5>1, AckPlan
        <5>2. CASE ~ack
          BY <4>1, <5>2, AckPlan
        <5> QED BY <5>1, <5>2
      <4>3. Size(call') = 3
        BY <4>1 DEF Size
      <4> QED BY <3>4, <4>1, <4>2, <4>3 DEF Resting, ByteCalls
    <3> QED BY <1>5, <3>1, <3>2, <3>3, <3>4, <3>5, <3>6, <3>7, Zenon DEF I2cCalls, MoveByte
  <2>2. SUFFICES ASSUME Sound' PROVE Watched'
    BY <1>3 DEF Polled, Watched
  <2>3. Sound
    BY <2>1, <2>2 DEF Sound, Quiescent
  <2>4. /\ lines = ctl /\ Known
        /\ call = "free" => lines.scl = 1
        /\ call = "started" => ~pull /\ Debt < 8
        /\ call \in {"idle", "received"} => Debt <= 2
    BY <2>1, <2>3 DEF Polled, Watched, Resting
  <2>5. lines' = ctl' /\ Known'
    BY <1>2, <1>3, <2>1, <2>4 DEF Known, Quiescent, adapter
  <2>6. /\ call' = "outb" => Debt' <= 2 \/ (~pull' /\ Debt' <= 7)
        /\ call' \in {"inb", "acknak"} => Debt' <= 2
        /\ call' = "start" => lines'.scl = 1
    <3>1. lines' = lines /\ pull' = pull /\ Debt' = Debt
      BY <1>2, <1>3 DEF adapter
    <3>2. Debt \in 0..8
      BY <1>1, Debts
    <3>3. Debt < 8 => Debt <= 7
      BY <3>2
    <3> QED BY <2>1, <2>4, <3>1, <3>3, Zenon
  <2>7. Ready'
    BY <1>1, <2>1, <2>6 DEF Ready, Timely
  <2>8. OnCourse'
    BY <2>7, BeginsNext
  <2> QED BY <2>1, <2>5, <2>8 DEF Watched, ByteCalls
<1>6. CASE SetTermios
  <2>1. baud_rate' # DefaultBaud
    BY <1>6 DEF SetTermios, Timely
  <2> QED BY <1>3, <2>1 DEF Polled, Watched, Sound
<1>7. CASE Close \/ Exit
  <2>1. call' \in {"none", "close"}
    BY <1>7 DEF Close, Exit, Begin
  <2> QED BY <1>3, <2>1 DEF Polled, Watched, ByteCalls
<1> QED BY <1>4, <1>5, <1>6, <1>7

LEMMA PolledNext == Timely /\ Inv /\ Inv' /\ Polled /\ [Next]_vars => Polled'
<1> SUFFICES ASSUME Timely, Inv, Inv', Polled, [Next]_vars PROVE Polled'
  OBVIOUS
<1>1. CASE UNCHANGED vars
  BY <1>1 DEF vars, adapter, Polled, Reported, Watched, Sound, Known, OnCourse, Debt, Cts
<1> QED
  BY <1>1, PolledMessage, PolledRefuse, PolledReads, PolledReturn, PolledClient DEF Next, Running

LEMMA Samples ==
    ASSUME Timely, Inv, Polled
    PROVE  SampleTrue
<1> SUFFICES ASSUME todo # <<>>, Head(todo) = "sample", Sound PROVE status = Cts
  BY DEF SampleTrue, Sound
<1>1. TypeOK /\ Left
  BY DEF Inv
<1>2. call \in ByteCalls /\ todo \in Seq(LineOps)
  <2>1. call \in ByteCalls
    BY First DEF OpenOps
  <2> QED BY <1>1, <2>1 DEF Left
<1>3. Known /\ OnCourse
  BY <1>2 DEF Polled, Watched, ByteCalls
<1> DEFINE n == Len(todo)
           j == (n + 1) \div 2
<1>4. /\ n <= 2 * Size(call) /\ \A i \in 1..n : Planned(call, n - i + 1, todo[i])
      /\ Debt <= Allowed(call, n, lines.sda, pull)
  BY <1>3 DEF OnCourse
<1>5. n \in Nat \ {0} /\ Planned(call, n, "sample")
  BY <1>2, <1>4, PlanShifts
<1>6. n % 2 # 0 /\ "sample" \in Plan(call, j)
  BY <1>5 DEF Planned
<1> HIDE DEF n
<1>7. j \in Nat /\ j >= 1 /\ n = 2 * j - 1
  BY <1>5, <1>6
<1>8. Debt <= Plus(Owed(call, j, lines.sda, pull) - 1)
  BY <1>4, <1>6 DEF Allowed
<1> HIDE DEF j
<1>9. Owed(call, j, lines.sda, pull) <= 1 /\ Owed(call, j, lines.sda, pull) \in Int
  <2>1. CASE call = "outb"
    <3>1. j = 2
      BY <1>6, <1>7, <2>1 DEF Plan, BitOps, ReadOps
    <3> QED BY <2>1, <3>1 DEF Owed, Plus
  <2>2. CASE call = "inb"
    <3>1. j # 33 /\ j % 4 = 2
      BY <1>6, <1>7, <2>2 DEF Plan, ReadOps
    <3> QED BY <1>7, <2>2, <3>1 DEF Owed, ReadOwed
  <2>3. CASE call \in {"reset", "start", "repstart", "stop"}
    BY <1>6, <2>3 DEF Plan, ResetOps, StartOps, StopOps
  <2>4. CASE call = "acknak"
    BY <1>6, <2>4 DEF Plan
  <2> QED BY <1>2, <2>1, <2>2, <2>3, <2>4 DEF ByteCalls
<1>10. Debt = 0
  <2>1. Debt \in 0..8
    BY <1>1, Debts
  <2> QED BY <1>8, <1>9, <2>1 DEF Plus
<1>11. queue = <<>>
  BY <1>1, <1>10, Debts
<1> QED BY <1>3, <1>11 DEF Known

\* As long as no two polls in a row miss a packet and at most four packets wait,
\* what temper_getsda() takes for SDA is its level, for any sequence of resets,
\* STARTs, bytes, STOPs and repeated STARTs, any answers of the chip and whatever
\* a process before left in the adapter: what a reset or a STOP leaves in the
\* queue is read up by the polls of the address byte before its acknowledgement
\* is sampled, and those of a later byte keep up with its edges.
\* (TEMPer.c:65-76, ch341.c:324-333)
THEOREM SamplesAreTrue ==
    ASSUME Timely
    PROVE  Spec => []SampleTrue
<1>1. Init => Inv /\ Polled
  BY InvInit, PolledInit
<1>2. Inv /\ Polled /\ [Next]_vars => (Inv /\ Polled)'
  BY InvNext, PolledNext
<1>3. Inv /\ Polled => SampleTrue
  BY Samples
<1> QED BY <1>1, <1>2, <1>3, PTL DEF Spec

-----------------------------------------------------------------------------
(* The divisors.                                                           *)

LEMMA Quotient ==
    ASSUME NEW a \in Nat, NEW b \in Nat, b > 0
    PROVE  /\ a \div b \in Nat
           /\ b * (a \div b) <= a /\ a < b * ((a \div b) + 1)
OBVIOUS

LEMMA Product ==
    ASSUME NEW a \in Nat, NEW b \in Nat, NEW c \in Nat, b <= c
    PROVE  a * b <= a * c
OBVIOUS

LEMMA Eights ==
    /\ EightTo(0) = 1 /\ EightTo(1) = 8 /\ EightTo(2) = 64 /\ EightTo(3) = 512
BY DEF EightTo

\* The loop ends at the first shift that fits, or at the last.
LEMMA LoopEnds ==
    ASSUME NEW rate
    PROVE  /\ Shifts(rate) \in 0..DivMax
           /\ Shifts(rate) = DivMax \/ Fits(Factor(rate, Shifts(rate)))
           /\ \A j \in 0..(Shifts(rate) - 1) : ~Fits(Factor(rate, j))
<1> DEFINE P(k) == /\ k = DivMax \/ Fits(Factor(rate, k))
                   /\ \A j \in 0..(k - 1) : ~Fits(Factor(rate, j))
<1>1. \E k \in 0..DivMax : P(k)
  <2> DEFINE fit(k) == Fits(Factor(rate, k))
  <2> HIDE DEF fit
  <2>1. \E k \in 0..DivMax : (k = DivMax \/ fit(k)) /\ \A j \in 0..(k - 1) : ~fit(j)
    <3>1. CASE fit(0)
      BY <3>1 DEF DivMax
    <3>2. CASE ~fit(0) /\ fit(1)
      BY <3>2 DEF DivMax
    <3>3. CASE ~fit(0) /\ ~fit(1) /\ fit(2)
      BY <3>3 DEF DivMax
    <3>4. CASE ~fit(0) /\ ~fit(1) /\ ~fit(2)
      BY <3>4 DEF DivMax
    <3> QED BY <3>1, <3>2, <3>3, <3>4
  <2> QED BY <2>1 DEF fit
<1>2. Shifts(rate) = CHOOSE k \in 0..DivMax : P(k)
  BY DEF Shifts
<1> HIDE DEF P
<1>3. Shifts(rate) \in 0..DivMax /\ P(Shifts(rate))
  BY <1>1, <1>2, Zenon
<1> QED BY <1>3 DEF P

\* What the words of a rate carry.
ShiftOf(rate) == DivMax - (WordA(rate) % 256)
FactorOf(rate) == 65536 - (256 * (WordA(rate) \div 256) + WordB(rate))
LEMMA WordsCarry ==
    ASSUME NEW rate, NEW f, NEW k \in 0..3, f = Factor(rate, k), k = Shifts(rate),
           f \in Int, 1 <= f, f <= 65520
    PROVE  ShiftOf(rate) = k /\ FactorOf(rate) = f
<1> DEFINE c == 65536 - f
           h == c \div 256
           l == c % 256
<1>1. Complement(rate) = c
  BY DEF Complement
<1>2. c \in Int /\ 16 <= c /\ c <= 65535
  OBVIOUS
<1>3. h \in Int /\ 0 <= h /\ h <= 255 /\ l \in Int /\ 0 <= l /\ l <= 255 /\ c = 256 * h + l
  BY <1>2
<1>4. WordA(rate) = (h % 256) * 256 + (3 - k) /\ WordB(rate) = l
  BY <1>1 DEF WordA, WordB, DivMax
<1> HIDE DEF c, h, l
<1>5. h % 256 = h
  BY <1>3
<1>6. WordA(rate) % 256 = 3 - k /\ WordA(rate) \div 256 = h
  BY <1>3, <1>4, <1>5
<1>7. DivMax - (WordA(rate) % 256) = k
  BY <1>6 DEF DivMax
<1>8. 256 * (WordA(rate) \div 256) + WordB(rate) = c
  BY <1>3, <1>4, <1>6
<1>9. 65536 - c = f
  BY DEF c
<1> QED BY <1>7, <1>8, <1>9 DEF ShiftOf, FactorOf

\* What the loop leaves of a rate the clock can be divided to.
LEMMA Divided ==
    ASSUME NEW rate \in Nat, 0 < rate, rate <= BaudbaseFactor,
           NEW k, k = Shifts(rate), NEW e, e = EightTo(k), NEW f, f = Factor(rate, k)
    PROVE  /\ k \in 0..3 /\ e \in Nat /\ f \in Nat
           /\ rate * f * e <= BaudbaseFactor
           /\ BaudbaseFactor < rate * (f + 1) * e
           /\ k > 0 => f * 8 + 7 > 65520
           /\ f <= 65520 => 1 <= f /\ 46 <= rate
           /\ ~(f <= 65520) => rate < 46
<1> DEFINE b == BaudbaseFactor
           q == b \div rate
<1>1. b \in Nat /\ b = 1532620800
  BY DEF BaudbaseFactor
<1>2. q \in Nat /\ rate * q <= b /\ b < rate * (q + 1)
  BY <1>1, Quotient
<1>3. \A j : Factor(rate, j) = q \div EightTo(j)
  BY DEF Factor
<1>4. \A g : Fits(g) <=> g <= 65520
  BY DEF Fits, MaxFactor
<1>5. /\ k \in 0..3 /\ (k = 3 \/ f <= 65520)
      /\ \A j \in 0..(k - 1) : ~(q \div EightTo(j) <= 65520)
  BY <1>3, <1>4, LoopEnds DEF DivMax
<1>6. f = q \div e
  BY <1>3
<1> HIDE DEF b, q
<1>7. e \in {1, 8, 64, 512}
  BY <1>5, Eights
<1>8. f \in Nat /\ f * e <= q /\ q + 1 <= (f + 1) * e
  BY <1>2, <1>6, <1>7
<1>9. rate * f * e <= b
  <2>1. rate * (f * e) <= rate * q
    BY <1>2, <1>7, <1>8, Product
  <2>2. rate * f * e = rate * (f * e)
    BY <1>7, <1>8
  <2> QED BY <1>1, <1>2, <1>7, <1>8, <2>1, <2>2
<1>10. b < rate * (f + 1) * e
  <2>1. rate * (q + 1) <= rate * ((f + 1) * e)
    BY <1>2, <1>7, <1>8, Product
  <2>2. rate * (f + 1) * e = rate * ((f + 1) * e)
    BY <1>7, <1>8
  <2> QED BY <1>1, <1>2, <1>7, <1>8, <2>1, <2>2
<1>11. 1 <= q
  <2>1. CASE q = 0
    BY <1>1, <1>2, <2>1 DEF b
  <2> QED BY <1>2, <2>1
<1>12. k > 0 => f * 8 + 7 > 65520
  <2>1. CASE k = 1
    BY <1>2, <1>5, <1>6, <2>1, Eights
  <2>2. CASE k = 2
    BY <1>2, <1>5, <1>6, <2>2, Eights
  <2>3. CASE k = 3
    BY <1>2, <1>5, <1>6, <2>3, Eights
  <2> QED BY <1>5, <2>1, <2>2, <2>3
<1>13. ASSUME f <= 65520 PROVE 1 <= f /\ 46 <= rate
  <2>1. 1 <= f
    <3>1. CASE k = 0
      BY <1>2, <1>6, <1>11, <3>1, Eights
    <3>2. CASE k > 0
      BY <1>8, <1>12, <3>2
    <3> QED BY <1>5, <3>1, <3>2
  <2>2. q + 1 <= 33546752
    <3>1. e \in Nat /\ e <= 512
      BY <1>7
    <3>2. (f + 1) * e <= (f + 1) * 512
      BY <1>8, <3>1, Product
    <3> QED BY <1>2, <1>8, <1>13, <3>1, <3>2
  <2>3. CASE rate <= 45
    <3>1. rate * (q + 1) <= rate * 33546752
      BY <1>2, <2>2, Product
    <3> QED BY <1>1, <1>2, <2>3, <3>1
  <2> QED BY <2>1, <2>3
<1>14. ASSUME ~(f <= 65520) PROVE rate < 46
  <2>1. e = 512
    BY <1>5, <1>14, Eights
  <2>2. 33546752 <= q
    BY <1>2, <1>8, <1>14, <2>1
  <2>3. rate * 33546752 <= rate * q
    BY <1>2, <2>2, Product
  <2> QED BY <1>1, <1>2, <2>3
<1> QED BY <1>5, <1>7, <1>8, <1>9, <1>10, <1>12, <1>13, <1>14, SMT DEF b

\* That shift k and factor f make the nearest rate.
Nearest(rate, k, f) ==
    /\ k \in 0..DivMax /\ f \in 1..MaxFactor
    /\ rate * f * EightTo(k) <= BaudbaseFactor
    /\ rate * (f + 1) * EightTo(k) > BaudbaseFactor
    /\ k > 0 => f * 8 + 7 > MaxFactor

LEMMA NearestRate ==
    ASSUME NEW rate \in Nat, rate <= BaudbaseFactor
    PROVE  IF ~Accepts(rate) THEN rate < 46
           ELSE rate >= 46 /\ Nearest(rate, ShiftOf(rate), FactorOf(rate))
<1>1. CASE rate = 0
  BY <1>1 DEF Accepts
<1>2. CASE 0 < rate
  <2>1. PICK n, e, g : n = Shifts(rate) /\ e = EightTo(n) /\ g = Factor(rate, n)
    OBVIOUS
  <2>2. n \in 0..3 /\ e \in Nat /\ g \in Nat
    BY <1>2, <2>1, Divided DEF MaxFactor
  <2>3. rate * g * e <= BaudbaseFactor
    BY <1>2, <2>1, Divided DEF MaxFactor
  <2>4. BaudbaseFactor < rate * (g + 1) * e
    BY <1>2, <2>1, Divided DEF MaxFactor
  <2>5. n > 0 => g * 8 + 7 > MaxFactor
    BY <1>2, <2>1, Divided DEF MaxFactor
  <2>6. IF g <= MaxFactor THEN 1 <= g /\ 46 <= rate ELSE rate < 46
    BY <1>2, <2>1, Divided DEF MaxFactor
  <2>7. Accepts(rate) <=> g <= MaxFactor
    BY <1>2, <2>1 DEF Accepts, Fits
  <2>8. CASE g <= MaxFactor
    <3>1. ShiftOf(rate) = n /\ FactorOf(rate) = g
      BY <2>1, <2>2, <2>6, <2>8, WordsCarry DEF MaxFactor
    <3>2. n \in 0..DivMax /\ g \in 1..MaxFactor /\ rate >= 46
      BY <2>2, <2>6, <2>8 DEF DivMax, MaxFactor
    <3>3. Nearest(rate, n, g)
      <4>1. rate * (g + 1) * e > BaudbaseFactor
        BY <2>4
      <4>2. rate * g * EightTo(n) <= BaudbaseFactor
        BY <2>1, <2>3, Zenon
      <4>3. rate * (g + 1) * EightTo(n) > BaudbaseFactor
        BY <2>1, <4>1, Zenon
      <4> QED BY <2>5, <3>2, <4>2, <4>3, Zenon DEF Nearest
    <3> QED BY <2>7, <2>8, <3>1, <3>2, <3>3
  <2>9. CASE ~(g <= MaxFactor)
    BY <2>6, <2>7, <2>9
  <2> QED BY <2>8, <2>9
<1> QED BY <1>1, <1>2

\* A termios names no rate above the adapter's clock.
SpeedsAreReal == \A s \in Speeds : s <= BaudbaseFactor

BaudBound == baud_rate \in Nat /\ baud_rate <= BaudbaseFactor

LEMMA BaudBounded ==
    ASSUME SpeedsAreReal
    PROVE  Spec => []BaudBound
<1>1. Init => BaudBound
  BY DEF Init, BaudBound, BaudbaseFactor
<1>2. BaudBound /\ [Next]_vars => BaudBound'
  <2> SUFFICES ASSUME BaudBound, [Next]_vars PROVE BaudBound'
    OBVIOUS
  <2>1. CASE UNCHANGED baud_rate
    BY <2>1 DEF BaudBound
  <2>2. CASE Open
    BY <2>2 DEF Open, BaudBound, DefaultBaud, BaudbaseFactor
  <2>3. CASE SetTermios
    BY <2>3, SpeedsAssumption DEF SetTermios, SpeedsAreReal, BaudBound
  <2>4. Open \/ SetTermios \/ UNCHANGED baud_rate
    BY Zenon DEF Next, Running, vars, Message, RefuseBaud, Poll, Sample, Return, I2cCalls,
                 Reset, Start, RepStart, Stop, MoveByte, Close, Exit, Quiescent
  <2> QED BY <2>1, <2>2, <2>3, <2>4
<1> QED BY <1>1, <1>2, PTL DEF Spec

\* Every rate of a termios that a divisor fits, from 46 on, is sent as the words
\* of the nearest rate the adapter can make that is not lower, with the finest
\* divisor; only lower ones are refused.  (ch341.c:106-127)
THEOREM RatesAreNearest ==
    ASSUME SpeedsAreReal
    PROVE  Spec => []BaudNearest
<1>1. BaudBound => BaudNearest
  <2> SUFFICES ASSUME BaudBound PROVE BaudNearest
    OBVIOUS
  <2>1. SentShift = ShiftOf(baud_rate) /\ SentFactor = FactorOf(baud_rate)
    BY DEF SentShift, SentFactor, ShiftOf, FactorOf
  <2>2. IF ~Accepts(baud_rate) THEN baud_rate < 46
        ELSE baud_rate >= 46 /\ Nearest(baud_rate, SentShift, SentFactor)
    BY <2>1, NearestRate DEF BaudBound
  <2> QED BY <2>2, Zenon DEF BaudNearest, Nearest
<1> QED BY <1>1, BaudBounded, PTL
=============================================================================
