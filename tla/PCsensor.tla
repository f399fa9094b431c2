------------------------------ MODULE PCsensor ------------------------------
(***************************************************************************)
(* The PCsensor_Temper driver of src/src/PCsensor_Temper.c: attach() sends *)
(* eight commands, update() ten and asks for the answer, each in a control *)
(* message that may fail, whether or not the stick heard it.  An answer    *)
(* may be shorter than the eight bytes asked for.                          *)
(*                                                                         *)
(* The stick is external and known only from what the driver asks of it:   *)
(* the ten commands in a row measure, the answer is the last measurement.  *)
(***************************************************************************)
EXTENDS Integers, Sequences

CONSTANTS
    Words,          \* what the stick can measure, in 1/256 degree, 16 bits
    NoReading       \* no reading yet

Word == {v \in Nat : v <= 65535}                     \* uint16_t
Int16 == {v \in Int : -32768 <= v /\ v <= 32767}     \* int16_t
Size == 0..8                    \* of an answer

ASSUME WordsAssumption == Words \subseteq Word /\ Words # {}
ASSUME NoReadingAssumption == NoReading \notin Int

VARIABLES
    call,       \* "closed", "attach", "update" or, between calls, "open"
    step,       \* control messages done in the call
    reading,    \* the property "reading", in 1/256 degree
    heard,      \* commands of a measurement the stick has heard in a row
    latch,      \* its last measurement
    temp,       \* what it would measure now
    fresh,      \* history: latch was taken in this update
    clean       \* history: no message of this update has failed

stick == <<heard, latch>>
vars == <<call, step, reading, stick, temp, fresh, clean>>

-----------------------------------------------------------------------------
(* The commands, by their first bytes.                                     *)

\* The arguments of attach()'s send_command()s.
SetupCommands == <<"select2", "0x43", "0", "0", "0", "0", "0", "0">>

\* The buffers temp_read() sends.  Mutant: the loop sends one zero too few.
ReadCommandsShort == <<"select2", "0x54", "0", "0", "0", "0", "0", "0", "select1">>
ReadCommands == <<"select2", "0x54", "0", "0", "0", "0", "0", "0", "0", "select1">>

Measuring == <<"select2", "0x54", "0", "0", "0", "0", "0", "0", "0", "select1">>

\* The stick hears command c, in an update or not.
Hear(c) ==
    LET n == IF c = Measuring[heard + 1] THEN heard + 1
             ELSE IF c = Measuring[1] THEN 1 ELSE 0
    IN  IF n = Len(Measuring)
        THEN heard' = 0 /\ latch' = temp /\ fresh' = (call = "update")
        ELSE heard' = n /\ UNCHANGED <<latch, fresh>>

Unheard == UNCHANGED <<stick, fresh>>

-----------------------------------------------------------------------------
(* The answer.                                                             *)

High(w) == w \div 256
Low(w) == w % 256

\* tmp of temp_read(), of a measurement w of which n bytes came: buff was zeroed.
Received(w, n) == (IF n >= 1 THEN High(w) * 256 ELSE 0) + (IF n >= 2 THEN Low(w) ELSE 0)

\* tmp == ~0 compares a uint16_t with an int, so it never holds.
Again(tmp) == tmp = 0

\* *val.  Mutant: the sign bit is not looked at.
ValueUnsigned(tmp) == tmp
Value(tmp) == IF tmp >= 32768 THEN -((65535 - tmp) + 1) ELSE tmp

-----------------------------------------------------------------------------
(* The driver.                                                             *)

Begin(what) == call' = what /\ step' = 0 /\ clean' = TRUE

\* attach() begins; so does update() when a property is fetched.
Attach ==
    /\ call = "closed"
    /\ Begin("attach")
    /\ fresh' = FALSE
    /\ UNCHANGED <<reading, stick, temp>>

Update ==
    /\ call = "open"
    /\ Begin("update")
    /\ fresh' = FALSE
    /\ UNCHANGED <<reading, stick, temp>>

\* send_command() of attach(): its result is dropped.  After the last, update().
Setup ==
    /\ call = "attach"
    /\ Hear(SetupCommands[step + 1]) \/ Unheard
    /\ IF step + 1 < Len(SetupCommands)
       THEN call' = call /\ step' = step + 1
       ELSE call' = "update" /\ step' = 0
    /\ UNCHANGED <<reading, temp, clean>>

\* Mutant of Failed: err is not tested.
FailedIgnored == call' = call /\ step' = step + 1
\* err < 0: temp_read() and update() return it.
Failed == call' = "open" /\ step' = 0

\* A usb_control_msg() of temp_read() that sends a command.
Command ==
    /\ call = "update"
    /\ step < Len(ReadCommands)
    /\ \/ /\ Hear(ReadCommands[step + 1])
          /\ call' = call /\ step' = step + 1
          /\ UNCHANGED clean
       \/ /\ Hear(ReadCommands[step + 1]) \/ Unheard
          /\ Failed
          /\ clean' = FALSE
    /\ UNCHANGED <<reading, temp>>

\* The one that reads the answer, and what update() makes of its first n bytes.
Answer(n) ==
    /\ call = "update"
    /\ step = Len(ReadCommands)
    /\ LET tmp == Received(latch, n)
       IN  reading' = IF Again(tmp) THEN reading ELSE Value(tmp)
    /\ call' = "open" /\ step' = 0
    /\ UNCHANGED <<stick, temp, fresh, clean>>

AnswerFails ==
    /\ call = "update"
    /\ step = Len(ReadCommands)
    /\ Failed
    /\ clean' = FALSE
    /\ UNCHANGED <<reading, stick, temp, fresh>>

\* The process ends, between any two messages.
Exit ==
    /\ call # "closed"
    /\ call' = "closed" /\ step' = 0
    /\ reading' = NoReading
    /\ UNCHANGED <<stick, temp, fresh, clean>>

Warms ==
    /\ temp' \in Words
    /\ UNCHANGED <<call, step, reading, stick, fresh, clean>>

Init ==
    /\ call = "closed" /\ step = 0
    /\ reading = NoReading
    /\ heard \in 0..(Len(Measuring) - 1)
    /\ latch \in Words /\ temp \in Words
    /\ fresh = FALSE /\ clean = TRUE

Next ==
    \/ Attach \/ Update \/ Setup \/ Command
    \/ \E n \in Size : Answer(n)
    \/ AnswerFails \/ Exit \/ Warms

Spec == Init /\ [][Next]_vars

-----------------------------------------------------------------------------
(* Properties.                                                             *)

Signed(w) == IF w >= 32768 THEN w - 65536 ELSE w

\* Less than a degree apart.
Near(a, b) == a - b < 256 /\ b - a < 256

\* Every variable has its type; a command is never sent past the last.
TypeOK ==
    /\ call \in {"closed", "attach", "update", "open"}
    /\ step \in Nat
    /\ call = "attach" => step < Len(SetupCommands)
    /\ call = "update" => step <= Len(ReadCommands)
    /\ reading \in {NoReading} \cup Int16
    /\ heard \in 0..(Len(Measuring) - 1)
    /\ latch \in Words /\ temp \in Words
    /\ fresh \in BOOLEAN /\ clean \in BOOLEAN

\* Whatever messages failed and however short the answer was, a stored reading
\* was measured during the update that stored it and is less than a degree off:
\* no leftover of an earlier update, no half of a number with its sign lost.
\* (PCsensor_Temper.c:73-127)
ReadingMeasured ==
    [][reading' \notin {reading, NoReading} =>
          /\ fresh
          /\ Near(reading', Signed(latch))]_vars

\* Wherever an earlier update or process broke off, an update of which no
\* message fails and whose answer is whole stores what was measured, unless that
\* is 0.  (PCsensor_Temper.c:66-130)
CleanUpdateStores ==
    [][\A n \in Size : clean /\ n >= 2 /\ Answer(n) =>
          /\ fresh
          /\ latch # 0 => reading' = Signed(latch)]_vars
=============================================================================
