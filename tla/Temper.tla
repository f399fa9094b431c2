------------------------------- MODULE Temper -------------------------------
(***************************************************************************)
(* The TEMPer driver of src/src/TEMPer.c on the wires of I2cWire: attach,   *)
(* update and the bus reset they begin with, as one process after another  *)
(* uses the stick.  A process can be killed between any two line           *)
(* operations; the lines and the sensor stay as they are, and the next     *)
(* process finds them so.                                                  *)
(***************************************************************************)
EXTENDS I2cWire

CONSTANT NoReading

ASSUME NoReadingAssumption == NoReading \notin Word

VARIABLES
    drv,        \* what the driver is at
    reading,    \* what the last update of this process stored
    mark        \* history: lost as it was when the attach or update began

tvars == <<wvars, drv, reading, mark>>

FullResolution == 96    \* 0x60: 12 bits

Message(rd, bytes) ==
    [addr |-> 79, rd |-> rd, ten |-> FALSE, nostart |-> FALSE, ignNak |-> FALSE,
     noRdAck |-> FALSE, recvLen |-> FALSE, rev |-> FALSE, len |-> Len(bytes), buf |-> bytes]

CfgRead  == <<Message(FALSE, <<RegConfig>>), Message(TRUE, <<0>>)>>
CfgWrite == <<Message(FALSE, <<RegConfig, FullResolution>>)>>

TempRead == <<Message(FALSE, <<RegTemp>>), Message(TRUE, <<0, 0>>)>>

Clock == <<"scl1", "scl0">>
NineClocks == Clock \o Clock \o Clock \o Clock \o Clock \o Clock \o Clock \o Clock \o Clock

\* Mutants of ResetOps: no reset; one without the second START and the STOP.
NoReset == <<>>
ResetOpsUnframed == <<"scl1", "sda1", "sda0", "scl0", "sda1">> \o NineClocks \o <<"scl1">>

\* temp_reset().
ResetOps ==
    <<"scl1", "sda1", "sda0", "scl0", "sda1">> \o NineClocks
    \o <<"scl1", "sda0", "scl0", "scl1", "sda1">>

-----------------------------------------------------------------------------
\* temp_reset() begins, for an attach or an update.
BeginReset(what) ==
    /\ drv' = what
    /\ todo' = ResetOps
    /\ mark' = lost

\* ch341_open(): the handshake raises both lines, in either order.
Open ==
    /\ drv = "closed"
    /\ Drive(High)
    /\ control' = High
    /\ reading' = NoReading
    /\ BeginReset("attach_reset")
    /\ UNCHANGED <<vars, rx, err, got, hold, temp, lost, held>>

\* ch341_close(): both lines fall.
CloseLines ==
    /\ drv' = "closed"
    /\ control' = [sda |-> 0, scl |-> 0]
    /\ Drive([sda |-> 0, scl |-> 0])
    /\ UNCHANGED <<vars, todo, rx, err, got, hold, temp, lost, held, reading, mark>>

\* The driver's call of i2c_xfer() has returned, or temp_reset() has.
Returned == pc = "idle" /\ todo = <<>>

\* TEMPer_attach() after its reset.
AttachReadsConfig ==
    /\ drv = "attach_reset" /\ Returned
    /\ drv' = "cfg_read"
    /\ Call(CfgRead)
    /\ UNCHANGED <<reading, mark>>

\* Mutant of Configured: any configuration will do.
ConfiguredAnyhow == TRUE
Configured == got = <<FullResolution>>

AttachWritesConfig ==
    /\ drv = "cfg_read" /\ Returned
    /\ ret >= 0 /\ ~Configured
    /\ drv' = "cfg_write"
    /\ Call(CfgWrite)
    /\ UNCHANGED <<reading, mark>>

\* It has the configuration and goes on to TEMPer_update().
AttachUpdates ==
    /\ Returned
    /\ ret >= 0
    /\ drv = "cfg_write" \/ (drv = "cfg_read" /\ Configured)
    /\ drv' = "reset"
    /\ todo' = ResetOps
    /\ UNCHANGED <<vars, rx, err, got, wire, temp, reading, mark>>

AttachFails ==
    /\ drv \in {"cfg_read", "cfg_write"} /\ Returned
    /\ ret < 0
    /\ CloseLines

\* TEMPer_update() of an attached device.
Update ==
    /\ drv = "ready"
    /\ BeginReset("reset")
    /\ UNCHANGED <<vars, rx, err, got, wire, temp, reading>>

UpdateReads ==
    /\ drv = "reset" /\ Returned
    /\ drv' = "temp_read"
    /\ Call(TempRead)
    /\ UNCHANGED <<reading, mark>>

\* Mutant of Value: the bytes are swapped.
ValueSwapped == 256 * got[2] + got[1]

\* The two bytes make an int16_t; it is kept as its 16 bits.
Value == 256 * got[1] + got[2]

UpdateDone ==
    /\ drv = "temp_read" /\ Returned
    /\ drv' = "ready"
    /\ reading' = IF ret >= 0 THEN Value ELSE reading
    /\ UNCHANGED <<wvars, mark>>

\* A line operation, or the return of a call inside the transfer.
OnWire == Wire /\ UNCHANGED <<drv, reading, mark>>

Driver ==
    \/ AttachReadsConfig \/ AttachWritesConfig \/ AttachUpdates \/ AttachFails
    \/ UpdateReads \/ UpdateDone
    \/ OnWire

-----------------------------------------------------------------------------
\* The process is killed, or exits: nothing is sent to the adapter, and what the
\* process knew is gone.
Kill ==
    /\ drv # "closed"
    /\ drv' = "closed"
    /\ pc' = "idle" /\ msgs' = <<>> /\ len' = <<>> /\ i' = 1 /\ phase' = "a7"
    /\ tries' = 0 /\ count' = 0 /\ moved' = <<>> /\ ret' = 0 /\ bus' = "idle"
    /\ talking' = FALSE /\ stuck' = FALSE /\ answered' = <<>>
    /\ todo' = <<>> /\ rx' = 0 /\ err' = FALSE /\ got' = <<>>
    /\ reading' = NoReading
    /\ control' = [sda |-> 0, scl |-> 0]
    /\ UNCHANGED <<pins, hold, chip, lost, held, temp, mark>>

\* The stick is plugged in anew: its lines come up in some state.
Replug ==
    /\ drv = "closed"
    /\ pins' \in Lines
    /\ chip' = PoweredUp
    /\ UNCHANGED <<vars, todo, rx, err, got, control, hold, temp, lost, held,
                   drv, reading, mark>>

Warms ==
    /\ Measure
    /\ UNCHANGED <<drv, reading, mark>>

TemperInit ==
    /\ WireInit
    /\ drv = "closed"
    /\ reading = NoReading
    /\ mark = 0

TemperNext == Open \/ Driver \/ Update \/ Kill \/ Replug \/ Warms

TemperSpec == TemperInit /\ [][TemperNext]_tvars /\ WF_tvars(Driver)

-----------------------------------------------------------------------------
(* Properties.                                                             *)

\* Every variable of the driver has its type.
TemperTypeOK ==
    /\ drv \in {"closed", "attach_reset", "cfg_read", "cfg_write", "reset", "temp_read", "ready"}
    /\ reading \in Word \cup {NoReading}
    /\ mark \in 0..MaxLost

\* TEMPer.c:83-91: whatever the process before was killed at, after temp_reset()
\* the chip waits for a START and both lines are high.
ResetFrees ==
    drv \in {"attach_reset", "reset"} /\ Returned /\ lost = mark =>
        chip.mode = "off" /\ ~chip.busy /\ WireSda = 1 /\ WireScl = 1

\* A transfer of an attach that nothing disturbed since its reset succeeds,
\* whatever was lost before.  (TEMPer.c:228-272)
AttachSucceeds ==
    drv \in {"cfg_read", "cfg_write"} /\ Returned /\ lost = mark => ret >= 0

\* TEMPer.c:258-267: unless a message was lost, an attached sensor measures with
\* 12 bits, the resets that follow do not write its configuration, and neither
\* does the reset that finds the write of a killed process half done.
KeepsResolution ==
    drv \in {"reset", "temp_read", "ready"} /\ lost = 0 => chip.cfg = FullResolution

\* The driver is a sensor as Sensor promises it: the value is latched by the
\* chip when it is addressed for reading, and a control message that is lost
\* spoils no update but the one it is lost in, or the first after an attach.
\* Whatever the chip does, each attach and update returns unless the process is
\* killed.
Latched ==
    /\ drv = "temp_read" /\ lost = mark
    /\ Len(moved) = 2 /\ (chip.mode = "send" \/ moved[2] > 0)

Stage ==
    CASE drv = "closed" -> "off"
      [] drv = "ready" -> "ready"
      [] drv \in {"reset", "temp_read"} -> IF Latched THEN "sampled" ELSE "asked"
      [] OTHER -> "attaching"
Taken   == IF Latched THEN chip.latch ELSE NoReading
Spoiled == drv \in {"reset", "temp_read", "ready"} /\ lost # mark

Abstract == INSTANCE Sensor WITH
    Values    <- Word,
    phase     <- Stage,
    sample    <- Taken,
    reading   <- reading,
    temp      <- temp,
    disturbed <- Spoiled

ImplementsSensor == Abstract!Spec
=============================================================================
