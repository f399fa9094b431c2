# A verification development for usense

TLA+ models of usense (a C library and command line program that reads USB
thermometers), the TLC configurations that check them, and TLAPS proofs about
them. Sources are named relative to the repository, whose C files are in `src/`.

    tlc -workers 2 -config Usense_pair.cfg MCUsense      # one of the runs
    tlapm UsenseProofs.tla                               # one of the proofs

## 1. The system

usense is single threaded. A client calls the library (`src/usense.c`), the
library calls a driver, the driver calls libusb-0.1, directly or through two
layers taken from the Linux kernel: a bit-banged I2C master
(`src/i2c-algo-bit.c`) that toggles the modem control lines of a ch341 USB
serial chip (`src/ch341.c`). Nothing is persisted, there are no threads and no
callbacks out of order: the difficulties are what failed or changed between two
libusb calls, what a long sequence of legal calls leads to, and what the
hardware may answer at any point.

| Component | State | Operations | Hard part | What makes it correct |
|---|---|---|---|---|
| Probe registry (`usense.c:74-121`) | `dev_probe[]`, `dev_probes` | register, unregister, `usense_init` | order of registering and starting; overlapping `memcpy` | each probe registered once; unregister keeps the rest, in order |
| Device list (`usense.c:133-201, 321-352, 403-450`) | linked list of `usense_device` | start, stop, detect, next | rescans, hotplug, freed `usb_device` structures | one entry per device, names unique |
| Open and close (`usense.c:354-401, 461-491`) | `usb_dev_handle`, claims on interfaces, `mode`, `priv` | open, close | failure at each of the steps; waiting for a busy interface; opening twice | a failed open gives back what it took; an opened device is complete; one user per device; every call returns |
| Property store (`usense.c:203-227, 273-319, 585-681`) | sorted array of key and value | get, set, validate, walk | set recurses into get, get into `update()`, which sets | asserts hold; keys and read-only values of an open device stay |
| Units and conversion (`usense.c:48-56, 229-271, 500-583`, `units.h`) | none | `units_is_valid`, `convert_reading` | asserts on the stored units | every accepted unit converts |
| gotemp (`gotemp.c`) | packet buffer | attach, update | partial and missing reads | a reading is a measurement |
| TEMPer (`TEMPer.c`) | ch341, I2C adapter | attach, update, bus reset | a chip in an unknown state | reset frees the bus |
| PCsensor_Temper (`PCsensor_Temper.c`) | handle | attach, update | sentinels of the encoding | decodes every temperature |
| I2C master (`i2c-algo-bit.c`) | the message array, the bus | `bit_xfer` and what it calls | NAKs, retries, clock stretching, block lengths chosen by the chip | START and STOP frame each transfer; reads end with NAK; success means everything moved |
| ch341 (`ch341.c`) | shadows of the modem lines | open, close, tiocmget, tiocmset | lost control messages, stale status | shadow and chip agree, or the error is reported |
| Program (`main.c`) | arguments | list, get, set | exit status after an error | a failed setting is reported |

The hazards, each at its line and with the properties that watch it, are listed
in `PROJECT.json`.

## 2. Modules

| Module | Contents | Relation |
|---|---|---|
| `Usense` | the library core: device list, open and close, properties of a device, drivers by their outcomes, hotplug and other processes | |
| `I2cXfer` | one I2C transfer, `bit_xfer()`, byte by byte | abstract specification of `I2cWire` |
| `Lm75` | the sensor chip on its two wires (external) | |
| `I2cWire` | the calls of a transfer as line operations | `I2cXfer` + `Lm75`; implements `I2cXfer` |
| `Sensor` | what the TEMPer driver promises | abstract specification of `Temper` |
| `Temper` | attach, update and bus reset of the TEMPer driver, killed processes, replugging, a lost message | on `I2cWire`; implements `Sensor` |
| `Ch341Baud` | divisor and words for a baud rate | |
| `Ch341` | the serial adapter, message by message | on `Ch341Baud` |
| `PropStore` | what the property calls promise: a map | abstract specification of `PropTable`, used by `Main` |
| `PropTable` | the sorted array of properties of one device | implements `PropStore` |
| `ProbeList` | what registering probes promises: a list | abstract specification of `ProbeTable` |
| `ProbeTable` | the array of probes | implements `ProbeList` |
| `PCsensor` | the PCsensor_Temper driver, command by command | |
| `Convert` | from a measurement to the number printed | |
| `Main` | one run of the program | on `PropStore` |
| `UsenseProofs`, `I2cWireProofs` (of `I2cXfer` too), `TemperProofs`, `PropTableProofs`, `ProbeTableProofs`, `ReadingProofs` (of `PCsensor` and `Convert`), `Ch341Proofs`, `MainProofs` | theorems | |
| `MC...` | instances for TLC | |

`Usense` and `Main` see the layers below them through what those are shown to
promise: `Usense` takes a driver's `update()` as the set of its outcomes, and
`Temper` and `PCsensor` show how these come about; `Main` takes the property
calls as `PropStore`, which `PropTable` implements; `Temper` uses the wires of
`I2cWire`, which implements `I2cXfer`. The ch341's own protocol is in `Ch341`;
what `I2cWire` keeps of it is the pair of lines written together from a shadow,
and that a lost message goes unnoticed.

### Usense

*State.* A `usense_device` is a number, the k-th allocated is k; the list is the
set `listed`, in decreasing order because `usense_device_new()` links at the
head. Per device: `usb` (its `handle`, and with it its name), `mode`, `priv`
(not NULL), `packet` (gotemp's buffer), `prop` (the table; `Absent` for a key
`bsearch()` does not find), `nopen` (handles left open). Outside: `plug`,
`known` (the `usb_device` structures libusb keeps), `owner` (who has claimed
each interface). `pc`, `cur`, `ifc`, `timeout`, `todo` are the program counter
and locals of a call in progress; `out` is what the last call told its client.

*Steps.* All the library does between two calls of libusb that can meet a
changed world is one action; `Plug`, `Unplug` and `OtherProcess` may happen
between any two. `usense_detect()` is `Detect`, `ProbeUsb` per device,
`DetectDone`; `usense_start()` is `Start` and the same loop. `usense_open()` is
`Open` (the walk of the list), `UsbOpen`, then per interface `Detach` and
`Claim` (with `Sleep` between two claims of the `-EBUSY` loop), then
`AttachGotemp` or `AttachTemper`, then `Validate`; a failure leads to
`UsbClose`, or out of `Validate` without one, as in the code. `GetReading`,
`SetProp`, `Close`, `Stop` are the client's other calls.

*Drivers.* An `update()` is the set of its outcomes: the table, the packet,
whether it succeeded, and the measurement the sensor really delivered. gotemp
has a third outcome beside success and failure: on `-EAGAIN` the `continue` in
`do { } while (0)` leaves the loop and the old packet is converted.
`PCsensor_Temper_update()` has the outcomes of `TEMPer_update()` and shares
`TemperUpdate`; both attach functions are `AttachTemper`.

*Undefined behaviour.* `pc = "wild"`: a freed structure or a NULL private
pointer is used; nothing is modelled after it. With no interface `err` is tested
uninitialized at `usense.c:382`: both branches are steps. `pc = "aborted"`: an
`assert` failed.

*Assumed.* `usb_detach_kernel_driver_np()` (`usense.c:366`) detaches a kernel
driver and nothing else: `Detach` takes an interface from `Kernel` only, never a
claim that this or another process holds through libusb. The code relies on it.
Where the function took such claims away, the claim of an open device would no
longer keep a second open away, and `SoleUser`, `FreshAttach` and `HandlesOwned`
would not hold.

*Abstracted.* Vendor and product numbers ("id"), the text of readings, and the
order of keys. A device keeps one name for one plugging in: the numbers of
`usb:<bus>.<device>` are taken not to be reused within a run of the program.
`usense_prop_get()` of a key other than the reading changes nothing and is no
action.

### I2cXfer

One action per call of `i2c_start`, `i2c_repstart`, `i2c_stop`, `i2c_outb`,
`i2c_inb` and `acknak`, control between them folded in (`EnterMsg`, `EndData`,
`AddressEnd`). The bus's answer is a choice: ACK, NAK, a byte of `ReadValues`,
and, when the adapter can read SCL, a timeout. The TEMPer's adapter cannot
(`TEMPer.c:236`), the code is written for both, so the run allows timeouts and
the theorems hold for both values of `CanTimeout`. `AddressByte` is the byte
`bit_doAddress()` sends in each phase, ten bit addresses and
`I2C_M_REV_DIR_ADDR` included. `Transfers` is any set of message arrays whose
lengths leave room for a block (`MaxLen`), which the header asks of callers
(`i2c.h:43-47`). The history variables `bus`, `talking`, `stuck` and `answered`
are written by the model only, to say what the bus and the chip were told.

### Lm75 and I2cWire

The two lines are open drain: `WireSda` is 1 if neither side pulls. `CallOps`
gives the line operations of the call `I2cXfer` would make next (`OutbOps` for
`i2c_outb()`, and so on); `LineOp` performs one of them, and the chip reacts to
each edge (`Raised`, `Lowered`, `Started`, `Stopped` of `Lm75`). `CallReturns`
is the end of the call: it is the step of `I2cXfer` with the answer that was
read off the wire in `rx`. `Stretch` and `Release` are the chip holding SCL;
`sclhi()` waits while it is held and gives up (`GiveUp`) at most `MaxHeld`
times. `Measure` changes the temperature at any time.

`I2cXfer` is implemented with the variables it shares, so `ImplementsXfer` is
its `FairSpec` as it stands: steps within a call stutter. The histories `bus`
and `talking` of `I2cXfer`, which its properties are about, are compared with
the chip by `HistoriesReal`.

`HistoriesReal`, `BytesExact`, `LinesAsserted` and `SdaStable` are conditioned
on `InTime`, that `sclhi()` has not given up: after that the lines are not where
the code believes them (see "Where the code departs from its words").

### Sensor and Temper

`Temper` adds to the wires what the driver is at (`drv`) and what it stored.
Attach is `Open` with the reset, `AttachReadsConfig`, `AttachWritesConfig`
unless the chip is configured, `AttachUpdates`; an update is the reset,
`UpdateReads`, `UpdateDone`. `Kill` ends the process between any two line
operations; pins and chip stay, and the next `Open` meets them. `Replug` powers
the chip up anew. With `MaxLost = 1` one control message, anywhere, is not
carried out and nobody hears of it.

`Sensor` promises that an update that was begun (`Ask`) takes one `Sample` of
the temperature at some moment, and delivers (`Deliver`) just that. The
refinement mapping (`Stage`, `Taken`, `Spoiled`) takes the sample when the chip
latches its register, that is at the acknowledge of its read address
(`Latched`). A lost message is the
abstract `Disturb`, which may spoil the update it falls into (`DeliverAny`), or
the first one after an attach, and none after it. The specification implemented
has `Sensor`'s fairness, so the progress of the driver is part of
`ImplementsSensor`; `Steps` is the rest of it, and proved.

### Ch341Baud and Ch341

`Message` is one control message of `ch341_open()`, `ch341_tiocmset()`,
`ch341_set_termios()` or `ch341_close()`: it goes through, or fails, and then
the adapter may have carried it out all the same. `Checked` says which failures
the code looks at. `Poll` is the interrupt read of `ch341_poll()`: it takes the
oldest packet of `queue`, or misses it (`MaxLate` times in a row). `Sample` is
what `temper_getsda()` reads. The client is what the driver makes of the
adapter: `Reset` (`temp_reset()`, in the attach and before each update), then
the calls of the I2C layer, `Start`, `MoveByte` (`i2c_outb()`, `i2c_inb()`,
`acknak()`), `RepStart` and `Stop`, each the line operations of its function.
All edges of SDA are there, because the question is whether enough polls come
between an edge and its reading. `call` says what may follow what: a START only
a free bus, an address byte only a START, `acknak()` only a byte received; the
messages of a transfer are otherwise any. `Exit` leaves the adapter as it is,
with packets waiting for the next process. `Ch341Baud` is the arithmetic of
`ch341_set_baudrate()`.

### PropStore and PropTable

`PropTable` runs the script of calls that makes a device (`Created`, `Attached`,
`Validated`: the keys `usense_device_new()`, each driver's attach and the
validation set and get), then any calls of a client: `ClientSet`, `ClientGet`,
`PropFirst`, `PropNext`. `Bsearch` is defined for any array: on an unsorted one
it may miss, as the library function may. `Qsort` gives every ordering a correct
sort may give. `GetUpdates` and `GetReturns` are the two halves of
`usense_prop_get("reading")`, with the pointer `ptr` held between them; `gen`
counts reallocations. `PropStore` is a map with a cursor; the mapping is
`StoreOf(arr)`.

### ProbeList and ProbeTable

`dev_probe` is the array as long as it was allocated, `dev_probes` the part in
use. `Register`, `Unregister`, `Start` (with `usense_init()`), `Detect`, `Stop`.
The overlapping `memcpy()` of `usense_probe_unregister()` copies in one of the
directions of `CopyOrders`. The mapping to `ProbeList` is the part in use.

### PCsensor

`Command` is one control message of the setup or of a measurement: heard, or
failed, heard or not. `Answer(n)` is the read of the result, of `n` bytes; what
was not received is zero. The stick (external) measures when it has heard all
ten commands in a row. `Exit` leaves the stick half way through.

### Convert

Numbers are integers in stated units; where a `double` may fall on either side
of a tie or an integer, both outcomes are taken. `Stored` is the driver's
conversion to Kelvin with `"%g"`, `Calibrated`, `Converted` and `Printed` are
`convert_reading()`, `Code` is `units_is_valid()`. The state machine is a sensor
that warms up in small steps, so that neighbouring measurements can be compared.

### Main

`Start`, then `ListDevices`, or `NthDevice` and `Open` or `OpenFails`, then
`PropsFirst`, `PropsShow`, `PropsNext`, or `NextArgument` per argument, and
`Finish`. Property calls are the actions of `PropStore`. The list of devices is
any sequence of different names.

## 3. Runs

| Run | Instance | Properties |
|---|---|---|
| `usense_pair` | two sensors, gotemp and PCsensor, one with two interfaces, 3 allocations | `TypeOK` `NoAssertFails` `HandlesOwned` `SoleUser` `FreshAttach` `WildOnlyIfGone` |
| `usense_live` | a TEMPer, a gotemp without an interface, a device that is no sensor | `OpenIsReady` `SettledTable` `CallsReturn` |
| `i2c_bytes` | transfers of 0 to 3 messages, all flags | `BusFramed` `ReadEndsWithNak` `ResultHonest` `BufferBound` `TransferEnds` |
| `wire_bits` | TEMPer's transfers and others against the chip, SCL held | `HistoriesReal` `BytesExact` `LinesAsserted` `SdaStable` `ImplementsXfer` |
| `temper_kill` | kills, replugs, one lost message, two temperatures | `ResetFrees` `AttachSucceeds` `KeepsResolution` `ImplementsSensor` |
| `ch341_fail` | three failed messages, late polls, rates at the edges | `SampleTrue` `OpenConfigured` `LinesFollow` `BaudNearest` `CallsReturn` |
| `prop_calls` | each driver's script, then any client | `KeysSorted` `HeldEntryValid` `ImplementsStore` |
| `probe_calls` | three own probes, two devices | `ImplementsList` |
| `pcsensor_fail` | failures and short answers anywhere | `ReadingMeasured` `CleanUpdateStores` |
| `convert_warms` | -55 to 125 C, every unit and prefix, three calibrations | `ShownNear` `WarmerPrintsHigher` |
| `main_run` | up to three devices, up to three arguments | `NumberIsLine` `ListsAll` `PrintsAsSetBefore` `EveryArgumentDone` |
| `usense_fresh` | one gotemp, two interfaces | `ReadingIsFresh`, violated |

What they show:

- *Core.* However calls, hotplug and other processes interleave, and whichever
  of the libusb calls of an open fails: no assert fires, no handle or claim is
  left behind by an open that failed, no hardware has two users, no driver is attached twice, freed or
  missing data is touched only after an unplug. What is opened is complete and
  stays so, also with zero interfaces. Every call returns, although another
  process may claim and release for ever.
- *Bus.* START and STOP alternate, a chip is told to stop sending before the bus
  is taken from it (outside the exceptions named at `ReadEndsWithNak`), success
  means every byte was moved, no buffer is exceeded whatever length the chip
  sends, and each transfer ends. The line operations really amount to these
  calls: bits arrive as they were sent, and SDA moves under a high SCL only
  where a START or STOP is meant.
- *TEMPer.* From any bit a process was killed at, the reset leaves a chip that
  lets SDA go, the attach that follows succeeds, a reading is one whole
  measurement of its own update, and the resolution is kept.
- *ch341.* An adapter that opens is configured. A lost message misleads until
  the next one gets through and no longer. A poll per line operation keeps the
  status fresh at each reading of SDA, over any number of resets, STARTs, bytes
  and STOPs, as long as no two polls in a row miss a packet and the adapter
  does not keep too many.
- *Tables.* The array of properties and the array of probes are a map and a
  list.
- *Numbers.* Both roundings together stay within 1.5 thousandths of a degree and
  keep the order.

*Bounds, and why they are enough.* `MaxDev` (`Usense`) bounds the allocations: a
rescan is enabled only while all it may find still fits. Two is enough for a
device listed twice, three for two devices one of which is. `MaxOpen` bounds the
handles per entry; at 2 a second handle could be seen, and `HandlesOwned` says
there is none. Two interfaces let one be claimed and the next fail. `Retries` is
3 in `I2cXfer`, what `i2c_bit_prepare_bus()` sets, and 1 in `wire_bits`, one
retry being enough to repeat a START. The bytes a chip may send (`Lengths`) are
0, 32 and 33: no legal block length, the largest one, and one more. Two messages
reach every repeated start; those of three put a message of every kind between a
write and a read. `MaxHeld` is 1: after one time sclhi() gave up the properties
conditioned on `InTime` ask no more, and `ImplementsXfer` still has all calls to
come. `MaxLost` is 1 in `temper_kill`; TLC found nothing with 2 either (1.4
million states). `MaxFail` is 3: two let the message that corrects a failed one
fail too, three make one of the next call fail as well. `MaxLate` is 1, with 2
`SampleTrue` is false (below). `MaxQueue` is 4 status packets, what the theorem
covers; TLC finds nothing with 5, 6 and 7 either, and `SampleTrue` violated with
8. How many an adapter keeps is not known from the code; one that is full drops
the oldest. `EdgeSpeeds` are B0, the last rate
that is refused, and the first that the coarsest and the next divisor fit; the
theorem covers the rest.
`MaxProbes` is 6: three built in and three own. `MaxFound` is 3 devices: a
first, a middle and a last one. `NearZero` and `Stride`: around 0 C, where "%g"
has most digits, every measurement is taken, elsewhere one in 37.

*Deadlock* is checked except for `Usense` (an aborted or wild program, or a
bound that is used up, is the end), `Convert` (the end of the scale) and `Main`
(the program exits).

*Fairness.* Weak fairness of the steps of a call in progress, nothing else:
`Library` in `Usense`, `Master` in `I2cXfer`, `Wire` in `I2cWire`, `Driver` in
`Temper`, `Running` in `Ch341`, `Next` in `Main`. The code blocks nowhere
without a timeout: USB transfers have one, the wait for a busy interface is
counted, `sclhi()` gives up. Nothing is assumed of clients, hotplug, other
processes or chips.

## 4. Where the code departs from its words

One run is expected to fail. `ReadingIsFresh` in `usense_fresh`: once a device
is open, the mode that protects properties from clients (`usense.c:646-661`)
also refuses the driver's own set of "reading", so the reading stays the one
made when the device was opened, while `usense.h:60-68` says `update()` is to
"Update the device properties".

The following properties are stated in the modules, from a text of the
repository, and are false of the code. TLC shows a counterexample when the
property is added as an INVARIANT to the configuration named.

| Property, configuration | The code | The text |
|---|---|---|
| `UniqueNames`, `Usense_fresh.cfg` | a rescan lists a device again (`usense.c:426`) | `usense.h:129` |
| `CloseReleases`, `Usense_fresh.cfg` | the body of `usense_close()` is compiled out (`usense.c:487`) | `usense.h:111` |
| `ReadmeCalibrates`, `Usense_fresh.cfg` | the key is `calibrate.mult` | `README:80` |
| `ReadingWasMade`, `Usense_fresh.cfg` | `-EAGAIN` stores a stale or all-zero packet (`gotemp.c:68`) | `usense.h:128` |
| `TimeoutReported`, `I2cXfer_bytes.cfg` | a timed out address is `-ENXIO` or `-EREMOTEIO` (`i2c-algo-bit.c:503`) | `i2c-algo-bit.c:452-453` |
| `TenBitsSent`, `I2cXfer_bytes.cfg` | the second byte has seven bits of the address (`i2c-algo-bit.c:478`) | `i2c-algo-bit.c:477` |
| `StartAsserted`, `I2cWire_bits.cfg` | after a STOP that timed out SCL may still be low at the next START (`i2c-algo-bit.c:141`) | `i2c-algo-bit.c:120` |
| `AckReal`, `I2cWire_bits.cfg` | a byte the chip never took counts as acknowledged while the chip sends a 0 (`i2c-algo-bit.c:190`) | `i2c-algo-bit.c:151-152` |

Met while modelling:

- `usense.c:164-175`: `usense_stop()` frees every device, but since the body of
  `usense_close()` is compiled out (`usense.c:485-491`) no handle is closed and
  no claim released: after it nobody has a pointer to them, and when the library
  is started again in the same process every open of such a sensor gets `-EBUSY`
  until it gives up. `HandlesOwned` is about opens and does not deny this.
- `ch341.c:330`: two polls in a row that miss their packet leave an old level to
  be read as SDA (`SampleTrue` with `MaxLate = 2`).
- `PCsensor_Temper.c:113`: `tmp` is a `uint16_t`, so `tmp == ~0` compares it
  with -1 and never holds: an answer of `0xffff`, meant to be taken for a failed
  read, is stored as -1/256 degree. The other half of the test takes a true 0
  degrees for a failure. `CleanUpdateStores` describes both as they are.
- `ch341.c:287`: the `speed_t` code of the termios is used as the rate, against
  the comment at `ch341.c:275-276`; the codes are not the rates.
- `usense.c:110`: `memcpy()` on overlapping memory; with a library that copies
  downwards probes are lost (`RegisteredLookedFor` with `CopyOrders =
  {"down"}`).
- `usense.c:95`: `usense_probe_register()` ends without a return value when it
  succeeds.
- `main.c:39-55`: a negative number opens the first device.
- `main.c:75-101, 152`: a failed setting is not `< 0`, so the loop goes on and
  the exit status is success (`FailsIfNotOpened`, proved).
- `TEMPer.c` sets a key `TEMPer.resolution`, `usense.h:137` calls it
  `TEMPer.precision`.
- `TEMPer.c:254`: the error paths of `TEMPer_attach()` leak the driver's
  structure.
- `TEMPer.c:259`: the configuration is not read back after it was written; a
  control message lost in the write can leave another resolution, unnoticed
  until the next attach (`KeepsResolution` therefore asks for `lost = 0`).

## 5. Proofs

The theorems hold for every value of the constants allowed by the named
assumptions of the modules.

**`UsenseProofs`**: `TypeCorrect`, `NoAbort`, `OpenedIsReady`, `TablesSettle`,
`HandlesAreOwned`, `OneUserEach`, `AttachesAreFresh`, `WildOnlyAfterUnplug`. The
inductive invariant has four parts, each proved preserved by each action:
`TypeOK` and `Bound` (a call in progress works on a listed device); `Tables`,
what is known of a property table at each stage; `Handles`, which interfaces the
handle of the call in progress has claimed so far. `NoAssertFails` alone is not
inductive: a failed open leaves "type" and "device" behind in a device that is
opened again later, and a client may set units at any time; `Tables` says that
whoever has units has a type that accepts them, that a number is never read
without both, and that an opened or validating device has its private data. From
`Handles` it follows that the claim loop cannot finish for a device that is open
already. `HandlesAreOwned`, `OneUserEach` and `AttachesAreFresh` assume
`HasInterfaces`, every device has an
interface: with none to claim nothing excludes a second open (the gotemp of
`usense_live`). USB requires at least one, the code does not check it.

**`I2cWireProofs`** on `I2cXfer`: `TypeCorrect`, `Framing`, `ReadsAreEnded`,
`ResultsAreHonest`, `BuffersAreBounded`. `IInv` adds to `TypeOK` and
`BusFramed`: `Tally` (messages before the one in hand are settled, those after
it not begun, moved and remaining bytes add up), `Buffers` (a length grows once,
by a legal block length, when nothing but the length byte was moved) and `Quiet`
(while an address is sent no chip is sending; once no byte is missing the chip
was told to stop, or the exception applies).

**`I2cWireProofs`** on `I2cWire`: `WireTypeCorrect`; the refinement `WireIsXfer`,
that every behaviour of the wire is one of `I2cXfer`; `WireKeepsXfer`, that what is proved
of transfers above holds on the wire; and `HistoriesAreReal`, `BytesAreExact`,
`LinesAreAsserted` and `SdaIsStable` of the chip at the other end.

- *The refinement.* A line operation leaves the variables of `I2cXfer` alone; a
  call that returns is its step if the answer read off the wire is one
  `I2cXfer` allows. For that, `BitsLeft` says how many bits `rx` can hold: it
  relates the line operations left in `todo`, which are a suffix of the call's,
  to the value of `rx`. When the call is over `i2c_outb()` has read one bit and
  `i2c_inb()` eight, however often `sclhi()` gave up.
- *The chip.* `Follows` is, besides types, the invariant `InStep`, conditioned on
  no message lost and no wait given up. It says for each place inside each call
  where the lines are and what the chip is doing: the bit `n` of the byte, how
  much of the byte it has heard (`Listens`) or told (`Prefix`), that it answers
  (`Answers`) or that it is silent; `AtOut`, `AtIn`, `AtAck`, `AtStop`, `AtRep`
  and `AtStart` are its parts, one per call. Each line operation leads from one
  place to the next (`PulseStep`, `OutStep`, `InStepIn`, `AckStep`, ...); the last
  place of a call implies the first of every call that can follow it
  (`BeginPlace`, `CallKeeps`). The chip's own moves, letting SCL go late and
  measuring, are steps between places (`HardwareAside`). That a byte arrives
  whole rests on two lemmas on numbers, `OneMoreBit` and `BitsFit`.
- *Assumptions.* `WireIsXfer` and `WireTypeCorrect` need none. The theorems on
  the chip assume that the transfers are `Orderly`: a read asks for something,
  no direction is reversed, no acknowledge left out, a read without START goes
  on from a read. All messages of this program are; for others they are false,
  for instance a read without START after a write leaves both sides listening.
  They speak of behaviours in which no control message was lost, as do the
  run's `MaxLost = 0`. The theorem on `SdaStable` is about each step from a
  state in which nothing was lost.

**`TemperProofs`**: `ResetsFree`, the conclusion of `ResetFrees`: whatever is
lost and whenever the process is killed, a reset leaves a bus on which nobody
pulls. `Sound` is inductive: the transfers' invariant and the wire's from
`I2cWireProofs`, the outputs as they were asserted, and `Flow`, what the driver is
at; of a reset, that it has done `k` of its 28 line operations. `Freeing` says for
each `k` where the lines and the chip are, the argument being the one for which
there are nine clocks: at first either a START is heard or the chip pulls; then
it is `k` clocks further (`Clocked`: one that sends is that many bits on and stops
sending when its next bit, or the answer it waits for, is high; one that listens
has heard as many ones, and 0xff is no address of its own), and the STOP at the
end is made on a line that nobody else holds.

`AttachesSucceed`, `ResolutionIsKept` and the refinement `TemperIsSensor` are of
the same module, and say what the transfers after a reset come to. Like
`ResetsFree` they need no assumption beyond those on the constants. `DInv` adds to `Sound`:

- `Undone`, that a reset which lost nothing since its attach or update began is
  where `Freeing` says;
- `Collects`, true whatever is lost: the messages are those of the driver's
  transfer, and the bytes it holds are those it read, in order;
- `Consistent`: a chip that acknowledged a byte has taken it, and one that sends
  is sending the register it points to;
- `Held`: if nothing was lost since, the wire is `InStep` with its transfer (from
  `I2cWireProofs`; the reset ends in the state a transfer begins in), and `Talk`,
  the dialogue, takes its course. `Talk` says per transfer what has been said: no
  byte was refused (`Goes`), the pointer is set when its byte was taken (`Points`),
  the configuration when both bytes were (`Writes`), and the bytes read so far are
  those of the latched register (`Halves`, `Reads`);
- `Resolved`: the configuration is full from the attach on, also while a reset
  clocks the chip. A reset can write a register only if it finds the chip in the
  midst of a write, and after an attach it does not.

None of these holds alone: that a transfer succeeds rests on the chip hearing
every byte, which rests on the reset, which has to be argued for a chip in any
state because a message may have been lost, or a process killed, before. For the
refinement, `Unread` is added, and each step of the driver is shown to be one of
`Sensor`'s or to leave the mapping alone. The acknowledge of the read address is
`Sample` if nothing was lost, and a step in which a message is lost is `Disturb`
or falls into the reset that follows. `UpdateDone` is `Deliver`: by `Reads` the
two bytes are the high and low byte of what was latched (`ValueIsLatched`).
`TemperTypeCorrect` states the types of all variables.

**`PropTableProofs`**: `TypeCorrect`, `AlwaysSorted`, `HeldIsValid`, and the
refinement `TableImplementsStore`. `IInv` is `TypeOK`, `KeysSorted`,
`HeldEntryValid` and `CursorThere`, that the key a walk stands at is in the
array: without it the next key found would not be the next of the map. The
lemmas say what `Bsearch` finds in a sorted array and what inserting does to the
map it stands for.

**`ProbeTableProofs`**: `TypeCorrect`, `NeverTwice`, `NeverLost`, and the
refinement `TableImplementsList`; they assume `CopyOrders = {"up"}`, which is
what makes the overlapping `memcpy()` a `memmove()` here. `NeverLost` is
`RegisteredLookedFor`.

**`ReadingProofs`** on `PCsensor`: `TypeCorrect`, `StoresMeasured`, `CleanStores`:
for all 65536 measurements, whatever fails. The invariant relates the number of commands
sent in this update to those the stick has heard.

**`ReadingProofs`** on `Convert`: `ShowsMeasured` and `ShowsWarming`, what the run
`convert_warms` finds with three calibrations and one measurement in 37, for
every measurement, unit, prefix and calibration that is `Gentle`. The inductive
part (`Current`) is small: what is stored and shown belongs to the last
measurement. The rest is arithmetic: `StoredNear` (the first rounding is off by at
most half a thousandth, so stores the whole thousandths or one more), `CodeIs`
(five bits of two's complement lose no power of ten), `ConvertedIs`, and
`PrintedNear` (the second rounding is off by half a thousandth, a truncation by
one). Two words apart are at least three thousandths apart when stored, which
neither can bridge (`ShownApart`). `Gentle` is a stretch of at most 3% and an
offset of at most 100 degrees: a larger stretch enlarges the driver's rounding
beyond the stated bound, and from 1000 degrees on six digits are no longer
thousandths. The program itself accepts any numbers.

**`Ch341Proofs`**: `TypeCorrect`, `OpensConfigured`, `LinesAreFollowed`,
`RatesAreNearest`. The invariant says what is left to do at each place of
`ch341_open()` (`Left`, `Opening`) and when the lines may differ from the shadow
(`Follows`). `RatesAreNearest` assumes that no rate is above the adapter's clock
(`SpeedsAreReal`); above it the factor is 0 and the adapter's rate means
nothing.

`SamplesAreTrue` is of the same module: SDA is read as it is, although
`ch341_poll()` takes one waiting packet at a time. It is an argument on debt.
`Debt` is the number of polls missing, two for each packet that waits less those
already missed, and `Plan` the polls that the rest of the operation will make
before SDA is read. The invariant `OnCourse` says that the debt is paid off by
then. Whatever a process inherits, or a reset or a STOP makes, the adapter keeps
at most four packets of it, a debt of eight. A START adds an edge and takes a
poll, and the address byte that has to follow has three polls for each bit and
at most one edge, so that before its acknowledge is sampled nothing waits
(`BusPlans`, `ResetPlan` and `BusOwes`). From there each later edge adds one
packet and has at least two polls after it before the next reading. `Watched`
adds that the newest packet, or the adapter's own status if none waits, is the
line as it is. The theorem assumes `Timely`: a poll misses
at most once in a row, the adapter keeps at most four packets, and no
`speed_t` is the number 9600 (they are codes; the constant 9600 stands for the
`default` of the `switch`). Four is what this count pays for whatever the bytes
are; with the address bytes of the run TLC finds `SampleTrue` violated with
`MaxQueue = 8` and, with `MaxLate = 2`, already with 2.

**`MainProofs`**: `TypeCorrect`, `NumbersAreLines`, `ListingsAreComplete`,
`PrintsFollowSettings`, `FailsOnlyUnopened`, for any devices, properties and
command lines, if no device has a number for its name (`MainAssumption`).
`Counting` is the loop invariant of `nth_device()` (place and n add up),
`Listing` what was printed up to each place of the two walks, `Settings` that
every property has what the last successful setting among the arguments done
left in it.

Only model-checked: liveness, which is beyond the prover: `CallsReturn`,
`TransferEnds`, `EveryArgumentDone`, and the fairness part of `ImplementsXfer`
and `ImplementsSensor`. `NoDuplicates`, `RegisteredLookedFor`, `FailsIfNotOpened`
and the type invariants of all modules but `Usense` are in no run, but proved
(of `Main` and the tables `TypeOK`, of the wire `WireTypeOK`, of the driver
`TemperTypeOK`; `Convert` has `Current` instead).

## 6. Not modelled

- `usense_monitor_fd()` returns -1; monitoring is a TODO (`usense.c:153`).
- `test_bus()` of `i2c-algo-bit.c`: `bit_test` is never set.
- `usense_start()` returning NULL, and failing allocations in general.
- The memory of the drivers: `release()` is called by `gotemp_attach()` only,
  the leak at `TEMPer.c:254` is listed above.
- The adapters' `usleep()`s and the length of timeouts: a timeout may happen
  whenever it is waited for.
- Build files, and the text of messages.

## 7. What is left to do

1. `Temper` on `Ch341` instead of on its lines, to follow a late packet up to
   the reading.
