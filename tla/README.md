# Roamer: verification of the control board

Roamer is a small robot. Its Rev A motor-control board carries an STM32F103
running the bare-metal firmware under `firmware/`: board start-up, a main loop
that blinks a LED and sends a heartbeat line once per second, and a USB CDC
device driver written against the registers. `legacy/old-romi/` keeps the code of
the robot's predecessor (an AVR control board that an onboard computer commands
over I2C, a ROS node, a vendored web joystick). `hardware/` and `docs/` hold
schematics and drawings; nothing there executes.

This directory models both. First comes the part that carries the firmware's logic,
the USB driver, together with the peripheral below it and the host at the other
end of the cable; then the accesses to registers and packet memory that the driver
is built on, the lines it delivers, the start of the board and the main loop, put
together as one program; and then the old robot, from the node that sends a
command to the wheels that follow it.

## Components

| component | state it keeps | operations | covered by |
| --- | --- | --- | --- |
| Control pipe and device state (`usb_cdc.c`) | `ep0_state`, `ep0_out_*`, `ep0_tx_*`, `pending_address*`, `configuration_value`, `usb_configured`, `usb_dtr_asserted`, `line_coding` | one handler per request, the data and status stages, bus reset | `UsbCdc`, `UsbLink`, `UsbFunction` |
| CDC data endpoints (`usb_cdc.c`) | `cdc_in_busy`, endpoint status fields, data toggles | `usb_cdc_try_write`, completions, halts, configuration | `UsbCdc`, `CdcPipe`, `TxMailbox` |
| Interrupt handler (`usb_cdc.c`) | `usb_suspended`, position in its loops | RESET, CTR, PMAOVR, ERR, WKUP, SUSP | `UsbCdc` |
| Endpoint register accessors (`usb_cdc.c`) | none of their own | read-modify-write of toggle bits | `EndpointRegister` |
| Packet memory (`usb_cdc.c`) | buffer table, packet buffers | `pma_read`, `pma_write`, receive count encoding | `PacketMemory` |
| Start of the USB peripheral | GPIO, clocks | D+ pulse, `usb_cdc_init` | its wait in `MainLoop`, from the reset on in `UsbCdc` |
| Main loop (`main.c`) | two timers, LED state | heartbeat, blink | `MainLoop`, `Firmware` |
| Board and clocks (`board.c`, `system.c`) | `milliseconds`, `SystemCoreClock`, RCC/FLASH | safe pins, clock with fallback, SysTick, LED | `Board`, `Firmware`; the counter in `MainLoop` |
| Legacy I2C slave (`PololuRPiSlave.h`, `PololuTWISlave.cpp`) | four buffers, index, write length | TWI events, `updateBuffer`, `finalizeWrites` | `RPiSlave`, `SharedBuffer` |
| Legacy control loop (`main.cpp`) | command time, sampling time, motor settings | `loop`, `move`, `stop` | `TwistControl`, `Odometry`, `WheelControl` |
| Legacy PID, odometry, kinematics | integrals, last ticks and time | `calculate`, `getRPM`, `rpmForMotion`, `getVelocities` | `Odometry`, `WheelControl`, without `getVelocities` |
| Legacy ROS node and I2C driver (`node.py`, `romi32U4_driver.py`) | bus index, last readings | `twist`, reads, retries | `TwistControl`, `RomiNode` |
| Legacy joystick (`script.js`, `server.py`, `a_star.py`) | `block_set_motors`, motor request | request, answer, stop | not modelled |

How they interact:

* **Host and driver** meet in the peripheral's registers. A transaction on the
  wire sets a status field to NAK and a CTR flag; the interrupt handler reads the
  flags and sets the fields for the next transaction.
* **Handler and main loop** share `usb_configured`, `usb_dtr_asserted`,
  `usb_suspended` and `cdc_in_busy`. The handler preempts the main loop;
  `usb_cdc_try_write` masks interrupts around its test and its write.
* **Main loop and board** share the millisecond counter of SysTick and the LED's pin.
  What `clock_init` returns decides whether there is a USB at all and how fast the
  LED blinks; the clock may go on changing after `clock_init` has given it up.
* **Old robot**: the node's polling thread and its callback use one bus; the driver's
  writes reach the control board's staging buffer byte by byte, where the TWI
  interrupt preempts the loop. The loop takes a copy of the buffer at the start of a
  pass and writes back what it has changed at the end; between the two it consumes
  the freshness flag, stops a command that is too old, and, once per sample,
  measures the wheels and sets the motors.

What is hard here, and what the properties are for (`PROJECT.json` lists each
hazard at its line): a SETUP may abandon any transfer at any stage; a reset, a
suspend or a resume may fall between any two steps of the handler, with older
completions still flagged; both directions of an endpoint may be flagged at once
and are served receive first; handshakes get lost, so that driver and host are
one stage apart; a completion can be served after the packet it belongs to has
been dropped; a reply may fill its last packet exactly; and the buffer of the
main loop is released by one completion that may never come. In the start of the
board every wait may end too early or never, and the hardware waited for may come
after it. In the old robot the command and its flag are two transactions that the
loop may pass between, a write-back may hit what has just been written, every timer
and counter wraps, and a reading takes several transactions, each of which may fail.

What makes each component correct:

* control pipe: it always answers; a request leaves nothing to the next one; a
  read delivers exactly the bytes there are, in order; address, configuration and
  line coding are what the host was told they are; only what it does not handle
  is refused;
* data endpoints: nothing is offered or accepted unless configured, no buffer
  that is in use is written, the buffer is released again;
* handler: it catches up with every flag and leaves `usb_suspended` true to the bus;
* accessors: no status change and no CTR flag is lost to a read-modify-write;
* packet memory: what is sent and read is what was given and received;
* main loop: an attempt per second across the wrap of the counter, a LED that does
  not drift;
* board: no motor driver awake in any intermediate state, a clock that the flash, the
  buses and the USB can bear, books that agree with it;
* lines: each is taken by the host once and in its turn, or is given up with the link;
* old robot: no torn variable, a command followed for its timeout and no longer, no
  stop before it, true measurements across every wrap, motors that a stop stops. Two
  of these the code does not keep (see Findings).

## Modules

| module | role |
| --- | --- |
| `UsbPeripheral` | the peripheral (external hardware): status fields, CTR flags, `USB_ISTR`, `USB_DADDR`, the packets of endpoint 0, and the bus events that change them |
| `UsbCdc` | the driver: every request, every stage, both loops of the handler, the bus reset, `usb_cdc_try_write`; the host may send any request and any packet at any time |
| `UsbLink` | `UsbCdc` with a host that keeps to the rules of control transfers, whose handshakes may get lost and which gives up when it likes; implements `UsbFunction` |
| `UsbFunction` | abstract: the device as its host sees it, without packets: a request asked for, followed at one moment or refused, read, over |
| `MCUsbCdc`, `MCUsbLink` | instances for TLC: sets of requests chosen for each question |
| `MCUsbAccess` | `EndpointRegister` and `PacketMemory` in one run, side by side |
| `EndpointRegister` | one endpoint register bit by bit, the driver's sequences of accesses to it, the transactions and resets that fall between a read and its write |
| `PacketMemory` | the 512 bytes, the buffer table, copies word by word, a peripheral that receives what the table allows |
| `TxMailbox` | abstract: a place for one line, filled, delivered or given up with the link, with a count of the deliveries |
| `CdcPipe` | the bulk IN endpoint with its data toggles, the lost handshakes and the requests that reset them; implements `TxMailbox` |
| `MainLoop` | `main`, the wrapping millisecond counter, the wait of the D+ pulse, with true time beside them |
| `Board` | `board_init` write by write, the clock tree and the pins (external hardware), `SystemCoreClockUpdate` |
| `Firmware` | `main` from the reset on: `Board` and `MainLoop` as one program, with the clock's hardware going on behind it; implements `MainLoop` |
| `SharedBuffer` | abstract: what the I2C slave promises, each operation of master and program atomic |
| `RPiSlave`, `MCRPiSlave` | the slave's four buffers byte by byte, the TWI interrupt's events, the program's copies; implements `SharedBuffer` |
| `TwistControl`, `MCTwistControl` | `twist()` of the driver with its retry, the buffer reduced to the bytes of a command and its flag, the loop's timeout, sampling and write-back |
| `RomiNode`, `MCRomiNode` | both threads of the node on a `SharedBuffer`, transaction by transaction, with errors at any of them |
| `Odometry` | the measurement of a wheel: a wrapping clock, a wrapping encoder, two readings of the time per pass |
| `WheelControl`, `MCWheelControl` | kinematics, controllers and freely turning wheels, sample by sample |
| `UsbCdc_proofs` | type correctness, endpoint 0, data endpoints, exclusive writes, the busy buffer; requests leave nothing, reads in bounds, connected tracks the bus; and, in a second part about `UsbLink`, what the host can rely on |
| `UsbAccess_proofs` | the endpoint registers: identity, flags, status, hearing; packets stay intact |
| `CdcPipe_proofs`, `Firmware_proofs` | lines and their refinement; the timers of the main loop, the start of the board, the refinement of the loop |
| `RPiSlave_proofs`, `RomiNode_proofs` | the slave's refinement; the node's readings |
| `TwistControl_proofs`, `Odometry_proofs` | the timeout and the following of commands; the measurement |

### How state and actions correspond to the code

The driver's `static` variables keep their names. `ep0_tx_data`, a pointer, is the
buffer it points into and an offset. A packet is what it is filled from (buffer,
offset, length), not its bytes. A reply of `GET_STATUS`, `GET_CONFIGURATION` or
`GET_LINE_CODING` carries its value; descriptors carry their length only.

`isr` says where the handler is: `"off"` before `usb_cdc_init` has enabled the
interrupt, `"idle"` while the main loop runs, `"irq"` at the head of the loop over
`USB_ISTR` (`usb_cdc.c:897`), `"ctr"` at the head of the loop over completed transfers
(`usb_cdc.c:847`). One step handles one flag or one transfer with everything the code
calls on the way. Bus events interleave between these steps, not within one:

* setting a status field is one assignment here. In the code it is a read and a
  write of the register between which the hardware may change it. `EndpointRegister`
  justifies the assignment (`StatusIsAssigned`) for a host that does not use a data
  endpoint while it configures or halts it. With a host that does, a transaction
  that ends within the few instructions of the access turns the toggled bits into
  another status: a packet being withdrawn becomes VALID again, a halt DISABLED. Even
  then no flag is lost and no endpoint is left deaf (`FlagsSurvive`, `NeverDeaf`).
* a transfer is served in one step. A CTR_RX flag is cleared before the packet is
  read, so a second SETUP might overwrite the first while it is copied. Its token, data
  and handshake take more than 10 us, the eight bytes less than two.

Each round of `handle_correct_transfer` reads the flags afresh, takes the lowest
endpoint that has one and serves its reception, or its transmission when there is no
reception (`ServedEndpoint`, `ClearRx`, `ClearTx`). When endpoint 0 has both, the
completion meets the state that the SETUP or OUT packet left: this is how a late
completion meets the next request.

The smaller modules keep the names of the code, too:

* `EndpointRegister` writes a register value as the set of its one bits, so that the
  masks of the code are unions and intersections. `todo` is the sequence of accesses
  an operation has still to make on the endpoint, `value` what the current one has read.
  A SETUP's begins with the two that `handle_ep0_setup` makes whatever the request
  (`SetupAccesses`, `usb_cdc.c:769` and `:771`), so its reply meets a receiver that is
  VALID already and may take an OUT in between. A reset that comes while the handler is
  in its inner loop waits until no transfer is flagged (`AmongTransfers`);
* `PacketMemory` knows a byte by its packet and index; a buffer's address and the
  encoding of the receive count are those of the code, not reduced;
* `MainLoop` splits a pass into the reading of the counter, the LED and the heartbeat
  (`pc`), with `wfi` at the end; the variables ending in `_age` and `phase` are no
  state of the program but the true time the properties compare it with;
* `Board` takes one step for each write to a register and each poll of
  `wait_for_bits`; frequencies are in MHz, and the oscillator, the PLL and the
  switch of the clock take their own steps;
* `Firmware` keeps `pc` for the main loop and calls the board's `board_pc`. The last
  step of `board_init` is `MainLoop`'s `board_init` too, with the result of
  `clock_init`. The LED's pin is low when it is on (`board_led_set`);
* `CdcPipe` numbers the lines; `packet` is the one in the endpoint's buffer. A
  request is one step. `halted` is a history variable, set by a halt and cleared
  with the link. The mailbox's slot is full while the buffer is busy with a line the
  host has not got (`Pending`): a line that arrived whose handshake was lost is
  delivered there and still busy here. `deliveries` counts what the host takes for new,
  so a line taken twice is two deliveries, the second of which the mailbox has no step
  for. Suspend is left to `UsbCdc`. SET_INTERFACE is left out, see below.

The modules of the old robot:

* `RPiSlave`: a TWI event is one step, because the interrupt is not interrupted; a
  copy of the program is one step per byte. `SlaveIsSharedBuffer` counts a write of
  the program as done from its first byte on and a copy as taken at its first byte,
  as interrupts are off until the last. The bus errors of `handleEvent`, the set-up
  of registers and the delays are left out.
* `TwistControl` keeps of the buffer the flag and the twist, a function of its bytes, and
  writes back byte by byte what the loop has changed, as `PololuRPiSlave.h:92-95` does: a byte that was zero
  before the stop is not written, so after it the twist may be a mix of the new command's
  bytes and zeros. `goal` is the twist whose wheel speeds the controllers were last given
  in `move()`; what they make of it is `WheelControl`'s. A transaction of the bus is one
  step; a failure means that the slave did not acknowledge its address, and with two in a
  row the driver goes on as if it had succeeded. `pass_age`, `flag_age` and `command_age`
  are true time, `sent` and `fate` the command that arrived last and what has become of
  it, all for the properties only.
* `RomiNode` shares the bus between the threads a transaction at a time, as the kernel
  does. `expected` and `moved` are history variables.
* `Odometry` keeps the two differences whose quotient the speed is. `MaxStart` bounds
  the time from the loop's reading of the clock (`main.cpp:162`) to `move()`'s (`:126`): a few
  instructions, and the interrupts among them. The battery chime and the debug output come
  after the second and count into `MaxPass`. The encoder's count is a 16-bit int;
  that its subtraction wraps, which C++ leaves undefined, is assumed.
* `WheelControl` has speeds in rpm and gains in hundredths, as integers, with the
  truncations where the code converts to `int`. Its wheels turn freely and follow the
  measurement that `test_motor_control.cpp:32-34` quotes. The velocities that `move()` sends
  back to the node are left out.
* `loop` also drives LEDs, reads buttons and the battery and plays a chime; these share
  no state with the command and are left out.

### Assumptions about hardware and host

* The host leaves the device at least 10 ms after a reset or a resume (USB 2.0,
  7.1.7), so the handler has served RESET or WKUP before the next transaction
  (`Reachable`). Suspend follows 3 ms without traffic, so everything earlier has been
  served; resume signalling lasts 20 ms, so SUSP has been served before WKUP. A resume
  raises WKUP although the driver never sets FSUSP.
* A bus reset clears the endpoint registers except the CTR flags, and `USB_DADDR`.
* While a SETUP or an OUT on endpoint 0 is flagged, the peripheral NAKs the next one.
* `UsbLink` only: a SETUP comes at least 10 us after the handshake of the transaction
  before it, and the handler has served that one by then. `UsbCdc` makes no such
  assumption: there, a completion may be arbitrarily late.
* `UsbLink` only: the host follows the USB rules (a short packet ends a data stage, it
  calls the device by the address it has set, it drops a packet it has already
  received). It may abandon a transfer at any point. It then does not know whether the
  request has been followed: `h_config` holds the configurations that are possible, and
  a SET_CONFIGURATION adds its own (`ConfigurationsNow`) until its status stage decides.
* `MainLoop` only: from one reading of the counter to the next, the wait of `wfi` not
  counted, at most `MaxPass` milliseconds pass, less than the interval of the LED; no
  tick of SysTick is lost, that is, no handler runs for a whole millisecond. True time
  is counted in ticks: these are milliseconds but in the window in which a clock switch
  has come too late for the books.
* `Board`, `Firmware`: reset has put every register to its reset value, and an oscillator or
  PLL that has become ready stays so until it is turned off.
* `CdcPipe`: a host that retries, and resets its toggles with SET_CONFIGURATION, a
  bus reset and the clearing of a halt.
* `RPiSlave`: the theorems and the run take writes that fit its buffer (`WritesFit`),
  variables that only one side writes, and writes that cover a variable or leave it
  alone, as those of the driver do.
* `TwistControl`: a pass of the loop takes at most `MaxPass` ms; a transaction of the
  driver arrives whole or not at all.
* `WheelControl`: a wheel without load turns at two thirds of what its setting
  exceeds the friction by, and is there by the next sample.

## Runs

| run | module, configuration | checks |
| --- | --- | --- |
| `control` | `MCUsbCdc`, `_control` | `TypeOK`, `Ep0Answers`, `RequestsLeaveNothing`, `ConnectedTracksBus`, `ReadsInBounds`, `DataEndpointsFollowConfiguration`, `WritesAreExclusive` |
| `link` | `MCUsbLink`, `_link` | `ConfigurationKnown`, `ReadsAreComplete`, `ReadsAreContiguous`, `AddressAfterStatus`, `OnlyUnhandledStall`, `LinkIsFunction`, `TransfersEnd`, `HeartbeatKeepsFlowing` |
| `clear_halt` | `MCUsbCdc`, `_clear_halt` | `HeartbeatKeepsFlowing`, violated |
| `accesses` | `MCUsbAccess` | `IdentityRestored`, `NeverDeaf`, `FlagsSurvive`, `StatusIsAssigned`, `OfferedIntact`, `ReceivedIntact` |
| `lines` | `CdcPipe` | `DriverIsMailbox`, `MailboxIsEmptied` |
| `firmware` | `Firmware` | `HeartbeatRecent`, `LedFollowsTime`, `HeartbeatOnTime`, `PinsAreSafe`, `ClockIsLegal`, `UsbHasItsClock`, `ClockIsKnown` |
| `slave` | `MCRPiSlave` | `FieldsAreWhole`, `SlaveIsSharedBuffer` |
| `twist_command` | `MCTwistControl` | `StopsInTime`, `FreshTwistIsFollowed`, `TimeoutIsWhole`, `TwistIsNewOrZero` |
| `twist_lost` | `MCTwistControl`, `_lost` | `CommandIsFollowed`, violated |
| `node` | `MCRomiNode` | `ReadingsAreTheirs` |
| `odometry` | `Odometry` | `MeasuredIsTrue`, `ElapsedIsPositive` |
| `wheels` | `MCWheelControl` | `NextMoveStops`, violated |

`control` (3.3 million states) lets any host, well behaved or not, enumerate,
configure, open and halt the device, read from it, and send refused variants of the
same requests, with every bus event between any two steps of the handler. `link`
closes the loop with a host that obeys the protocol and asks what the *host* can rely
on, whether all of it amounts to `UsbFunction`, and whether the heartbeat survives
everything it does short of a halt. `accesses` chooses at the start between
registers and memory. In the registers the host does as it likes or, by another choice (`quiet_host`),
leaves a data endpoint alone while it configures or halts it: `StatusIsAssigned` is
about the quiet one, the others hold of every host. In the memory there are packets of even,
odd and excessive length through all buffers. `lines` loses handshakes, halts,
unconfigures and resets, in any order. `firmware` begins at the first instruction: the
oscillator, the PLL and the switch come early, late, after the last poll, or never,
some of them only while the main loop already runs, and the loop then goes through
the wraps of its counter for ever. What the three failure paths of `clock_init` leave
behind differs, and is legal in each case.

`slave` puts TWI events between any two bytes that the program copies with
interrupts on. `twist_command` (4.2 million states) covers every phase between the
driver, the passes of the loop, its two timers and the wrap of `millis()`, with bus
errors in a row that the retry overcomes and that it does not. `twist_lost` has no errors
and asks for what the driver's comment promises of every command. `node`
has both threads, errors at any transaction of a reading, and a control board whose program
goes on assigning what is read. `odometry` wraps clock and encoder. `wheels` turns on
the spot and stops, with the gains of the code.

A definition whose comment says that it is a mutant, or that describes what a wrong
version would do (`ep0_wait_out_deaf`, `TimedOutLate`), is the code with a plausible bug
in it. No action uses it: put in the place of the definition that follows it or that
`PROJECT.json` names, it breaks the property listed there, which shows that the property
and the bounds of its run can tell the two apart.

### Bounds

In the USB modules there is no counter to cap: every variable of the driver is bounded by itself, and the
only infinite set, the requests, is the constant `Setups`. Each run takes requests
for the branches of the code it is about, with the boundary values of their
conditions (address 127 and 128, configuration 0, 1 and 2, lengths at and above what
is available, a buffer of exactly one packet). `control` has the packet size of the
code; `link` has half of it, so that a read of 64 bytes of the configuration descriptor
takes two packets, and the product string, cut to a packet, fills exactly one.
Two line codings suffice to tell an old
value from a new one; OUT packets have 0 or 7 bytes (a status stage, a data stage; a
reset leaves 0). State spaces are finite and explored completely. The theorems hold
for every set of requests, any positive packet size and strings of any length.

`EndpointRegister` is not reduced: it has the four endpoints of the code. `PacketMemory` takes lengths with and without an odd byte, a whole packet,
and more than that (7, 64, 65 sent; 8, 65 received). `CdcPipe` writes `MaxLines` = 5 lines,
two more than it takes for a toggle to come round; the theorems have any number.
`MainLoop`, in `Firmware`, shrinks the counter to 16 values, the
intervals to 3, 4 and 6 and the pass to 2, so that every phase of a wrap against
every timer occurs. `HSE_STARTUP_TIMEOUT` is 8 polls
instead of a million: any number of polls leaves the same room before, between and
after them. The theorems hold for all these values.

`RPiSlave` has four bytes, a variable of two for each side, and values that share a
byte, so that a write changes a part of the bytes; the refinement is proved for any
layout. `TwistControl` has a timeout of 7, a sampling interval of 2, passes of up to
1 and a counter of 12, in place of the code's 1000, 20 and 2^32: as small as
`TimesAssumption` allows with a window left in which a command must be followed (`Fresh`);
two bytes, one for each float, and two commands that have one byte in common and differ
in the other, zero in one of them; two failures in a row, as many as defeat a retry, and none
in `twist_lost`; ages are counted up to `OldAge`, beyond which no property looks. The theorems hold for
all these values. `RomiNode` has a battery of one byte and a pose and a twist of two, so that
every position of an interleaving within a reading occurs. `Odometry` has a clock of
10 and an encoder of 23 values, so small that both wrap within three measurements.
`WheelControl` turns at 110 rpm, below the 120 that the motors' maximum gives in this model;
`Creep` = 10 rpm is what `NextMoveStops` lets pass for standing.

### Fairness

* `WF(USB_LP_CAN1_RX0_IRQHandler)`: an enabled interrupt is taken and a handler runs.
* `HandlerKeepsUp`, `[]<>(isr \in {"off", "idle"})`: the handler catches up with the
  bus again and again. A full-speed transaction takes many times the instructions
  of its handling at 48 MHz; without the assumption, a bus that always has the next
  transaction ready would starve the main loop in the model only.
* `SF(usb_cdc_try_write)`: the main loop polls once per second whether a write is
  possible; between two polls the port may close and open.
* `SF` of the host's polling of the IN endpoint: a host with an open port reads it.
* `Firmware`: `WF` of the program's start and of the clock switch, that a request which
  stays is followed; no fairness for the oscillator or the PLL, which may never start.
* `UsbLink`: the above and `WF` of `HostContinue`, the host's going on with the
  transfer it has begun. Nothing is assumed about giving up: `TransfersEnd` says so in
  its premise.
* `CdcPipe`: `WF` of the completion's handling, and `SF` that of the handshakes of a host
  with an open port not all are lost.
* `WheelControl`: `WF(move)`, the loop runs for ever. `NextMoveStops` does not rest on it.
* `RomiNode`, `RPiSlave`, `TwistControl`, `Odometry`: safety only, no fairness.

## Findings

`clear_halt`: `HeartbeatKeepsFlowing` restates `firmware/README.md:65`, "While the
serial port is open, the firmware sends one line per second". A host that sends
`CLEAR_FEATURE(ENDPOINT_HALT)` to `0x83` while a packet is on offer makes
`endpoint_set_halt` (`usb_cdc.c:549`) set the endpoint to NAK. The packet is
withdrawn, so no completion will come, and `cdc_in_busy` stays set: every later
`usb_cdc_try_write` returns false until the next SET_CONFIGURATION or bus reset.
`BusyHasPacket` is the invariant that breaks; it is proved for hosts that send no
halt request to `0x83`.

`twist_lost`: `CommandIsFollowed` restates `romi32U4_driver.py:80`, "Sets a new Twist
command for the robot to follow". The command before has timed out; a pass of the loop
begins between the two writes of `twist()`, has the new twist and no flag, and `stop()`
zeroes the pass's copy. `finalizeWrites` (`main.cpp:199`) finds the bytes changed and
writes the zeros over the new twist, whether its flag has come meanwhile or comes later.
The next pass consumes the flag and keeps the controllers at zero for the whole timeout.
`FreshTwistIsFollowed` says, and is proved to say for any instance, that a command is lost
in this way only.

`wheels`: `NextMoveStops` restates `main.cpp:142`, "next move() command call will stop motors".
`PID.cpp:14` speaks of a "limit to maximum to avoid accumulation of errors via saturation";
there is none, and nothing resets the integral (`PID.cpp:17`). In steady drive the
integral alone holds the motor's setting, and the proportional part of one sample's error
does not outweigh it. TLC's shortest behaviour has a wheel at 50 rpm driven on at 12. That
is not the integers' doing: with the same formulas in floating point a wheel at a steady 110 rpm is
driven on at 33 rpm by the sample after the stop, and stands after about a second.

## Observations

What follows from reading the code beside the models, and is not stated by a run:

* `PololuRPiSlave.h:107` compares the length with `>` before it stores a byte: the
  seventeenth byte of a write lands behind the sixteen of `i2c_write_buffer`, although line 28
  says that writes are limited to 16 bytes. The driver sends at most eight.
* `romi32U4_driver.py:57`: `write_pack` swallows a second failure. `twist()` then writes the
  flag for a twist that never arrived, and what is in the shared data, an older twist or the
  zeros of a stop, counts as fresh, against "Mark current Twist as a fresh value"
  (`romi32U4_driver.py:73`). `twist_command` has this case; no property forbids it.
* `PololuRPiSlave.h:92`: a stop that is written back while the master writes the twist
  zeroes some of its bytes and leaves those that were zero in the stopped command: the
  robot may keep, for example, the new rotation without the new speed. `TwistIsNewOrZero` allows no other mix.
* `romi32U4_driver.py:45`: a command between the index write and the bytes of a reading
  moves the slave's index. `ReadingsAreTheirs` excludes such readings (`moved`).
* `Kinematics.cpp:24` adds the speeds of the wheels where line 23 speaks of their average.
* `usb_cdc.c:661`: SET_INTERFACE resets no data toggle. A host that resets its own takes
  the next line for a repetition if the driver's is 1.

## Proofs

The theorems of the first part of `UsbCdc_proofs` are about `Spec` of `UsbCdc`, for every value of the constants that
satisfies the named assumptions (`MaxPacketAssumption`, `SetupsAssumption`,
`LineCodingsAssumption`, `OutCountsAssumption`, `StringsAssumption`).

| theorem | says | argument |
| --- | --- | --- |
| `TypeCorrect` | `[]TypeOK` | inductive as it stands; one lemma per group of actions. A request's effect on endpoint 0 is summed up once in `SetupResponse` |
| `EndpointZeroAnswers` | `[]Ep0Answers` | `Armed`: the status fields of endpoint 0 agree with `ep0_state` unless a flag of that endpoint is pending, strengthened by the cases of a pending reset |
| `DataEndpointsFollow` | `[]DataEndpointsFollowConfiguration` | `DataInv`, six parts: no flags before start, `usb_configured` agrees with the value, an offered packet has a busy buffer, an armed OUT endpoint is configured, a configured OUT endpoint is open, and a completion seen by the main loop has a busy buffer |
| `CompletionExpected` | `[]CompletionIsExpected` | part of `DataInv`: the handler does not return with a flag pending, and only a packet on offer (hence busy) sets one while it is idle |
| `ExclusiveWrites` | `WritesAreExclusive` | from `DataInv`: not busy excludes both an offer and a flag |
| `BusyFulfilled` | `[]BusyHasPacket`, assuming no request of `Setups` names the halt of `0x83` | inductive together with `DataInv` |
| `NothingLeft` | `[]RequestsLeaveNothing` | inductive with the types; every request but one's own clears what it must |
| `ReadsBounded` | `[]ReadsInBounds` | `FirstPacketFits` and `NextPacketFits`, arithmetic of the two packetizing operators, for every length and packet size |
| `ConnectedIsTrue` | `[]ConnectedTracksBus` | `BusInv`: where a suspend can be at each point of the handler, in particular that SUSP is never left behind a later wake-up |

Those of the second part are about `LinkSpec`, the driver with a host at the other end,
under the same assumptions: for every set of requests, malformed ones included, every
positive packet size and every length of the strings.

| theorem | says | argument |
| --- | --- | --- |
| `HostAgrees` | `[](DriverInv /\ LinkInv)` | see below |
| `ConfigurationIsKnown` | `[]ConfigurationKnown` | `ConfigurationFound`: every case of `LinkInv` says whether the request has been followed |
| `ReadsComplete` | `[]ReadsAreComplete` | `Sending`, `Sent`: what has been sent and what remains add up to `Total`, and the packet of no bytes comes exactly if the host still waits (`MoreExpected`) |
| `ReadsContiguous` | `ReadsAreContiguous` | `OfferFound`: a packet that the host has not seen is `Offered` |
| `AddressFollowsStatus` | `AddressAfterStatus` | `AddressKnown`: between the end of the status stage for the host and its end for the driver, the address is the one the host has taken |
| `LineCodingSet` | `LineCodingIsSet`, a consequence of `LinkIsFunction` stated by itself | `Finishing` |
| `StallIsRefusal` | `OnlyUnhandledStall` | `StalledFinds`: of all stages only a refused request has a STALL in its direction |
| `FunctionImplemented` | `LinkIsFunction` | each step maps to one of `UsbFunction` or a stutter; see below |

`LinkInv` says, for a request that the driver has read, which of four things it is:
`Refused`; `Reading`, whose packet is either `Offered` and the next one the host expects,
or `Taken`, so that the host has it and the driver may not know that yet; `Receiving`, a
line coding awaited or received; or `Finishing`, followed and with its status stage armed.
A SETUP not yet read is the host's request (`SetupIsRequest`). None of the properties is
inductive alone: that a read is complete at its end, for example, rests on every packet
before having been the next one, through every lost handshake, and that on the driver's
own invariants (`DriverInv`: `TypeOK`, `Ep0Answers`, `RequestsLeaveNothing`). These are
carried over to `LinkSpec` by `DriverStep`, because every step of the host is one that
`UsbCdc` leaves to any host, but for the length of an OUT packet (`AnyOut`). The steps
that do not concern endpoint 0 are dealt with once (`Frame`). The one piece of arithmetic
is `Remainder`, that taking a packet off leaves the remainder.

`FunctionImplemented` is what these add up to. `UsbFunction` has one step for the effect of
a request (`Follow`, or `SetLineCoding` when its data have arrived), one for its refusal and
one for its end as the host sees it. In the mapping a request counts as followed
from the moment `handle_ep0_setup` has read it and neither refused it nor begun to wait
for its data (`Followed`), and a line coding as arrived while the interrupt with it is pending
(`Arrived`). So the steps of `handle_ep0_in` and everything about data endpoints stutter; a
packet of the data stage is a `Deliver`, whether or not its handshake arrives; the second
copy of it stutters; and a status stage is a `Finish`, for which every byte must have been
read and the request followed. The lemmas named `...Maps` show this action by action from
`DriverInv`, `LinkInv` and `MapInv`, which adds whose configuration the endpoints have, that a
packet which has been served is gone, and what holds before `usb_cdc_init`. The one
step that looks wrong is right: after a reset of the bus `handle_ep0_out` may
still set a line coding that had arrived, because the handler is already in the loop over
transfers, and `UsbFunction` allows it. What remains of a SETUP after a reset is eight
bytes, never the seven of a line coding (`HostResetMaps`).

Those of `UsbAccess_proofs` about `EndpointRegister`, for any choice among the four endpoints:

| theorem | says | argument |
| --- | --- | --- |
| `RegisterInvariant` | `[]IInv` | see below |
| `IdentityKept` | `[]IdentityRestored` | `IdentityInv`: type and address are right in the register and in the value to be written, but for a reset and what its handling has still to set |
| `Hears` | `[]NeverDeaf` | `HearInv`: the low bit of STAT_RX is set or to be toggled to one, unless a packet has come in between and is flagged |
| `FlagsKept` | `FlagsSurvive` | `FlagInv`: a one is written to every flag but the one to clear, whatever has been read |
| `StatusAssigned` | `StatusIsAssigned` | `AssignInv`: a packet is withdrawn only when none is on offer, so that nothing can complete in between |

An accessor writes what it has computed from a register that has changed since. None of the
properties, which look at the register when an operation is over, is inductive, because what
makes them true is in flight: `IInv` speaks of the value read (`Written`) and of the accesses
that are left (`TodoInv`). A reset in the middle of an access is the hard case: the access
then puts a stale type or status into the cleared register, and only the rest of `todo`, or
the handling of the reset that must come, makes it good. The instance of the run is the whole
component, so the proof adds no case to it; it adds the reason.

The others of that module are about `PacketMemory`, for all lengths that the driver sends and
the host sends:

| theorem | says | argument |
| --- | --- | --- |
| `OfferIntact` | `[]OfferedIntact` | `MemoryInv`: a receive count field always stands for 64 bytes and a copy in words for no more, so that nothing written into one of the four buffers reaches another |
| `ReceptionIntact` | `[]ReceivedIntact` | the same, with `Fits` for packets longer than the buffer |

The theorems about the main loop are in `Firmware_proofs`. These are about `Spec` of `MainLoop`, under
`IntervalsAssumption` and `PassAssumption`, which the code's values (2^32, 500, 100,
1000, 10) satisfy for every pass shorter than 100 ms.

| theorem | says | argument |
| --- | --- | --- |
| `TypeCorrect` | `[]TypeOK` | part of `LoopInv` |
| `HeartbeatSpacing` | `HeartbeatOnTime` | `LoopInv`: a difference of two readings is the true time between them (`HeartbeatTimed`, `NowTimed`) because no timer comes near a whole turn of the counter (`InTime`), which in turn needs the differences to be right. Four lemmas do the arithmetic: `ElapsedTick`, `ElapsedBetween`, `ElapsedAdvance`, `SumIsReading` |
| `HeartbeatNeverLate` | `[]HeartbeatRecent` | `HeartbeatInTime` |
| `LedOnTime` | `[]LedFollowsTime` | `ToggleInTime` and `LedInPhase`, which relates the timer, the LED and the true phase of its cycle |

The others are about `FirmwareSpec`, for any number of polls and, in addition, the
assumptions of `MainLoop`.

| theorem | says | argument |
| --- | --- | --- |
| `PinsSafe` | `[]PinsAreSafe` | `PinInv`: levels are set before the first output, and nothing but the LED's pin is written after it |
| `ClockLegal` | `[]ClockIsLegal` | `ClockInv` and `BoardInv`: what the clock hardware can be doing at each point of `board_init`, a switch that is still to come included |
| `UsbClocked` | `[]UsbHasItsClock` | `UsbInv`: the one path to true keeps the switch it has seen, and no later step takes it back |
| `PllSetWhileOff` | `PllIsSetWhileOff` | from the same invariant |
| `LoopImplemented` | `FirmwareSpec => Spec` | every step of the firmware is one of `MainLoop` or leaves it alone |
| `FirmwareKeepsTime` | `HeartbeatRecent`, `LedFollowsTime`, `HeartbeatOnTime` of the firmware | the theorems about `MainLoop` through `LoopImplemented` |

Those of `CdcPipe_proofs`, for any set of requests and number of lines:

| theorem | says | argument |
| --- | --- | --- |
| `TypeCorrect` | `[]TypeOK` | part of `PipeInv` |
| `Arrival` | `LinesArrive` | `TogglesInv`: the toggles of the two sides agree, but for a packet that the host has and the driver does not know of |
| `Refinement` | `DriverIsMailbox` | each step maps to one of `TxMailbox` or a stutter, by cases of what is in the buffer; the host takes a packet for new only when its line is still in the slot (`TogglesInv`) |

Those of `RPiSlave_proofs`, for any layout of the data, under `SharedAssumption` and
`WriteMaxAssumption`:

| theorem | says | argument |
| --- | --- | --- |
| `TypeCorrect` | `[]TypeOK` | inductive, with the write buffer's extra place counted as its own |
| `Refinement` | `SlaveIsSharedBuffer`, if writes fit | `SlaveInv`: interrupts are off within a copy, and the write buffer holds what has been sent; then step by step against the mapping |
| `Wholeness` | `[]FieldsAreWhole`, if writes fit | the invariant of `SharedBuffer` carried over by the mapping |

That of `RomiNode_proofs`, for any layout, any writes and any number of failures:

| theorem | says | argument |
| --- | --- | --- |
| `ReadingsTheirs` | `[]ReadingsAreTheirs` | `ReadingInv`: what has been read are the first bytes of the slave's copy of the buffer from the variable on, and the slave's place is behind them, unless a command has moved it (`Underway`) |

Those of `TwistControl_proofs`, under `TimesAssumption`: timeout, sampling interval and
two passes are shorter than a turn of the counter.

| theorem | says | argument |
| --- | --- | --- |
| `TypeCorrect` | `[]TypeOK` | inductive |
| `StopInTime` | `[]StopsInTime` | `FreshInv` and `TwistInv` say where an unconsumed flag and a live twist can be, relative to the pass; hence the counter comes round only after a silence in which the twist was stopped; hence `AgeInv` bounds the age of a live twist by the silence the loop has counted, and `MotorInv` that of the controllers' goal |
| `FreshFollowed` | `[]FreshTwistIsFollowed` | `FollowInv`: while the last command is flagged and not lost (`fate`), shared data and copy hold its bytes unless the copy was stopped before; a pass that began after the flag does not change them, and they are the goal once a sample has been taken a pass later; with `IInv`, whose timers say when that is |
| `WholeTimeout` | `TimeoutIsWhole` | `FlagInv`: a flag that is gone has restarted the timeout at most a pass after it came |
| `NewOrZero` | `[]TwistIsNewOrZero` | inductive with `TwistInv`: a pass writes back the twist it has read, which changes nothing, or zeros |

Those of `Odometry_proofs`, under `OdometryAssumption`, which says that clock and
encoder do not turn half round within the longest time between two measurements:

| theorem | says | argument |
| --- | --- | --- |
| `MeasurementTrue` | `[]MeasuredIsTrue` | the counters are the true values, reduced; the bounds make the reduction invertible |
| `NeverByZero` | `[]ElapsedIsPositive` | the sampling interval is longer than the delay between the two readings of the clock |
| `TypeCorrect` | `[]TypeOK` | part of `IInv` |
| `MeasuredOnTime` | `[]MeasuredInTime` | the timer cannot be passed over by a pass |

Only model-checked: liveness (`HeartbeatKeepsFlowing`, `TransfersEnd`, `MailboxIsEmptied`,
`ClockIsKnown`), which is out of the prover's reach. Every safety property of a passing
run is proved. `WheelControl` has no theorem, as its one property is violated.

Only proved: the type invariants, but for that of `UsbCdc`, and what the runs' properties
rest on anyway or imply (`CompletionIsExpected`, `BusyHasPacket`, `LineCodingIsSet`,
`LinesArrive`, `MeasuredInTime`, `PllIsSetWhileOff`). They were checked on small instances before they were proved.

## Not modelled

* Contents of descriptors: constants, checked by `_Static_assert` where the code can.
* The writes of the D+ pulse and of `usb_cdc_init` to GPIO and clock registers, the
  remapping of pins, the shifts that compute a pin's configuration field.
* Start-up code, linker script, vendored headers, hardware: nothing to check here.
* The old robot's LEDs, buttons, battery chime, empty IMU timer and debug output; the
  error states of the TWI interrupt; the calls of the driver that the node does not
  make (`leds`, `read_buttons`, `read_raw`); what its messages contain.
* The web joystick (`script.js`, `server.py`, `a_star.py`): the demonstration of the
  vendored library, for another robot.
* The velocities that the old robot computes for the node (`Kinematics::getVelocities`).
* Floating point: `WheelControl` has integers, `Odometry` a pair for a quotient.

## Plan

Done: the USB driver with its peripheral and host and what the two promise, what lies below a field assignment,
the lines and their mailbox, the firmware from reset into its loop, and the old robot
from the node to the wheels. Left, most useful first:

1. Halt features and the address in `UsbFunction`, with the halt that `usb_cdc_try_write`
   (`usb_cdc.c:988`) and a late completion (`usb_cdc.c:865`) overwrite as the questions.
   (`AddressAfterStatus` says by itself when the address takes effect.)
2. The composition of `Firmware` with `TxMailbox`: one line per interval while the
   port is open.
3. Bus errors in the middle of a write of the old robot, with the error states of
   `PololuTWISlave.cpp`.
