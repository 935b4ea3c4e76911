# caw-embedded in TLA+

A verification development of the caw-embedded firmware: a motor and battery
controller on an STM32 that talks to a host over a UART. It holds TLA+ modules of
the parts whose behaviour depends on order, sharing and failure, TLC runs that check
them on small instances, and theorems that the TLA+ proof system checks for every
value of the constants.

The repository is a library of sources. The application that links them (its
`main`, its interrupt handlers, the loop around `event_step` and `motor_step`) is not
part of it. Where a model needs the application, it uses what the sources imply of
it and says so.

## 1. The system

| Component | Sources | State | Operations |
|---|---|---|---|
| block ring | `buffer.c` | 10 blocks, `w`, `r`, `overflow`, `prev_w_block` | write a block, claim a block, take a block, peek, the block claimed last |
| receive path | `event.c`, `device.c`, `protocol.c` | `rx_buf`, the receive DMA | `event_run`, the idle-line callback, `event_step` (second half), `parse`, `protocol_header_parse` |
| transmit path | `device.c`, `event.c`, `log.c`, `discover.c`, `obsercation.c` | `tx_buf`, the UART's `gState`, `discover_count` | `device_write_buffer` by all who say something, `event_step` (first half), `device_write` |
| command table | `event.c` | 20 entries, `chain_index` | `event_register`, `event_find_chain`, `dispatch` |
| messages | `protocols/`, `endian.c` | none | packing and unpacking |
| motor parameters | `motor_params.c`, `event_callbacks/` | `global_motor_params`, one flash page, the controllers | set, initialise, flash, load; save, load, reset |
| encoder driver | `as5047p.c` | last angle, its time, rotations, the sample of the last velocity | read over SPI, update, velocity |
| encoder PLL | `pll.c` | two counters and the loop filter | update |
| motor control | `motor.c` | control type, zero and electrical angle, set points | step in four modes, align, set the phase voltage, reset, change the mode |
| PWM driver | `pwmx3.c` | three compare registers | set three voltages |
| PID, low-pass | `pid.c`, `lowpass_filter.c` | previous error, output, time | calculate |
| current sensor | `current.c` | two phase currents and their offsets | two ADC interrupts, calibration, Clarke and Park transforms |
| gate driver | `drv8323.c`, `custom.c` | registers of the DRV8323 | SPI reads and writes, `motor_custom_init` |
| battery monitor | `bq76920.c` | gain, offset, measurements; registers of the BQ76920 | init, step, balance, shut down |
| battery report | `bms.c` | none | pack a report |
| CRC, trigonometry, configuration | `crypto.c`, `fast_math.c`, `helper.c`, `caw_config.h` | none | pure functions, constants |

How they meet:

- **The host and the event task.** The receive DMA fills a block of `rx_buf`; when
  the line goes idle, the callback marks it complete, claims the next block and
  points the DMA at it. The event task runs `event_step` in a loop: it announces
  the device every 1000 calls, hands one block of `tx_buf` to the transmit DMA, and
  takes one complete block off `rx_buf`, whose command it looks up and calls.
  `rx_buf` is shared between the interrupt and the task with no lock and no masking,
  only with `volatile` fields and two asserts.
- **Everybody and `tx_buf`.** Replies, logs, announcements and observations of the
  motor code are written to it; only the event task reads it.
- **Commands and the motor.** A start registers callbacks in the command table, which
  finds one for each frame. The callbacks change `global_motor_params` and
  the controllers that the motor loop uses at the same time; `info.state` is what
  tells the loop to keep off.
- **The motor loop and its sensors.** A step reads the encoder over SPI, feeds the PLL
  or counts rotations, converts the angle to an electrical one, and sets three
  compare registers. SPI reads can be flagged, damaged or fail outright.
- **The gate driver, the ADCs and the motor loop.** `motor_custom_init` writes the
  registers of the DRV8323 over SPI, whose amplifiers feed two ADCs. Each stores its
  sample in an interrupt of its own; the loop loads both and takes off an
  offset that was measured at rest.
- **The battery monitor and its chip.** Each byte is an I2C transfer that may fail, and
  a write carries a check byte. The chips keep their registers over a reset of the
  microcontroller.

What is hard: the unlocked ring between an interrupt and a task; blocks given back
before they are used in place; a receiver that only its own callback restarts; flash
that can be cut off between two words; parameters changed under a running motor;
rotations inferred from jumps of an angle when reads fail; conventions of angle and
direction spread over alignment and commutation; controllers retuned while they run;
SPI and I2C devices whose state outlives the driver's. `PROJECT.json` lists each hazard at its line.

What makes each part correct:

- *ring*: it is a bounded FIFO queue, which refuses only when it is full or empty.
- *receive*: every frame reaches its callback once, whole, in order, eventually; the
  receiver never goes deaf; no null block is parsed.
- *transmit*: what is accepted is sent once, whole, in order, eventually; under a light
  load nothing is dropped behind the writer's back.
- *command table*: a frame runs the callback that was registered for it first.
- *parameters*: what was reported as saved is in flash; the motor does not run on half
  a parameter set; RAM, controllers and `info.state` agree between commands.
- *controllers*: the output keeps to the limit in force and follows the sign of the error; what
  is not a number does not outlast a change of parameters.
- *encoder*: the counted rotations keep a constant offset to those of the shaft; a
  velocity is the mean speed between two reads.
- *motor*: it commutates at the angle the rotor has, to less than a count; the field turns smoothly, and it
  turns at all.
- *gate driver and currents*: a clean start configures the chip as meant, whatever it was
  left with; the loop gets the current of the right phase, of this PWM period or the last.
- *battery*: no cell is newly drained in a discharge the driver has seen, and draining ends; protection is
  what the driver meant to configure.

## 2. The modules

    BlockQueue                        abstract: a bounded FIFO queue of blocks
      ^ implemented by
    RingBuffer                        buffer.c, one call at a time
      ^ INSTANCE Buf        ^ INSTANCE Buf
    RxPath                TxPath      access by access, with interrupts and DMA
    EventTable     Pid                the command table; controllers and filters
      ^ EXTENDS     ^
    ParamStore                        parameters, flash, commands, resets
    Encoder                           the rotor, and reads of the encoder
      ^ EXTENDS     ^ EXTENDS
    As5047p        Pll    Svpwm       rotations and velocity; counters; modulation
                     ^ EXTENDS ^
                     Motor            the control loop
    BitSets                           words of a bus as sets of bits
      ^ EXTENDS     ^ EXTENDS
    Drv8323        Crc8               gate driver; check byte of the battery monitor
      ^ EXTENDS
    CurrentSense                      ADCs, their readers, the start of the board
    Bq76920                           the driver, its chip and the battery
    *Proofs                           theorems about the module they are named after
    MC*                               the modules TLC runs

| Module | Code | State and actions |
|---|---|---|
| `BlockQueue` | what `buffer.h` promises | a queue; append, amend the newest, remove the oldest |
| `RingBuffer` | `buffer.c` | the fields of `buffer_t`; one action per function, and `Complete` for the callback's write through `buffer_get_prev_write_block`. `Next` runs them in any order |
| `RxPath` | `event.c`, `buffer.c`, `protocol.c` | the ring, the DMA's block, the pending interrupt, the task's place. The callback is atomic for the task; every access of the task to a volatile field is one action |
| `TxPath` | `event.c`, `buffer.c`, `device.c` | the same for `tx_buf`; `w_*` and `r_*` are the accesses of a write and of a read, `MotorWrites` a call from the motor code, `TransmitComplete` the end of a DMA transfer. Three specifications: `Spec` (the motor code preempts anywhere, any load), `TurnsSpec`, `LightSpec` |
| `EventTable` | `event.c` 17-33, 68-87 | `chains`; `event_init`, `event_register`, `event_find_chain`, `Dispatched` (`dispatch`) as operators of the module that extends it |
| `Pid` | `pid.c`, `lowpass_filter.c` | functions of a controller's state, its parameters, the input and the milliseconds since the last call; a flag says whether the fields are numbers |
| `ParamStore` | `motor_params.c`, callbacks | flash, RAM and controllers as images of doublewords; every doubleword copied, erased or programmed is a step, and every registration of a start; `Crash` between any two. `motor_step` runs a filter and a PID between any two of them |
| `Encoder` | `as5047p_get_raw_count`, `_write` | the rotor, external; a read is good, flagged or from a failed transfer |
| `As5047p` | `as5047p.c` | `as5047p_t`, the tick; `as5047p_update`, `as5047p_get_velocity` |
| `Pll` | `pll.c` 25-38 | the two integer counters; operators for `Motor` |
| `Svpwm` | `motor_set_phase_voltage`, `pwmx3_driver_set_pwm` | operators: six cases, three duties, clipping |
| `Motor` | `motor.c` | angles in a unit of which a count and an electrical turn have whole numbers, as with 2^14 counts and any number of pole pairs; one action per operation; `motor_align_sensor` is two, as it waits for the rotor in between |
| `BitSets` | | a word as the set of its bits; shifts |
| `Crc8` | `crypto.c`, `_I2C_WRITE_BYTE` | `crc8_ccit_update` over bits; the chip's division by the polynomial, external |
| `Drv8323` | `drv8323.c`, `custom.c` | registers, pins and amplifiers of the chip, external; every SPI word of `motor_custom_init`, `drv8323_enable_gd` and `_disable_gd` is a step that may fail before or after the chip took it |
| `CurrentSense` | `current.c`, `motor_sensor_calibrate_offsets` | a PWM period, an interrupt for each ADC, the two loads of a reading, the rounds of a measurement of the offset, the first of which may find a current or nothing; on top of the start-up of `Drv8323` |
| `Bq76920` | `bq76920.c` | `bq76920_t`, five of the chip's registers, the battery; each I2C byte, in `bq76920_init` too, is an action of its own that may fail, and the battery changes or the microcontroller is reset between any two |

History variables are named as such in each module. They record what happened
(where the rotor was at a read, which frames a callback saw) and guard nothing.

Undefined behaviour is a choice:

- `buf->r = ++buf->r % MAX_BLOCK_SIZE` modifies `r` twice without a sequence point. A
  build may store the unreduced value first; `RxPath` has both stores
  (`IncrementR`, `ReduceR`), and a build with one store is the case where nothing
  runs between them. `TxPath` and `RingBuffer` treat it as an ordinary
  load and store.
- `_write` returns a variable no failed transfer has written: any word, and so any
  count or error. `protect2_reg` and `adc_gain_reg` in `bq76920_init` are any byte after a failed
  read, and `_SPI_WRITE` of `drv8323.c` returns any word of `Garbage` after a failed transfer.

Two things in the code the models rely on without showing them: the protocol header
is byte-swapped in place in the block, which is harmless because a block is parsed
once; and the version 0x101 reads the same in either byte order, so the
test of it cannot tell whether it was swapped.

## 3. The runs

The state counts are for orientation.

| Run | Question | Result |
|---|---|---|
| `ring_queue` | Is the ring a bounded FIFO queue when calls do not overlap? | `TypeOK`, `RefusesOnlyAtTheLimits`, `ImplementsBlockQueue` hold (5 thousand states) |
| `rx_path` | Is it safe between the interrupt and the task while the host leaves two slots free? | six invariants and `EveryFrameHandled` hold |
| `rx_reader_assert` | Can the reader's assert fail on a healthy ring? | yes: finding 1 |
| `tx_path` | Does everything said reach the host, once and whole, under a light load? | four invariants and `EveryWriteTransmitted` hold (2.7 thousand states) |
| `tx_torn` | And when `tx_buf` is full? | a block is overwritten while it is sent: finding 2 |
| `param_store` | Do flash, RAM, controllers and the running motor agree across commands, short frames, flash errors and resets? Do the controllers stay sound through every change? Does the table find what was registered? | eight invariants hold (one million states) |
| `as5047p` | Are rotations and velocities right whatever reads fail? | two invariants and two action properties hold (4.9 million states) |
| `motor` | Does the field follow the rotor, without jumps? | three invariants and `SmoothField` hold (1.5 million states) |
| `motor_open_loop` | Does the open loop turn the field? | no: finding 3 |
| `bq76920` | Does balancing stop, and not start in a discharge? Does an initialisation repair an earlier bad one? | two invariants, two action properties and one liveness property hold (790 thousand states) |
| `bq_ocd` | Is the overcurrent threshold the documented one after a complete initialisation? | no: finding 4 |
| `current_sense` | Does a clean start repair what a failed one left in the gate driver? Are the currents those of the motor? | three invariants and one action property hold (4.9 million states) |

### Bounds, and why they are enough

- `ring_queue`: 4 slots, two contents. Every combination of pointers and flag occurs;
  the refinement is proved for all sizes.
- `rx_path`: 5 slots, three frames outstanding (`Window = MAX_BLOCK_SIZE - 2`), and
  twelve frames, which take both pointers more than twice around: the flag is set and
  cleared in each lap. The safety part is proved for all sizes. The window is
  tight: with one frame more outstanding the ring can fill between the task's test of
  `overflow` and its comparison of the pointers, looks empty to it, and TLC finds
  `NeverParsesNull` violated (three slots or more); with as many as there are slots it
  finds the receiver switched off for good. `NDEBUG` is TRUE: with asserts,
  `rx_reader_assert` shows that the device can stop whatever the window.
- `rx_reader_assert`: 3 slots, one frame outstanding, asserts on.
- `tx_path`: `LightSpec` with fairness, 4 slots, 9 messages (two laps), an announcement every
  second call instead of every 1000th, and replies, logs and observations written only when
  fewer than two blocks wait; a callback may write several. A fuller ring adds nothing but the
  overload that `tx_torn` looks at (`TurnsSpec`, 3 slots). The theorems are for every size, and
  those of `TurnsSpec` for every load.
- `param_store`: 3 doublewords of 14 and two sets, one that runs the motor with a ramp, an
  integral gain and a filter, and one that stops it, with a smaller limit, a derivative
  gain and no filter; short frames make mixtures of them. The
  first doubleword holds `info.state` and the mode, the others the gains of a PID and the
  time constant of its filter, so a cut can fall between gains. Resets are not bounded. A step of the motor
  comes 0, 1, 400 or 600 ms after the one before: in the same tick, in the next, after the
  300 ms of the filter, after the 500 ms of the PID. Velocities of either sign, one of them beyond
  both limits; `FollowsError` needs runs of up to `Patience` = 5 steps, which `MaxStreak` counts to.
  The table has three entries, for an application with three commands and
  one with a second callback of a code and a command too many.
- `as5047p`: 6 counts of 16384, one count of travel between good reads: just below the
  fifth of a turn that the threshold of 0.8 turns allows, since with 6 counts a jump of
  5 is a wrap and one of 4 is not. One failed transfer, any number in the proofs; any number of flagged reads. The tick
  wraps at 3.
- `motor`: three pole pairs and 8 counts, so that an electrical turn is no whole number of counts, as
  with the code's 2^14 counts; a count is 9 ticks of a turn of 24, a sector 4, so each has a border and
  inner angles; both directions of the sensor; a mounting offset that is no multiple of a
  sector. `FullLevel` is a voltage the bridge cannot give, and is clipped.
- `bq76920`: two cells of five, voltages below, between and above the two thresholds, a
  coulomb counter of two digits, with a discharge whose low digit alone looks like a charge, and
  pairs of digits that are of no sample; a gain that a failed read can miss and an offset below zero. Two
  failures or resets in all, where the proofs have any number. `ChipAcceptsEveryWrite` rests on
  `Refused`, which has no variables: TLC computes it once, for every register the driver
  writes and all 256 data bytes.
- `current_sense`: one failed transfer and any number of resets; the words it may return are
  none, one that turns the following write into a read, one that makes it a lock of all registers, and one that
  makes it start a calibration. Three rounds of a measurement instead of 2000, and three pairs
  of currents, full on one phase or none. The proofs are for every number of rounds and any currents.

### Assumptions

- *Frames* are well formed and separated by an idle line. `RxPath` takes them to be of full
  length; `ParamStore` has short ones, behind which the block still holds the end of
  an older frame.
- *The application* calls `event_init`, registers its commands and calls `event_run`, in this order; at
  a start it loads the parameters, initialises the controllers from them and sets the loaded mode. Its
  motor loop steps the motor while `info.state` is 1 or an erased page's all ones.
- *The interrupt* runs to completion for the task, and at most one is pending.
- *The context of the motor code* is not in the sources, which include `cmsis_os` headers and leave
  the tasks to the application. `Spec` of `TxPath` lets it preempt the event task at every access; there
  the task's store of `w` can undo the increments of the motor code between its load and its store, a wrap
  among them: messages are lost and TLC finds the assert of `buffer.c:14` failing, and that of
  `buffer.c:60` by the race of finding 1. What is checked and proved of `tx_buf` beyond its types is of `TurnsSpec`, where
  the motor code takes turns with `event_step` in one loop: it is what an application has to
  ensure, not something the sources show. No sentence of the repository speaks of several writers, so
  there is no finding.
- *Load*: in `LightSpec` who replies, logs or observes finds fewer than `Backlog` blocks waiting. The
  code does not look; an application has to see to it, and `tx_torn` shows what happens if it does not.
- *Encoder*: between two good reads the shaft moves less than a fifth of a turn for
  `as5047p_update`, and less than half a turn for the PLL (`SlowShaft` in the proofs of each).
- *Velocity*: a call in the tick of the last one returns the old value and changes
  nothing, so it is a stutter of `As5047p`.
- *Motor*: PIDs ask for any voltage of a set; the PLL's loop filter has settled on its
  counters and the low-pass filter of the shaft angle on its input; the sine of the
  modulation is a straight line over a sector (what the table of
  cases does is independent of it: see the proofs); TORQUE, VELOCITY and ANGLE differ
  in the current they ask for and are one control type here; during
  the 700 ms of an alignment the rotor comes to rest at electrical angle 0.
- *Controllers*: whole numbers, rounded down; the integral gain stands for half of it.
  Rounding may stop a filter short of its input, so that `FollowsError` speaks of the error the PID sees.
- *Gate driver and currents*: one loop starts the board, measures the offset and steps the
  motor, which is at rest after a reset. A later measurement may begin with current flowing; a millisecond
  passes before its second sample, and three equal duties have let the current decay by then. The
  callbacks of at most one PWM period run between the two loads of a reading. The chip behaves as its data sheet says: asleep it
  forgets its registers, locked it ignores writes, it has no register 7, and it does not wake up locked
  (`DefaultsAssumption`). Offsets are floats in the code and whole numbers here, in a unit so small that
  what the division drops does not count (`Bias >= (Rounds - 1)^2` in `CurrentAssumption`); the rounding of
  the floats is left out.
- *Battery*: the application calls `bq76920_init` once after each reset and then
  both `bq76920_step` and `bq76920_update_balance_cell` again and again. Its
  `bq76920_t` is zeroed memory. The chip may sample at any time, between the two
  bytes of a value too, and begins when the driver has enabled it.

### Fairness

- `RxPath`: weak fairness of `event_run`, of the task's steps and of the interrupt. The
  task is a loop that never ends, and a pending interrupt is enabled until taken. The
  host owes nothing: no fairness of `HostSends`.
- `TxPath`: weak fairness of the task's steps and of `TransmitComplete` (a DMA transfer
  ends), on top of `LightSpec`. None of `MotorWrites`.
- `Bq76920`: weak fairness of initialisation and of the reads in progress (a
  transfer ends, if by its timeout of 500 ms), strong fairness of
  `bq76920_step` and `bq76920_update_balance_cell`: each is enabled only between
  calls of the other, and a loop comes back to both. Failures are bounded,
  which stands for transfers that succeed again at some time.

No other module claims liveness.

## 4. Findings

1. **`buffer.c:79`, the reader's assert fails on a healthy ring.** `buffer_seek_read_block`
   finds `overflow` clear; the receive interrupt wraps `w` to 0; the assert
   `r <= w` compares with the new `w`. One frame outstanding is enough.
   The writer's assert at `buffer.c:38` has the mirror image of the race: the task
   has stored `r = 0` and not yet cleared `overflow` (three slots, two frames outstanding).
2. **`event.c:97`, a transmitted block is overwritten.** The slot is free again
   (`buffer.c:66`) before the DMA has read it, so on a full ring a writer passes the
   check that a comment says keeps unread data from being overwritten.
3. **`motor.c:123`, the open loop stands still.** `motor_velocity_open_loop` advances
   `shaft_angle`, and the next `motor_step` overwrites it with the
   angle of a sensor that the open loop does not read.
4. **`bq76920.c:59`, protection bits are never cleared.** The configuration is or-ed to
   what was read, or to an unwritten byte. Garbage of one failed initialisation stays in the
   chip through every complete one after it, and the threshold is not the
   16 A of the comment.

Seen in the models, and not listed as findings: no run is about them, and most contradict
no sentence of the repository.

- `motor.c:102` feeds the error code of a failed read to the PLL, as a position half a turn
  away at most. `TracksShaft` counts what that costs.
- `drv8323.c:96`: `0x1 << 4 + 0x1 << 3 + 0x1 << 2` is `1 << 11`, so `drv8323_calibrate` writes to register
  7, which the chip does not have. The amplifiers are calibrated all the same, by the write of CSACR
  two steps later; the pin `_CAL` is high only while the chip sleeps.
- `custom.c:23`: when the write that ends that calibration fails, every current reads as
  none from then on. `ReadsRecentCurrents` speaks of clean starts for that reason.
- `pid.c:19`: two calls in one tick count as one millisecond each, so a fast loop exceeds
  the rate that `pid.h:10` gives as the largest ("输出值的最大变化速度"). Here a sentence is
  contradicted: `Pid` has the step, and `WithinLimit` speaks of the limit, not of the rate.
- `bq76920.c:204` says balancing is switched off when the pack is not charging ("不在充电状态下则关闭均衡").
  The code does so by the last current it made of two bytes. When `CC_HI` cannot be read, or
  when the chip takes a new sample between the bytes, that can be a charge although there is
  none, as `CC_READY` is never looked at. `NoDrainInDischarge` says what remains true: the
  sign is in the byte read last, so a discharge it showed never starts to drain a cell.
- `bq76920.c:48` reads one byte of a signed offset into 16 bits: an offset below zero becomes one that
  is 256 higher, and enters every voltage and the trips (`ReadOffset`).
- An erased flash page runs the motor, with gains that are not numbers
  (`StateOf`, `GainsOf` of `Erased`).
- With no time constant, two calls of a filter in one tick make its output not a number
  until a gap of 300 ms, and that of the PID it feeds until the next change of parameters.

## 5. The theorems

`tlapm` checks every proof to its leaves. A theorem holds for every value of the
constants that the named assumptions of the module allow.

- **`RingBufferProofs`** (`RingAssumption`: at least two slots). `SpecTypeOK`,
  `SpecAssertsHold`, `SpecRefusesOnlyAtTheLimits` (a refusal is a stutter of the queue, so the refinement
  alone would allow a ring that refuses at will), and `RingImplementsQueue`: the ring implements `BlockQueue` with
  the queue read off the pointers. The inductive invariant adds `PrevBehindW` to the
  types and asserts: the block behind `prev_w_block` is the newest unread one or a free
  one, without which `Complete` could alter the middle of the queue.
- **`RxPathProofs`** (additional assumption `SafeWindow`: at most
  `MAX_BLOCK_SIZE - 2` frames outstanding; both kinds of build). `SpecTypeOK`,
  `SpecExactlyOnceInOrder`, `SpecNeverParsesNull`, `SpecParsedBlockIsPrivate`,
  `SpecReceiverStaysArmed`, `SpecRingInv`. The argument counts: `Claimed` blocks and
  `Taken` blocks determine where every pointer is, modulo the ring, and which frame is
  in which slot (`PointersInv`, `BlocksInv`, `TaskInv`). No property above is inductive by
  itself: `ExactlyOnceInOrder` says nothing of the frames still in the ring, and during the two
  stores of `r` and the store of `overflow` the pointers alone do not say where the
  ring begins, so the invariant speaks of the read position as it will be
  (`ReadPos`) and of the one `overflow` still belongs to (`Unreduced`).
- **`TxPathProofs`** (`TxAssumption`; both kinds of build). `SpecTypeOK` of `Spec`, wherever the motor
  code preempts. Of `TurnsSpec`, for every load: `SpecTransmittedInOrder`, and
  `TxPathImplementsRing`, that the accesses to `tx_buf` implement the operations of `RingBuffer`, a
  write taking place when the message is copied, a read when `r` is loaded. Of `LightSpec` with
  `SafeBacklog`, two slots more than replies and observations may fill: `SpecTransmittedWhole` and
  `SpecNothingDropped`; `tx_torn` shows why.
  As in `RxPath`, the invariant speaks of the ring as it will be when the operation in progress has ended
  (`WritePos`, `ReadPos`, `Flag`), and says which message waits in which slot by counting the
  accepted and the taken ones (`RingInv`); `TaskInv` is what the task knows from
  its last access; `WireInv` says what the DMA began to send. For `TransmittedWhole`,
  `BacklogInv` and `SentInv` say that the slot being sent is not the next one to be written.
- **`As5047pProofs`** (`SlowShaft`: less than a fifth of a turn between good reads, for all but
  the types; any number of flagged reads and of failed transfers). `SpecTypeOK`, `SpecTracksRotor`,
  `SpecOffsetNeverChanges`, `SpecVelocityIsMeanSpeed` (counts, turns and time), for every resolution. `TracksRotor`
  says nothing of how far a failed read has led the driver astray. The invariant (`PlaceInv`) does: since the
  last good read, or the boot, what the driver has seen is whole turns off that place, but for
  a jump of 0.8 turns at most for each failed transfer since; the next good read makes it
  whole turns again, and a fifth of a turn of travel is what keeps the jumps from adding up to
  one more. `ReadInv` relates the time stamps to the clock and the last velocity's sample to
  the read it was taken from.
- **`MotorProofs`** (`MotorAssumption` and those of the modules below it). `SpecTypeOK`,
  `SpecCommutatesWithRotor` and `SpecSmoothField` need nothing else, and `MotorAssumption` allows
  every number of counts and of pole pairs (`ElecRev` is free); the angle is off by less than a count, as
  the rotor rests between two of them when it is aligned. `SpecTracksShaft`
  assumes `SlowShaft`, here less than half a turn between good reads. `TypeInv` has the phases
  carry the last voltage, which `SmoothField` compares with; `AlignInv` says that an
  alignment that counts found the mount, and that no PLL was in use; `PllInv` is the PLL's
  `PlaceInv`, with half a turn for each value that was no good read. About the table of six cases, for
  all times `t1` and `t2`: `ThreePhases` (two sectors further each phase has its neighbour's duty),
  `OppositeSectors` (duties half a turn apart add up to 1), `NoJumpBetweenSectors`, `NotClipped`.
- **`CurrentSenseProofs`** (`CurrentAssumption`, `DrvAssumption`, `DefaultsAssumption`: any currents,
  any registers the chip starts with and any garbage on the bus). `SpecTypeOK`,
  `SpecConfiguredWhenReady`, `SpecOffsetNearBias`, `SpecReadsRecentCurrents`.
  `ConfigInv` says, for each place of the start-up, which registers a clean start has
  set and which still have the values of waking up. `OffsetInv` bounds the sum of the rounds so far:
  the offset left by an earlier measurement counts once among `Rounds`, and so does a first
  sample of a running motor. `SampleInv` says from
  which period each sample is.
- **`Bq76920Proofs`** (`BqAssumption`: any number of cells, any voltages, samples, gain and offset,
  any failures). `SpecTypeOK`, `SpecGoodInitRepairsTrip`, `SpecNoDrainInDischarge`. For the second the
  invariant says, for each transfer of an init, what it has read so far if none failed; for the third,
  that a current computed from a byte with the sign set is not above 0, whatever the other byte is. That
  there is a highest cell is an induction over the cells, by least counterexample.
- **`ParamStoreProofs`** (`StoreAssumption`, `TableAssumption`: images of any length, any
  gains, velocities and times between steps, a table of any size, any applications).
  `SpecTypeOK`, `SpecRunsWhatWasRegistered`, `SpecReportedIsInFlash`,
  `SpecStopsWhileResetting`, `SpecReportsWhatRuns`, `SpecWithinLimit`,
  `SpecResetRestoresNumbers`, `SpecFollowsError`. The invariant says which prefix of RAM, of the controllers
  and of the page the command in progress has replaced (`MemoryInv`, `FlashInv`): without
  it the last word written would not make two images equal. `ControlInv` adds that the PID
  has been reset by the time the filter is, and that the loop does not step in between
  follows from `MemoryInv` (`state = 0`). `HasFirst` is the induction over the table that
  the definition of `event_find_chain` needs. `WindupInv` is the argument for `FollowsError`: a
  run of `s` errors of one sign has moved the integral by twice its gain a step; when a full one
  has lost its sign, the output follows by the ramp, and `Patience` is what both take. A run of the other
  sign is the mirror image (`MirrorIntegral`, `MirrorOutput`).

Every other safety property of the passing runs is stated by a theorem. Only
model-checked are the liveness properties `EveryFrameHandled`, `EveryWriteTransmitted` and
`BalancingStops`, which need fairness and `ENABLED`, out of the prover's reach; and `ChipAcceptsEveryWrite`, a
fact about every register the driver writes and 256 data bytes that TLC evaluates in full.

How far the prover goes decided some forms. The solver knows `x = b * (x \div b) + x % b` for a
symbolic `b` and little else, so a lemma of each module turns a remainder into
whole multiples (`SameRemainder`, `RemaindersApart`). It multiplies variables when each product is a
number it has a name for, hence the many `PICK`s. Neither is it given `%` for the wrap of a
pointer: `WrapValue` turns that into a conditional once. A sum over rounds and a search
over cells are inductions; the first is an invariant of the loop, the second goes by the least counterexample, as the
library's induction theorems cannot be used.

## 6. What is not modelled

- *Floating point*: the loop filter of the PLL, rounding in controllers and filters, the Clarke and Park
  transforms, trigonometric tables. Rounding in `_normalize_angle` can give sector 7.
- *UART line errors*: the HAL stops reception and calls `HAL_UART_ErrorCallback`, which the
  sources do not define.
- *Memory layout*: `vsprintf` into 100 bytes in `log.c`.
- *Byte orders, status registers, printing of faults*: pure conversions that decide nothing.
- *Battery report* (`bms.c`): it calls `protocol_header_write`, which no file defines, so
  it cannot be part of a program.
- *What nothing calls*: `protocol_header_recv`, `pid_reset`, `drv8323_write_hsr` and `_lsr`,
  `bq76920_shutdown`; and `bq76920_update_pack_voltage` and `_temperature`, whose results
  nothing in the sources reads.

## 7. Plan

Done, in the order in which it was built: ring and its refinement; receive
path with proofs; transmit path; parameter store; encoder with proofs; PLL, modulation
and motor loop; battery monitor; command table, controllers and short frames as
parts of the parameter store, with proofs; check byte; gate driver and current measurement; proofs of
the transmit path, its refinement, the currents, the motor loop, the battery monitor, `FollowsError`, and
those of the encoder with failed transfers and velocities; refusals of the ring, velocities in counts,
counts that no electrical turn is a multiple of, stale first samples, the battery driver byte by byte.

Next, by what it would add:

1. The refinement for `rx_buf`: that `RxPath` implements the ring, as `TxPath` does, with the
   interrupt as the writer.
2. Safety halves of the liveness properties: that the model cannot get into a state from which the
   awaited step is disabled (a block that waits is found by the next `event_step`).
3. `SpecTypeOK` of `RxPath` without `SafeWindow`.
