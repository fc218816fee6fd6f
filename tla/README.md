# Formal models of libopenlpc81x

TLA+ models of the parts of libopenlpc81x that are hard to test, with TLC
configurations that check them on small instances and TLAPS proofs for all
instances. Paths are relative to the repository; `usart-util` stands for
`tools/nxp_lpc/lpc81x/usart-util`, `lib` for `lib/nxp_lpc/lpc81x`, and an
example's name for `examples/nxp_lpc/lpc81x/lpc810m021fn8/<name>/<name>.c`.

## The system

libopenlpc81x is two programs that never run in the same place:

* **usart-util**, a host program that reads and writes the flash of an LPC81x
  through the In-System-Programming (ISP) loader in the target's ROM, over a
  serial line;
* **liblpc81x.a**, a library of register-level drivers, one C file per
  peripheral, linked into programs for the target, with about twenty examples.

| component | state | operations | what makes it correct |
|---|---|---|---|
| session start (`command.c`, `main.c:191-216`) | `echo_disable`; the loader's mode and echo; characters on the line | `isp_init`, `echo`, `read_boot_code_version`, `read_part_id` over `com_write`, `com_gets` | host and loader stay in step; the handshake ends; a retry helps |
| download (`transfer.c:65-221`) | position in file, sector and `buf[]`; target flash, RAM, prepared sectors | unlock, blank check, prepare, erase, write, copy, read | success means installed; every command is one the loader accepts; a later run repairs |
| upload (`transfer.c:32-63`, `main.c:143-247`) | position, the file with what stdio and the disk hold of it | read memory, `fwrite`, `fclose` | success means copied, and a file left behind is a prefix, until a code line is torn |
| other ISP commands (`command.c`) | none | `set_baud_rate`, `go`, `compare`, `read_uid`, `read_crc_checksum` | not called by the program |
| gpio (`lib/gpio.c`) | `SWM_PINASSIGN`, `SWM_PINENABLE0`, `GPIO_DIR0`, IOCON | `gpio_config`, `gpio_reconfig` | one owner per pin; a pin does what it was configured for |
| sct (`lib/sct.c`) | a counter of 32 bits or two of 16, matches, events, state | start, stop, halt, modes, limits, events | a call does what it says, to the half it names |
| examples sct_pwm, rc_servo, acmp, piezo, sct | reload registers, state, a handler | set-up, main loop, `sct_isr` | no pulse of a wrong width, no tone of a wrong length, no LED forgotten |
| pinint (`lib/pinint.c`), example pinint | mode and edge registers, counts | mode changes, clears; two handlers | modes do what they say whatever came before; no push is lost |
| mrt, wkt, pmu, wwdt and their examples | timers, flags cleared by writing ones, registers that outlive a reset | start, stop, clear; handlers; sleep | phases are complete; alarms wake; watchdog tests pass |
| syscon clocks, usart divider (`lib/syscon.c`, `lib/usart.c`) | dividers, PLL, selections with update bits | enable, select, set rate | there is always a clock; rates are close and never too slow |
| example usart_irq | a ring of characters | `uart0_isr` | nothing accepted is lost, reordered or left waiting |
| examples i2c_proximity, spi_barometer | buffers and states shared by `main()` and the handler | transfers, `i2c_isr`, `spi0_isr` | `main()` is told the truth; replies lie in their places |
| examples i2c_rom, spi_rom, flash_iap | a memory under test | write, read back, compare; erase, copy | healthy memory passes; what is read is what was written |
| nvic, crc, flashcon, systick, scb, start-up code | peripheral registers | single accesses | - |

How they interact: `main()` of usart-util calls the session start and then
download or upload; all of them talk to the loader by writing requests and
reading answer lines. On the target the library has no state beside the
registers; programs and their interrupt handlers share those.

What is hard: the serial line loses and corrupts characters and is not
protected once echo is off (`main.c:196`); an answer can be later than the
0.5 s that `read()` waits (`main.c:175`); the target may lose power at any
time; the loader imposes a protocol (prepare, erase, prepare, copy) with sizes
it accepts; registers are shared with handlers that run between any two
accesses; timers go on while `main()` changes them; resets keep some registers
and clear others. The individual hazards, each at its line, are in
`PROJECT.json`.

## Modules

| module | role |
|---|---|
| `Installer` | what `usart-util -D` promises, without saying how |
| `IspDownload` | `download()` and the loader, one action per ISP command |
| `IspDownloadProofs` | theorems about it |
| `IspSession`, `IspSessionProofs` | the start of a session, one action per character |
| `IspUpload`, `IspUploadProofs` | `upload()`, `read_memory()` and `main()`'s handling of the file |
| `SwitchMatrix` | `gpio_config` and `gpio_reconfig` |
| `EchoChannel` | what the usart_irq example promises |
| `UsartIrq` | `uart0_isr`, one step per access |
| `Sct` | operators: every register-writing function of `lib/sct.c`, and the timer itself |
| `SctCalls` | calls of `lib/sct.c` in any order |
| `SctPwm`, `AcmpDimmer`, `Piezo`, `SctBlink` | the examples sct_pwm and rc_servo, acmp, piezo, sct |
| `SctProofs` | theorems about these four |
| `Pinint`, `PinintModes`, `PinintDemo` | operators of `lib/pinint.c`; its calls in any order; the example |
| `Mrt`, `MrtDemo` | operators of `lib/mrt.c`; the example |
| `WakeUp` | the example wkt with `lib/wkt.c` and `lib/pmu.c` |
| `WatchdogTest` | the example wwdt with `lib/wwdt.c` |
| `I2cProximity`, `SpiBarometer` | the two programs that read a sensor |
| `Pressure` | the fixed-point arithmetic of spi_barometer |
| `SensorsProofs` | theorems about `I2cProximity`, `SpiBarometer` and `Pressure` |
| `RomTest`, `I2cRom`, `SpiRom`, `MemoriesProofs` | the test of an EEPROM, and the calls it makes over I2C and SPI |
| `FlashIap` | the flash test through the boot ROM's IAP |
| `UsartClock` | `syscon_set_usart_clock`, `usart_set_baudrate` |
| `SysconClock` | oscillators, PLL and main clock of `lib/syscon.c` |
| `LibraryProofs` | theorems about both, `SwitchMatrix` and `SctCalls` |
| `InterruptsProofs` | theorems about `WatchdogTest`, `WakeUp`, `MrtDemo`, `PinintModes`, `PinintDemo` and `UsartIrq` |
| `MCIspDownload` (two cfg), `MCIspSession`, `MCIspUpload` | instances of one module |
| `MCLibrary`, `MCSct`, `MCInterrupts`, `MCSensors`, `MCMemories` | instances of several programs |

The last group puts programs of one kind side by side. A board runs one program;
the variable `program`, chosen by the initial state, says which one. Each
program is an instance of its module, variables of the same name are one
variable, those a program does not have are `Off`, and an action of one program
leaves all others' variables alone. So the states of such a module are the
disjoint union of those of its programs, and a property of it is the
conjunction of its programs' properties, each under `program = ...`.

Definitions commented "Mistake" are not part of a model. Each is a variant of
the definition after it with an error that could have been made in the code;
replacing the definition by it makes a property fail, which shows that the
property depends on that piece of code.

### IspDownload

State. `image`, `sector`, `i` are the file, the sector number and the loop
variable of `transfer.c:150`, in pages; `pc` is the command to come. `flash`,
`ram` and `prepared` are the target's memory and the sectors the P command has
opened; `rx` are the answer lines the host has not read.

Actions. Each is a call of `command.c` as `download()` makes it: the request,
what the loader does, and the answer that the host reads (`Hear`: one line is
taken for the return code, zero goes on, anything else returns -1, a time-out
too). `ReadFile` is the `fread` and the tests around it, `Chunk` the choice of
`m` in lines 150-162, `Verify` the `read_memory` and the comparison.

Data. The unit is the page of 64 bytes: all sizes the code computes with
(`n`, `m`, the RAM behind the loader's own, a sector) are multiples of it. A
page is a value; `Sealed(d)` is page `d` with the checksum of the vector table
(lines 109-124); `Garbage` is any page that is none of the expected. Programming
a page that is not blank yields garbage unless the contents agree (NOR flash).

Faults. `Hear` loses an answer after the command was executed; `WriteToRam`
delivers a bad page; `PoorErase` leaves a page programmed; `InterruptedErase`
and `InterruptedCopy` are power failures in the middle; `BlankCheckMisread`
is the one answer whose corruption goes unnoticed, '8' read as '0', after which
two lines remain unread and shift every later answer; `Abort` is every failure
that changes nothing on the target. `Rerun` resets the target and starts the
program again with any image.

Assumption. A request arrives as it was sent or is refused. Two requests
corrupted so that they match (the sector number of a P and that of the E
after it) could erase a sector that was already verified; this is listed as a
hazard that no property covers.

### Installer

The abstract specification: work on the first unconfirmed sector in whatever
way, confirm it when it holds its part of the image, succeed when all of the
image is confirmed, give up at any time. `KeepsPromise` states that
`IspDownload` implements it, with `done` = `sector` and `status` = how the run
ended. So a confirmed sector is never touched again by the same run, and flash
beyond the image is never touched at all.

### IspSession

`Ask` to `Timeout` are the host: `isp_init` asks with '?' up to `Retry` times,
then each request is sent (`SendChars`), its echo compared character by
character (`GetEcho`, unless echo is off) and its answer read line by line
(`GetChar`, `TakeLine`). `LoaderChar` is the loader: auto-baud detection,
"Synchronized", clock frequency, commands, and the echo that the command A 0
switches off. Characters may be lost or become noise, or a '0', in both
directions. If `slow`, which the initial state chooses, `read()` may time out
although the loader has not answered yet. The loader may start in any mode, since nothing resets it.

`Lockstep` is what `IspDownload` starts from: when the transfer begins no
character is on its way, the loader is in command mode and echo is off at both
ends, so its `rx` is empty and an answer belongs to the request before it.

### SwitchMatrix

`assign`, `fixed`, `dir`, `iocon` are `SWM_PINASSIGN`, the enabled functions of
`SWM_PINENABLE0` (a bit that is 0), `GPIO_DIR0` and the IOCON registers.
`wanted` is a history variable: what each pin was last configured for.
Each branch of the two `switch` statements is an action. `gpio_config` is
called only for pins not configured since the reset, which is how all examples
use it; `gpio_reconfig` for any pins, several or none included. Calls are
atomic: no program of the repository configures pins in an interrupt handler.

### IspUpload

`main()` opens the file, which empties it, starts the session, and `upload()`
reads pieces of the size of `buf[]`. `read_memory` is followed character by
character: request, answer line, return code, data, which have no framing: a
byte of the data may look like the end of a line or like a return code, and CR
and LF are two characters. `com_gets` stops at the first LF (`command.c:112`):
when the CR of the code line arrives as an LF, the code is still read as 0, the
LF that was sent becomes the first byte of the data, the last byte stays on the
line for the next code, and the program may well exit with status 0 and a file
shifted by a byte. `torn` is a history variable with the offsets of such pieces.
`Write` is `fwrite`: stdio keeps the bytes or finds the disk full; `Close` is
where a full disk shows at the latest. Characters get lost, corrupted or come
late; the user may kill the program. A negative size is one of the inputs
(`transfer.c:43` compares it with a `size_t`).

### UsartIrq and EchoChannel

`queue`, `head`, `qlen` are the ring, `rxdat`, `txdat`, `inten` the registers.
`Enter` to `NotReady` are the steps of `uart0_isr`; characters arrive and leave
between any two. `EchoChannel` is a queue that sends back what it accepted and
may discard only while it is full; `EchoesInOrder` states the refinement.

### Sct and the programs that use it

A register file is a record, a function of the library an operator on it; the
functions that come in threes (`sct_start_counter`, `_l`, `_h`) have the suffix
as a parameter, and an access without suffix reaches both halves of a register.
`Tick` is the timer: prescaler, counter, limits, reload, events, state and
outputs, as the programs need them. `SctCalls` lets it stand still and calls the
library in any order. In `SctPwm`, `AcmpDimmer`, `Piezo` and `SctBlink` the
timer is clocked while `main()` and the handler take their steps. Assumptions:
the handlers of piezo and sct, of some fifty instructions, end before the
period, or the limit of the same half, that comes next; the times are scaled
down (a second is a few periods).

### Pinint, PinintModes, PinintDemo

The registers are sets of pins. `PinintModes` calls the mode and clear functions
in any order, with edges between. `PinintDemo` has both handlers step by step,
the latches of the NVIC, and a button that is slow (`Bounces` FALSE: no edge
while a handler is due) or bounces at any moment.

### MrtDemo, WakeUp, WatchdogTest

`MrtDemo`: the three phases of the example, clock by clock; assumption: the
handler ends before its channel comes round again, so no interrupt falls between
stopping the channel and clearing the flag. `WakeUp`: flags that are cleared by
writing ones, deep power-down that ends in a reset, a reset button at any time.
A reset in the moments in which `main()` is about the flag and the register, at
its start and before the wfi, leaves the two in disagreement (`cut`): the
program cannot tell it from an error, and `NoFalseError` exempts it.
`WatchdogTest`: all six tests over the resets they cause, in microseconds, with
a button at any time and power-on with any contents of the RAM. `Rates` are what
the watchdog oscillator may run at. The delays of the program are computed for a
period within 40% of nominal (`wwdt.c:136-141`), that is for rates from 71.5% to
166.6%, which is what `MCInterrupts` has; the slower oscillators that the comment
of `clock_setup` allows, within 40% of the rate, are in the run
`watchdog_tolerance`. The main clock is within 1.5%. The oscillator is chosen
before the cause of a reset is known (`wwdt.c:44`): after the button during test
3, or power-on with 3 in the RAM, test 0 runs with the oscillator meant for test
4 and fails. `TestsPass` exempts this test, and what follows: the watchdog that
was too late for it resets `main()` out of its error loop (`Late`), which takes
the reset for the same error.

### I2cProximity, SpiBarometer, Pressure

Handler, `main()` and the bus take turns at every step. In `I2cProximity` a byte
may be refused and the bus lost; `state`, `next_state`, `busy` and the buffers
are shared as in the code, the missing `break` of line 338 included. In
`SpiBarometer` transmitter, shift register and receiver hold a word each, and a
delay or a printed line lasts until words and conversion are through.
`Pressure` is `calc_pcomp` and the scaling to kPa with C's shifts and
truncations; the reference is the exact formula of the comments.

### RomTest, I2cRom, SpiRom, FlashIap

`RomTest` says which call follows which: read a byte, write the device with
bytes counting from it, read it back in pieces of every size. `I2cRom` and
`SpiRom` make the calls, against a device that latches a page, wraps within it
and does not answer while it burns. Assumptions: an I2C device answers once it
is done burning; the delay after a write over SPI covers words and burning.
`FlashIap` goes through the sector block by block with a preparation before each
erase and copy, resets between and within commands, and flash that takes a copy
only in part.

### UsartClock, SysconClock

`UsartClock` has the width of each register and of an int as constants.
`SysconClock` takes the functions apart where the hardware sees the difference:
update bits that have to rise, a PLL that has to lock. Its caller is a careful
one: it does not switch off what it uses, gives the PLL a source that runs, and
does not select a PLL whose factors were refused. Divisors of the system clock are in
and out of range; one beyond 255 would lose bits in the register, and might stop
the processor, which `HasClock` would notice. The caller does not ask for 0,
which the function accepts and which stops the processor it runs on.

## What the runs show

| run | instance | shows |
|---|---|---|
| `download_1K` | 2 sectors, 1 KB of RAM, images of 0, 3, 5, 16, 21 and 33 pages, 2 faults, 2 runs | `IInv`, `SuccessMeansInstalled`, `CopyIsLegal`, `ErasedBeforeCopy`, `KeepsPromise` |
| `download_4K` | 4 KB of RAM, images of 0, 5, 18 and 33 pages, 2 faults, 3 runs, fair | `RunEnds`, `Recovers` |
| `session` | 4 tries, lines of 4 characters, 4 faults, loader in any mode, answers in time or late, fair | `TypeOK`, `Lockstep`, `SessionEnds`, `RetryHelps` |
| `upload` | 6 bytes of flash in pieces of 4, sizes -1 to 8, disks of 3 and 8 bytes, 2 faults | `SuccessMeansCopied`, `FileIsPrefix` |
| `sct` | halves of a counter of 4 values; sct_pwm and acmp with a period of 6, acmp with inputs below the ladder, in it and above it, rc_servo of 9 with widths 2 and 4, three tones of 8, 6 and 4 clocks, limits 2 and 3 with prescalers 3 and 2 | `OutputsAsPromised`, `Durations`, `GoesOn` |
| `interrupts` | mrt, wkt, wwdt (rates 715, 1000, 1400 and 1666 per mille, TESTNUM 0, 3, 4 or 255 at power-on, the button in any test), pinint (slow and bouncing), calls of `lib/pinint.c` for two pins, usart_irq with a ring of 3 and 8 characters | `TestsPass`, `WakesAsPromised`, `PhasesComplete`, `LedAsPromised`, `ModesAsTold`, `Conserved`, `Armed`, `EchoesInOrder`, `Drains`, `GoesOn` |
| `sensors` | two measured values, two conversions, small coefficients of every sign | `TransfersAreTrue`, `RepliesInPlace`, `Accurate`, `KeepsMeasuring` |
| `memories` | 8 bytes in pages of 2, one refused byte, one lost arbitration; 4 blocks of flash, 2 resets, one worn copy | `Stored`, `Passes`, `GoesOn` |
| `library` | fractions of 8, dividers to 7, ints to 127; PLL factors and divisors (-1, 2, 256) in and out of range; pins 1, 2, 4, two movable functions, two IOCON settings; three calls of `lib/sct.c` | `ClockIsClose`, `NeverSlow`, `HasClock`, `NoConflict`, `AsConfigured`, `CallsTakeEffect`, `HalvesApart` |
| `watchdog_tolerance` | an oscillator at 600 per mille of its rate | `TestsPass` is violated |
| `sct_resolution` | three calls of `lib/sct.c` | `ResolutionIsSet` is violated |

Bounds. Two sectors are enough to have one that is confirmed and one in work,
and an image of 33 pages does not fit. The lengths give an empty file, a part of
a sector, exactly a sector, a sector and a part; 3, 5 and 21 pages make the last
chunk longer than what is left, or end in each of the sizes of `Chunk`. One
image has blank pages inside. Two faults let one go unnoticed (a misread
answer) and another one happen on top of it; two or three runs let a run start
from what a failed one left. Four faults in a session cover losing several
'?' and then something in the handshake. Pins 1, 2 and 4 have two, one and no
fixed-pin functions, and two movable functions can compete. Eight characters
wrap a ring of three twice and overflow it. Three calls are enough to set a
mode, change it and touch the other half. A memory of four pages has a first
page that is written byte by byte and several that are not, and pieces that
cross one page boundary and more. Registers of a few bits reach every
combination of divider and remainder that wide ones do, and their limits.

`CHECK_DEADLOCK FALSE` is used where a program stops: a run that ended and is
not repeated, a session that is over, calls that are used up, an error loop.
TLC evaluates every `ASSUME`.

Fairness. `WF_vars(Host)` says that the host program keeps running: it never
blocks, since `read()` returns after 0.5 s at the latest (VMIN 0, VTIME 5,
`main.c:175-176`). In a session `WF_vars(LoaderChar)` says that the loader reads
its input. On the target it is assumed that the processor runs, that interrupts
are served, that a timer is clocked, and that a device ends what it has begun;
a handler and `main()` have conditions of their own, since the handler preempts.
Nothing is assumed about faults or the user except that faults are finitely
many. Where a user could hinder a program for ever by pressing reset, or has to
press a button for anything to happen, the property says so. `Recovers` speaks
of runs that start when no more faults can happen, and needs `Fits`: an image
larger than the flash fails.

## What is proved

`IspDownloadProofs` proves, for every number of sectors, either RAM size, every
set of images, any flash contents and any number of faults and runs
(`ConstantsAssumption`):

* `Inductive`: `Spec => []IInv`. `SuccessMeansInstalled` is not inductive by
  itself. `Confirmed` adds that the sectors below `sector` hold their part of
  the image; `Position` where the host is in file and buffer, which makes the
  chunk legal and keeps confirmed sectors out of reach; `ErasedBeforeCopy` is
  carried over the chunks of a sector; `InSync` says that lines are unread only
  between a misread blank check and the verification of the same sector, which
  they make fail, so they cannot reach the next sector. One lemma per action.
* `TypeCorrect`, `SuccessIsHonest`, `CopiesAreLegal`, `CopiesGoToErasedPages`:
  the properties of the runs, from `IInv`; `ChunkFits` is the arithmetic of
  lines 150-162.
* `Refinement`: `Spec => KeepsPromise`, step by step from `IInv`: erasing and
  copying are `Work` on the current sector, a verification that succeeds is
  `Confirm`, the end of the file is `Succeed`.

`IspSessionProofs` proves, for any number of tries and faults and any lines
(`SessionAssumption`), `Invariance`, `TypeCorrect` and `InLockstep`. `Lockstep`
speaks of one moment, the beginning of the transfer; the invariant follows host,
loader and line up to it in four parts, one for each kind of exchange. While the
host asks, any number of old answers may be on the line, but none with an "OK"
(`Asking`); once the loader has answered with one, nothing follows it and nothing
is left to read (`Synchronizing`); the echo of "A 0" shows that the loader has the
characters (`EchoOff`); and K and J are answered once, by at most the lines that
the host reads (`Commanding`).

`IspUploadProofs` proves, for every flash, sector, word and line size, size asked
for and disk, and any number of lost and corrupted characters
(`UploadAssumption`), `Invariance`, `UploadIsComplete` and
`UploadLeavesAPrefix`. The bytes of the file, of the buffer and of the line form
one sequence (`Ahead`), of which at most as many differ from the flash as
characters were lost or corrupted, up to the first torn code line. As long as no
code line was torn, an answer that has lost a byte of its data is too short to
be taken for a whole one, and one that has lost a character of its code line is
readable only if its data are complete (`AnswerInStep`): nothing is shifted.
From the first torn code line on nothing is claimed but the length of the file:
what is left of one answer may look like the code of the next (`00`, or a CR
before the 0), and more of the file is shifted without any further fault.

`LibraryProofs` proves the seven properties of the run `library`, for programs
that call one part of the library in any order.

* `PinTypesHold`, `PinsAreExclusive`, `PinsAreAsConfigured`, for every subset of
  the 18 pins and any set of movable functions (`PinAssumption`). `NoConflict`
  and `AsConfigured` are inductive only together (`MatrixInv`): `gpio_config`
  relies on a fresh pin having no movable function, which `AsConfigured` says,
  and both rely on a movable function being on one pin only.
  `CallKeepsMatrixInv` states what any call has to do; one lemma per kind of
  call shows that it does.
* `CallsAlwaysTakeEffect`, `HalvesAreApart`, for any number of calls and any
  width of a half counter (`CounterAssumption`). `CallsTakeEffect` speaks of the
  last call and is not inductive. `CallsInv` is: the registers with two halves
  are pairs at all times (`Registers`), a half is stopped or halted as it was
  last told (`Told`), and the two half counters make up the number last written
  (`Counter`), which for a write of both rests on quotient and remainder
  (`Parts`, `PartsOf`). `PairWritten` is what the functions of `lib/sct.c` that
  write one half, or both, of a register have in common; `Spares` says which
  half they leave alone.
* `FieldsAlwaysFit`, `NoOverflow`, `ClockCloseTheorem` and `NeverSlowTheorem`,
  for registers and integers of any width and any clocks and rates
  (`UsartClockAssumption`: a remainder times the fraction fits an int, which for
  32 bits means rates up to 8 MHz), from what is known of a quotient.
  `UsartsToo` carries the two promises of `UsartClock` to the composition.
* `AlwaysClocked`, for every set of PLL factors and divisors and any number of
  calls: `DivisorInv` follows the divisor of the system clock, and `PllInv`
  relates what is selected, what is in effect and what is powered at each
  statement of `enable_pll` and of the two functions that select a main clock;
  `HasClock` speaks of the time between two calls and is not inductive.

`SensorsProofs` proves, for any 16-bit measurements (`SensorsAssumption`),
any order of `main()`, handler, bus and conversions, and any refused byte or
lost bus:

* `TransfersAreAlwaysTrue`: the invariant `I2cInv` lists the stages of a transfer
  that writes a register, selects one or reads one, with what is left in the
  buffer, what is on the wire and where the sensor is at each; a fault leads to
  `Faulty`, out of which only the report to `main()` leads. Which registers of
  the sensor are set, and that the word is of registers 133 to 136, follows from
  the stage.
* `RepliesAreAlwaysInPlace`: `SpiInv` counts words. What has not left buffer,
  register and wire gives the number of words that have (`Done`), hence the word
  under way, the command the sensor answers and the place of the answer; that no
  reply comes without room follows from there being one for every second word.
* `CompensationIsAccurate` and `NothingOverflows`, for every calibration of 16-bit
  registers and every 10-bit conversion (`PressureAssumption`): each division
  rounds down by less than one unit of its place, and `Rounding` and
  `ScaleIsClose` add these up to two sixteenths of a count and a sixteenth of a
  kPa. `PressureToo` says the same of the composition that the run checks.

`InterruptsProofs` proves, from `InterruptsAssumption`:

* `TestsAlwaysPass`, for every watchdog oscillator whose period is within 40% (a
  rate of 71.5% to 166.6%; `watchdog_tolerance` shows that less is too slow),
  every main clock within 1.5%, any contents of the RAM at power-on, and any
  number of resets by the user in any test. `WwdtInv` says which test a reset
  ended, and in a test that the watchdog has counted the delays so far;
  `TestsAreGood` bounds the ticks of a delay at the ends of the two tolerances, so
  that a feed is neither late nor early and the time-out comes before the last
  wait is over. Test 0 with the slow oscillator (`OddTest`) is fed in time and
  fails at its end, which is the exemption of `TestsPass`.
* `AlwaysWakes`: in `WktInv` the clock of the timer follows the count, an alarm
  that waits has stopped the counter, and the power-down flag and PMU_GPREG0 agree
  at the start of `main()`, unless a reset cut it off between the two.
* `PhasesAreComplete`, for every length of the intervals and every number of
  stalls. In a round of interrupts `MrtInv` ties the count to the LED and to the
  channel (`Round10`): up to the ninth interrupt it runs and has a next interval,
  at the ninth the handler takes that away while the last one runs, after the
  tenth it is at rest. Outside the round the channel is idle, and a channel that is
  polled runs until its flag is up. That a flag is never up for a whole interval
  is a guard of `Clock`: the handler is some fifty instructions long.
* `ModesAreAsTold`, for every set of pins and every sequence of calls and edges.
* `CharactersAreConserved`, `WaitingIsArmed` and `EchoIsAChannel`, for every size
  of the ring and any number of characters. `EchoInv` adds to `Conserved` and
  `Armed` what the handler holds while it runs: until it uses the mask and the
  status it has read, the receiver stays full and the transmitter empty
  (`Snapshot`), and the write pointer is the slot behind the last character
  (`RingPointers`); that the slots of the ring are distinct is `RingSlots`. For the
  refinement the ring is turned into a sequence: `Put` appends to it, all other
  steps of the handler leave it alone, and only the transmitter shortens it.
* `LedIsAsPromised`: the number `n` of edges, modulo 36, that are served determines
  the state of the example pinint, and `DemoInv` says how: the registers
  (`InMode`), the two counts (`Counted0`, which restarts at -1 in the
  rising mode, and `Counted1`), and the LED (`LedOn`). Either all edges are served (`AtRest`) or
  the last one is in one of three stages: its interrupt is pending (`Due`), counted
  by `pinint0_isr` with the flags still up, perhaps those of the next mode
  (`Clearing`), or counted by `pinint1_isr` with the slice still to be set up
  (`Resting`). `LinesAre` gives the interrupt line from the registers, `FallIs`
  and `RiseIs` what an edge does to them, and `OneMore` ties `LedOn` to the number
  of edges that toggle. The program has no constant: the theorem says what the
  run visits, and the invariant why it holds.

`SctProofs` proves `TimerOutputs` and `TimerDurations`, for a counter of any width
and for every period, number of steps, width, list of tones, limit and prescaler
that fits (`SctAssumption`: a period fits the counter, a width is inside its
period, and the tone of a note differs from that of the next). The promises are about whole
periods, so the invariants say where a program is within one:

* One clock of a timer that counts up is said once (`Up`, and the lemmas about
  `Timer!Tick`): the match and reload registers, the state and the outputs after
  it, from the events that happen. The calls of `sct_setup` are followed one by
  one to the registers they leave.
* `DimmerInv` and `PulseInv`: since the beginning of the period the output and the
  clocks counted with the output high are as the counter and the width say that
  the period began with; the matches are loaded only with the end of a period, so
  that a width written meanwhile waits. With the width 0 the dimmer's two events
  come at once, and the output stays as it was when the period began (`began`),
  which is part of the promise (`Pulse`). `PulseInv` is shared by sct_pwm and
  rc_servo; a pulse comes first or last in the period (`First`), and a period in
  which input 0 fell, which has parts of both widths, is not `pure`.
* `PiezoInv` has two modes. While a tone lasts (`SameTone`) the periods heard and
  those that the handler has left to count add up to a second, one more while the
  handler is due. In the last period (`NextTone`) the handler replaces the two
  reload registers one after the other, and both are there before the period ends.
  `HalfAndHalf` holds across the change because the two are loaded with the same
  limit.
* `BlinkInv`: for each half, the clocks since its limit are its counter times its
  prescaler and the prescaler's phase, and a toggle is owed just when the flag is
  up; the handler clears only flags that it has seen, also when the other half has
  its limit between its two tests.

That every event is served before the next one of its kind is a guard of the
two `Clock` actions, as in the runs.

`MemoriesProofs` proves `StoredAlways` and `PassesAlways`, for devices, pages and
pieces of any size the program admits, any number of values of a byte and blocks
of flash, and any number of refused bytes and lost arbitrations of the EEPROM
over I2C, and of resets and worn copies of the flash (`SizesAssumption`,
`MemoriesAssumption`). The argument has three layers.

* The test (`TestOK`): what `main()` has written so far ends at a multiple of a
  page, and what it has read back at a multiple of the piece, so that the last
  piece is what is left (`NextTest`); one write never reaches into the next page
  (`NextInPage`).
* The device (`Holds`): with the latch burnt (`Now`), it holds what the calls so
  far have written and the first bytes of this one. Each byte latched adds one
  (`LatchedByte`, `WritesOne`), burning changes nothing (`EmptyLatch`), a call
  that ends hands over to the next (`HoldsOn`), and what a read finds is what the
  comparison expects (`ReadMatches`).
* The two wires: `I2cInv` says for each place where the functions of i2c_rom wait
  what bus and device are doing; `SpiInv` counts the words that the device has
  taken (`Taken`), which is up to two behind the program, and derives from the
  count the state of the device, and for a read that a byte which arrives is the
  one waited for. A device burns only while nothing is sent, over SPI by the
  delay, over I2C because it does not answer.

`IapInv` does the same for the flash: the blocks before `i` hold the test data and
those behind are blank, as long as no copy was refused.

Model-checked only: liveness, which needs fairness and ENABLED, out of the
prover's reach (`RunEnds`, `Recovers`, `SessionEnds`, `RetryHelps`, `Drains`,
`KeepsMeasuring`, `GoesOn`). Every invariant of a passing run is a theorem.

## Where code and text disagree

`sct_resolution`: `sct_set_conflict_resolution` reads `SCT_RES` and writes the
result to `SCT_OUTPUTDIRCTRL` (`lib/sct.c:424`), which `sct.h:67` describes as
another register. The resolution stays as it was and the directions change.

`watchdog_tolerance`: the comment of `clock_setup` gives the oscillator's rate as
2.3 MHz, more or less 40% (`wwdt.c:48`); the delays of the tests are computed
with 40% of its period (`wwdt.c:140`, 172). At 60% of the rate test 0 needs
742 us and waits for 640, so that a watchdog that works fails it.

Met while modelling, and kept in the models as the code has it:

* `sct_setup_event` sets the event's bit in the capture register, not in its
  control register (`lib/sct.c:588`); no program sets up a capture.
* With the input at its lowest, acmp puts both matches on one clock
  (`acmp.c:155`), and the output stays as it is: dark, unless the input was at
  the top before, in which case the LED stays fully lit (`Pulse`).
* `wait_i2c_state` returns the state it found for an error, and that of a master
  that lost arbitration is 0, the value of success (`i2c_rom.c:235`); `Stored`
  and `Passes` speak of runs without lost arbitration.

## Not modelled, and what is left

* Corrupted requests in `IspDownload`, as a variant with its own run.
* Slaves of SPI and I2C, captures and halts of the timer: nothing calls them.
* Register wrappers of one access (nvic, crc, flashcon, systick, scb, and such
  functions of the other drivers), headers beyond what the models use, start-up
  code and linker scripts.
* Option parsing and the device table of usart-util, and ISP commands that
  nothing calls.
* Examples that are straight-line code without a handler (usart, rom_api,
  systick, flashcon, crc, button, fancyblink), and the third-party code in crc/pattern.
