# Formal model of the MM firmware and its hardware

MM is the controller of an Avalon mining unit: a LatticeMico32 soft core on an
FPGA runs `src/firmware/`, next to the blocks of
`src/verilog/superkdf9/components/`. A host sends it stratum jobs over a serial
line; it generates works (one per value of *nonce2*), hands them to the ASICs
through the `alink` block, checks the nonces that come back and keeps the good
ones for the next poll of the host.

This directory holds TLA+ specifications of that system, the TLC configurations
that check them on small instances, and theorems that TLAPS checks for every
value of the constants.

    tlc -workers 2 -config MinerManagerJobs.cfg MCMinerManager.tla
    tlapm MinerManagerProofs.tla

## 1. Inventory

| Component | State | Operations | What makes it correct |
|---|---|---|---|
| main loop (`firmware/main.c`) | `g_new_stratum`, `g_local_work`, `g_hw_work`, `mm_work`, the local `work`, the result ring `ret_buf`/`ret_produce`/`ret_consume` | `get_pkg`, `decode_pkg` (11 package types), `polling`, `read_result`, the loop of `main` | nothing is hashed or reported for the wrong job; a stopped module has nothing queued; shares leave in order and once |
| work generation and check (`miner.c`) | none of its own; reads `mm_work` | `miner_gen_nonce2_work`, `miner_init_work`, `test_nonce`, `get_asic_freq` words | a work is built from one whole job; a nonce passes only for the job it was found for |
| alink driver (`alink.c`) | none; the registers of the block | flush, send a work, read a result, idle the ASICs, core test | a result is read from where a report begins; the core test and the idling reach the miner they mean, and return |
| alink controller (`alink/*.v`) | TX FIFO (1024 words), RX FIFO (512 words), one PHY per ASIC chain with its task timer, `reg_tout` | arbiters `txc`/`rxc`, `tx_phy`, `rx_phy`, `tx_timer` | each work goes to one PHY, each report carries the task it is of, reports lie whole in the FIFO, every task ends |
| UART driver (`uart.c`) | receive ring `rx_buf`, `rx_produce`, `rx_consume` | `uart_isr`, `uart_read`, `uart_read_nonblock`, `uart_write` | bytes are read in order and once, none stays in the FIFO |
| interrupt dispatch (`sdk/intr.c`, `sdk/intr.h`, `sdk/crt0ram.S`) | pending and mask registers | `isr`, `irq_*` | no interrupt is lost or stays pending |
| seconds timers (`timer.c`, `twi.v`) | two count-downs, masks, done flags, in one register | `timer_set`, `timer_read`, the mask functions, two handlers | a timer is over on time, no expiry is lost, whatever is done to the other one |
| watchdog (`twi.v`, `twipwm.c`) | `wdg_en`, `wdg_cnt` | `wdg_init`, `wdg_feed` | a stuck loop is reset |
| voltage shifter, GPIO (`shifter.c`, `voltage_encode.c`, `shift.v`) | `g_voltage` and `led` in RAM, the shift unit, the external shift registers, the reset line | `set_voltage`, `gpio_led`, `gpio_reset_asic`, `clko_init` | the ASICs see no voltage that was not asked for, and are reset before they are used |
| TWI master, sensors, fans (`twipwm.c`, `twi_core.v`) | a byte-wise bus engine | `read_temp`, `write_pwm`, `rd_fan_cnt` | |
| SHA-256 core and driver (`sha/*.v`, `sha256.c`) | the initial value, `A..H`, the block begun, the done flag, the copy for the double hash | `sha256`, `dsha256`, `dsha256_posthash`, `sha256_midstate`, `sha256_precalc` | each call returns the hash of its own message; the driver goes on only when its block is compressed |
| host and chain | the stratum upload | `doc/protocol.md` | external |

How they interact. The firmware has one thread and one interrupt handler in use
(`uart_isr`); those of the timers exist and are tested by a program of their own.
Thread and handler share the receive ring without a lock. Everything else that
runs beside the loop is hardware reached through registers: `alink` takes works
and delivers reports on its own, the hash unit compresses and the shift unit shifts
while the driver polls a flag, the seconds timers count down, the sensors and the
watchdog are polled. A reset of the FPGA restarts the firmware but leaves the
external registers and `.data` as they are. The loop calls `get_pkg()` at three places; a package
handler runs to its end but may change everything the loop has decided before:
at the head of the loop, *between generating a work and sending it*, and between
two results.

What is hard here. (1) The second `get_pkg()`: a complete upload with its
`P_STATIC`, its flush and its `P_SET` fits between the generation of a work and
its sending. (2) A share's job id and pool number are read at two later moments
than the work was built. (3) A job is written in place, package by package, and
packages are dropped when their CRC is wrong. (4) Both rings advance without a
test for full, and one of them is filled by an interrupt. (5) Stopping happens in
four handlers (`P_STATIC`, `P_DETECT`, silence, heat) and starting in one.
(6) nonce2 wraps at 32 bits. (7) A package cut short leaves the loop spinning in
`uart_read()`. (8) `get_pkg()` keeps its search in static variables and must find
the next package after any loss. (9) In the alink block a PHY can become free, be
selected and get a task while it still pushes a report of the task before; all
timers compare with one register; two PHYs may report in the same moment. (10) One
register carries both timers, and every write concerns the two. (11) One done flag
serves blocks and double hashes. The full list, at its lines, is under `hazards` in `PROJECT.json`.

## 2. Modules

| Module | Models | Role |
|---|---|---|
| `MinerManager` | `main.c`, and `miner.c`, `alink.c`, the timer and `alink/*.v` as the loop sees them | the core |
| `PkgFramer` | `get_pkg()` byte by byte, on a lossy line and the receive ring | from bytes to packages |
| `UartRing` | `uart.c`, `intr.c`, the UART's FIFO and the LM32 interrupt register | interrupt handler against reader |
| `Alink` | `alink/*.v` clock by clock, and the accesses of `alink.c` | tasks out, reports in |
| `AlinkTest` | `alink_asic_test()` and `alink_asic_idle()` | composed with `Alink` |
| `Timers` | the TIME register of `twi.v`, `timer.c`, `isr()` with both timer handlers | read-modify-write against a handler |
| `Voltage` | `set_voltage()`, the GPIO and clock functions, `shift.v`, the external registers | power and reset of the ASICs |
| `Sha256` | `sha256.c` against `sha.v`, `dbl_sha.v`, `sha_core.v` | driver against a unit that works on its own |
| `Watchdog` | the WDG register of `twi.v`, `wdg_init`, `wdg_feed` | one question of its own |
| `LossyRing` | what both rings of the firmware promise | abstract specification |
| `MiningService` | what a module promises to its host | abstract specification |
| `TaskDispatch` | what the alink controller promises to its driver | abstract specification |
| `PkgChannel` | what `get_pkg()` promises to the handlers | abstract specification |
| `RingWindow` | the items between two ring indices | refinement mapping of both rings |
| `MCMinerManager`, `MCPkgFramer` | | symmetry and payloads for TLC |
| `MinerManagerProofs`, `PkgFramerProofs`, `RingWindowProofs`, `UartRingProofs`, `AlinkProofs`, `VoltageProofs`, `TimersProofs`, `Sha256Proofs` | | theorems |

How they are composed. `UartRing` implements `LossyRing` through `RingWindow`;
`PkgFramer` takes its bytes from a `LossyRing` and implements `PkgChannel`: packages
in their order, none twice, any of them may be missing. That is the assumption
`MinerManager` makes of the line: its handlers take whole packages, and `BadCrc` is a
missing one. `MinerManager` implements `LossyRing` a second time, with its result
ring, and as a whole it implements `MiningService`, which is all the host can see.
`Alink` implements `TaskDispatch`; `AlinkTest` EXTENDS `Alink` and adds the program on
top of the block.

### MinerManager and the code

`pc` is where `main()` is: `top`, `window` and `inner` are the three calls of
`get_pkg()` (main.c:402, 423, 433), `check` the test of the timer and the sensors
(405), `gen`, `send` and `read` the parts of the loop body. At a `get_pkg()` site
any number of packages is taken; `NoMorePkg` is its return with an empty receive
ring and `BadCrc` a damaged package: `get_pkg()` returns when the CRC is wrong, and goes
on when it never recognises the package. Each package type is one
action: `Detect`, `Static`, `Part` (P_TARGET, P_JOB_ID, P_COINBASE, P_MERKLES,
P_HEADER: each stores one part of the job), `Set`/`SetRefused`, `Polling`, `Test`,
and `OtherPkg` for those that change nothing here. `Set` and `Polling` set the voltage the
host asks for, which may be none. `Test` keeps the works that are queued and those whose PHY
stays busy, and leaves any reports behind. `PowerOff` is the body of the `if` at main.c:405;
the PHYs its idle tasks keep busy report nothing, and are free here.

A job is abstracted to *which job each part of the buffer was last written by*
(`mw`). A work carries a snapshot of that, its nonce2, and the pool number that
`miner_init_work()` stores when the work is *sent*. `test_nonce()` rebuilds the
work from the buffer as it is when the result is read, so a result can pass only
if its content is what the buffer holds now (`Verified`). A hardware error can be
found for any result.

The alink block is a queue of whole works, one task for each PHY and a queue of
reports. `Flush` empties all three: it clears both FIFOs and resets the PHY
timers, and a PHY whose timer does not run drops what its ASICs report. Each work
takes `WorkWords` words of the FIFO; the loop generates while fewer than
`TxThreshold` words are queued (main.c:417). A report that finds the RX FIFO full
is not stored.

History variables (`lost`, `damaged`, `session`, `issued` and the fields `clean`
and `session` of a work) are read only by properties; `session` and `lost` also
carry the bounds `MaxSessions` and `MaxLost`. `clean` says that no package of the
upload was damaged, since the protocol has no retransmission: after such a loss
the code itself cannot tell, and the properties say nothing.

The host uploads in the order `protocol.md` gives. It may start a new upload at
any moment, poll and test at any moment, and stop for ever (`"death"`).

### UartRing and the code

The handler is three steps (`IsrTest`, `IsrStore`, `IsrAck`), since bytes arrive
between them; the main loop does not move while it runs. `uart_read()` is three
steps as well (`ReadTest`, `ReadCopy`, `ReadAdvance`), since the handler may run
between them. `uart_write()` saves and clears the mask (`WriteMask`) and restores
it (`WriteByte`). The interrupt line is a level latched into the pending register
(`Pend`): it sets the bit again while the FIFO holds a byte. Bytes are numbered in
the order of the line so that order and duplication can be stated. The masking
`& (SIZE - 1)` of the code is `% Size`; no property depends on a power of two.

The abstract queue takes a byte when `uart_read()` *finds the ring not empty*, not
when it advances `rx_consume`: `Taken` is the index as it will be.

### PkgFramer and the code

`pc` is whether `get_pkg()` runs: `out`, at the `test` of its loop, in `uart_read()`.
`Read` is one turn of the loop: the byte goes into `g_pkg` or into the search for
`'A' 'V'`, and the last byte of a package ends in `decode_pkg()` or in the return of
the function. `pre_last`, `last`, `start` and `count` are its static variables; they
survive `Leave` and `Call`. The host sends package after package; `Lose`
and `Damage` strike single bytes, and `Ring!Put` empties the ring when it fills up.
The code sees only the value of a byte (`"A"`, `"V"` or something else); which package
it belongs to and where is history, except that the checksum is taken to match
exactly when the bytes it covers are undamaged and of one package.

### Alink and the code

Every register of `txc.v`, `tx_phy.v`, `tx_timer.v`, `rx_phy.v` and `rxc.v` has its
variable, and `Clock` gives all of them their next values from their present ones; in
each clock the firmware makes at most one access (`alink_send_work`,
`alink_read_result`, `alink_flush_fifo`, or none). A task is one element of the TX FIFO
instead of 23 words, its number is its id, and the transmitter takes any time for
hash and nonces; a report is five words of the RX FIFO because its words can mix.
The ASICs end reports whenever they like (`stop`). `own` and `told` are history.
The timer of a PHY has 26 bits (tx_timer.v:13) and the PHY is free when it equals the lowest
26 bits of the timeout (:31). `Touts` are timeouts below 2^26, where that is the same, and
0x2fffffff of the idle tasks, which acts as 2^26 - 1; the timeouts above 2^26 that
frequencies below some 43 MHz would give are not modelled.

Seen as `TaskDispatch`, a task leaves the queue when the last word of its id is out and
the timer of its PHY starts (`Given`), although it lies in the FIFO until its last bit is
sent, and a PHY has the task as long as it is busy (`TaskOf`). A report has the id that the
receiver holds while it pushes it (`ReportOf`). One clock of the block is one step, since
all PHYs change in the same clock.

What the model makes visible, and the properties say: two PHYs that report within five
clocks mix their words in the RX FIFO, and every later report is read from the wrong
word until the next flush (rxc.v:88; hence `collided` in `Aligned`). A `P_POLLING`
may change the frequency, hence the timeout, without a flush (main.c:222), and
the core test writes a timeout of its own: a PHY whose timer is past the new
value stays busy until a flush or a task with a longer timeout (tx_timer.v:22; hence
the second disjunct of `FreedOrOvertaken`).

### AlinkTest and the code

`what` is the function that runs and `pc` its next access: the mask, the task, the two
polling loops, the delay, the result. The timing of the code is an assumption
(`TimingAssumption`) and stated in the module: a transmission takes some 27 840 clocks
and a test 65 535, `delay(1)` takes 100 000, an idle task 2^26 - 1. The first test of
each miner goes to the PHY the arbiter had selected *before* the mask
changed (txc.v:78-81), although alink.c:368 says "Enable i miners";
`OnlyFirstStrays` bounds that to the first one, for a test called when nothing was queued,
in transmission or running (`quiet`, history). The host may ask for a test at any other
time as well, while works are mined or while the idle tasks of a power-off run
(main.c:254), and `CallTest` has no guard against it: then tests queue behind busy PHYs
while the mask moves on, and any of them may reach another miner. TLC finds a counterexample
to `OnlyFirstStrays` without `quiet`. What still holds then is that the functions return
and that a later `alink_asic_idle()` reaches every miner. That `asic_test_work()` does not
look at the space in the TX FIFO is not modelled.

### Timers and the code

Each function of `timer.c` is two steps, `ReadMask` and `WriteBack`, a clock or more
apart, and the handler (`Interrupt`, `CleanRead`, `CleanWrite`, `IsrAck`) may come in
between. `Clock` is the register of `twi.v` in one clock: a count, its delayed copy, the
flag that is set when the count has just become 0 and wins over a clear, the masks that
any write replaces. A second is `OneSec + 1` clocks. `armed`, `age`, `owed` and `served` are
history: the last load, the clocks since, an expiry not yet seen, that the handler has
served a timer since a mask of the other one was asked for.
`timer1_isr()` acknowledges `IRQ_TIMER0` (timer.c:91), so that the handler is entered for
ever once the second timer's interrupt is pending and enabled (`TimerOneHolds`);
`ProgramGoesOn` says that nothing else holds the program up, with both interrupts in use.
`timer_int_clean()` of one timer writes the mask of the other as 0 (timer.c:69-75);
`MaskLostToHandler` says that a mask is lost in no other way, and none comes back. The
firmware enables neither interrupt in its main program.

### Voltage and the code

`pc` follows `set_voltage()` write by write and poll by poll; `ShiftDone`, `StorePulse`
and `StoreDone` are the unit and the registers it drives. `Reset` strikes at any
moment: outputs off, firmware anew, `led` (.bss) cleared, `g_voltage` (.data) and the
external registers kept. Because `g_voltage` survives, the core test at boot may run
without power: `set_voltage(ASIC_CORETEST_VOLT)` (main.c:394) returns at once if that
was the voltage before the reset. The call with `ASIC_0V` that follows restores the
agreement, which is what `Agrees` says. The host chooses the whole LED byte
(main.c:226-227), and its bit 1 is the reset line: a byte with that bit set leaves out the
pulse of `gpio_reset_asic()`, which ORs and writes that byte (timer.c:108-115). `heldUp`
remembers that, and `ResetBeforeUse` excepts it. Assumed of the values: the low three bits
of a voltage are 0 (bit 1 would start a store during the shift).

### Sha256 and the code

A function is a sequence of statements (`Statements`): the initial value, the blocks of
`sha256_update()` and `sha256_padding()`, the reading of the hash. Each makes a number of
register accesses (`Accesses`), one at a time; `Call` begins a function, `Finish` and
`Stream` are the unit, which goes on by itself. Hashes are
symbolic: an initial value and the blocks compressed into it; words that do not make up
a block or a hash in their order are `Junk`. `load_hash` has the words in the order they are
written; `sha256_precalc()` gets its words from the last to the first, as `rev()`
(miner.c:211) left them, and turns them round. So the order of words, the padding, the
lengths, the initial values and the timing of the flag are checked, and the
rounds of the compression function are not.

### Watchdog and the code

One register holds the enable bit and the counter; a write stores both. The model
follows the two `always` blocks of `twi.v` clock by clock.

## 3. Runs

| Run | States | Question |
|---|---|---|
| `jobs` | 4 397 052 | two jobs replacing each other, with one damaged package |
| `nonce2` | 22 568 | two `P_SET`, a partition that begins at the last value of the word and wraps |
| `live` | 638 112 | results that fill the ring, core tests, a host that dies, sensors that turn hot |
| `framer` | 3 507 138 | four packages on a line that loses or damages a byte, a ring that overflows |
| `uart` | 34 202 | the receive path, FIFO and ring overflowing |
| `timers` | 589 265 | both timers and their interrupts against the functions and the handler |
| `voltage` | 6 023 | a change of the voltage, LED bytes with and without the reset bit, a reset of the FPGA at any moment |
| `sha` | 22 190 | any sequence of calls on the hash unit |
| `alink` | 556 935 | two PHYs, three tasks of two timeouts, three reports, a flush |
| `alink_test` | 1 005 271 | core test and idling of three miners at any moment between works |
| `watchdog` | | violated: see section 6 |

* `jobs`: `OneJob` (an upload stops the module; the buffer, the work in hand and
  every task that may be reported belong to one job), `StoppedMeansDrained`,
  `WholeJob`, `ShareMatchesJob`, `TypeOK`, and `MinesForHost` (the loop implements
  `MiningService`: mining a job follows a stop, a share that waits keeps its job whatever
  is uploaded before it is fetched).
* `nonce2`: `StaleBound` (the hazard of the second `get_pkg()`: at most one work of the
  former session can get into the flushed FIFO, and it is alone), `Nonce2Fresh`, `OwnPartition`.
* `live`: `RingIsQueue` (the result ring implements `LossyRing`: in order, once, and all
  shares lost when the last slot is filled, which the run reaches), `SilenceStops`,
  `HeatPowersOff`.
* `framer`: `Channel` (`get_pkg()` implements `PkgChannel`, although `g_pkg` still holds
  the former package while it is refilled), `LocksOn` (a fault costs its package and at
  most the next one, unless that one has a header in its data), `TypeOK`.
* `uart`: `RingIsQueue`, `ReadsOldest`, `InOrder`, `NoByteForgotten`, `TypeOK`.
* `timers`: `Accurate` (a timer of n seconds is over after more than n - 1 and at most n,
  and what `timer_read()` returns is right in between), `ExpiryKept` (no expiry is lost to
  a write or to the expiry before it), `MaskLostToHandler` (a mask is lost to the handler of
  the other timer only, and none comes back), `ProgramGoesOn` (only the second timer's
  interrupt holds the program up), `TypeOK`.
* `voltage`: `NoOtherVoltage`, `Agrees` (`g_voltage` is what the host is told),
  `ResetBeforeUse`, `CallReturns`, `TypeOK`.
* `sha`: `Correct` (against the padding of FIPS 180-4, and `dsha256_posthash()` the same
  as `dsha256()` over the whole message), `WaitsForItsBlock`, `CallReturns`, `TypeOK`.
* `alink`: `Dispatches` (the block implements `TaskDispatch`: tasks in order, each to one
  free PHY, each report with the task its PHY had when it began), `Aligned`,
  `FreedOrOvertaken`, `TypeOK`.
* `alink_test`: `GatesAll` (idling reaches every miner, whatever was queued or running) and
  `OnlyFirstStrays` (a test reaches the miner it means but for the first one of each, if
  nothing was queued or running at the call); both say that the functions return although
  they poll without a timeout, whenever they are called.

Every property is shown to depend on the code by at least one mutant of a mapped
definition (`mutants` in `PROJECT.json`).

### Bounds, and why they are enough

* `MinerManager`. Two jobs: every confusion the properties speak of is between a work's job and
  another one. Three parts besides target and id: static, coinbase, header. The
  merkle packages are handled like the header ones (`Merkles = 0` in the runs; the
  proofs have no such bound).
* One PHY: PHYs share only the FIFOs, and the invariants quantify over PHYs. The
  theorems hold for any number.
* `TxThreshold` 1 lets one work wait, 24 lets two (`nonce2`, `live`); the code's value
  lets several. Only `StaleBound` speaks of two works in the FIFO.
* `IDLE_TIME` 1 or 2 seconds. The timer is reloaded by every package, so its
  length only repeats states.
* `Word` 16 with an offset of 12, so the partition of module 1 begins at 15, the last value,
  and wraps to 0 and 1; `Nonce2Range \div Modules` is 3 and exceeded. Elsewhere nonce2 does not matter
  and `Word` is 1. `RxResults` is 0 in that run because reports touch nothing it
  asks about.
* Rings of 2, 3 and 4 slots overflow in the runs and empty in the middle of a read. The
  result ring of `live` has 3 slots and `MaxLocalWork` lets three shares be found, so the
  third one fills it.
* `PkgFramer`: packages of 5 bytes, two of them data: a header in the data, or its halves in the
  wrong order, which the neighbours can complete to one when bytes are lost. Four
  packages and one fault: the one it hits, the next, and two that must be found again.
  The ring of 3 is shorter than a package, so it overflows in the middle of one.
* `Alink`: two PHYs can collide; a FIFO of 11 words holds two reports and one word, the
  case in which the test for space matters. The shorter timeout is less and the longer
  more than what the transmitter needs for the next task, so a timer can be overtaken.
* `AlinkTest`: three miners, so that "the one before" differs from "the first"; two
  works of the main loop before the call, one running and one selected or queued. Ten tasks
  are an idling, a test and a work, or a test and both works, in any order.
* `Timers`: both interrupts in use; a second of 3 clocks leaves room for a read and a write in different seconds
  and in the same one; the clock counter starts anywhere.
* `Voltage`: the chain of five registers of the board, two voltages besides 0, a LED byte
  with the reset bit and one without.
* `Sha256`: lengths on both sides of 55/56 bytes in the first block and of 119/120 in the
  second, and whole blocks; any sequence of calls, since the state after a call is one of a few.
* `MaxSessions`, `MaxLost`, `MaxLocalWork`, `MaxBytes`, `MaxPkgs`, `MaxFaults`,
  `MaxTasks`, `MaxReports`, `MaxFlushes`, `MaxWorks` cut off repetition.
  Nothing in the liveness runs is reached only by exceeding one of them: a step cut
  off by a bound is a step of the host or of the ASICs, which owe nothing.

Symmetry under permutation of jobs is used by the safety run only.

### Fairness

* `MainStep` of `MinerManager`, weakly: the loop has no blocking call among its
  modelled steps, and a `get_pkg()` site returns once the line is slower than the
  processor, which at 115200 baud it is. The blocking `uart_read()` inside a
  package cut short is the subject of `Watchdog`.
* `Second`: the clock ticks. `TaskTimeout`: a chip searches a bounded range of
  nonces, so a task stops reporting.
* `UartRing`: the level is latched (`Pend`), the handler runs to its end
  (`IsrStep`), the transmitter takes a byte in the end (`WriteByte`), each weakly.
  `Interrupt` is strong, because `uart_write()` may mask it again and again: the
  processor tests `ip & im` in every cycle, hence between two calls as well.
* `Timers`: the handler goes on (`IsrStep`, weakly), and so does a function it
  interrupts. `WriteBack` is strong because the handler takes the processor away in
  between again and again, and gives it back.
* `Voltage`: the unit ends a shift and a store pulse, and `set_voltage()` goes on, weakly.
* `Sha256`: the driver, the 64 rounds and the streaming go on, weakly.
* `Alink`: the clock does not stop (`Tick`). `AlinkTest`: the running function makes its
  next access.
* The host, the line, the sensors, the ASICs' nonces and the resets are never assumed
  fair.

## 4. What is proved

All theorems hold for every value of the constants that the named assumptions
allow (`JobAssumption`, `PartAssumption`, `RingAssumption`, `FifoAssumption`,
`TimeAssumption`, `NonceAssumption`, `BoundAssumption`, `TaskAssumption` in
`MinerManager`; `SizeAssumption`, `FifoDepthAssumption`, `MaxBytesAssumption` in
`UartRing`; the parameters of the other modules in the assumptions they name). TLC
evaluates the assumptions in each run.

`MinerManagerProofs`:

1. `TypeCorrect`.
2. `Drained`: `StoppedMeansDrained` is inductive with the type invariant. The
   crucial case is a package in the window: `StillMining` keeps the loop from
   `send` once a handler has stopped it.
3. `StaleBounded`: in `StaleBound`, `StaleAtMostOne` is not inductive by itself: a step from `window` could
   append a stale work behind fresh ones. `OvertakenAlone` is the strengthening:
   a work in hand that `P_SET` overtook finds alink empty.
4. `MinesOneJob`: the upload invariant. An upload in progress whose packages all
   arrived implies that the module is stopped, and the parts received are its parts.
5. `WorksAreWhole`: needs 2 and 4; a work in hand is whole because it was built
   while mining.
6. `PoolsKnown`: every task that may be reported has the pool number of the
   buffer; `P_STATIC` changes that number and flushes in the same handler.
   `OneJobAtATime` gathers 4, 5 and 6.
7. `SharesMatch`: from 4 and 6. A result that passes `test_nonce()` has the
   content of the buffer, which is one job with one id.
8. `RingRefines`: `Spec => ResultRing!Spec`. `PollTakes` and `ResultStored` say what a step
   does to the shares that wait, `RingSteps` that no other step touches them.
9. `ServiceRefined`: `Spec => Service!Spec`. What is mined is the job of the buffer while
   the module mines an undamaged upload. `MinedSteps`: it changes by a stop, by a start and
   by damage, and a start meets a stopped module because an upload in progress keeps it
   stopped (4). A result is read while the module mines (2), so a share is for the job
   mined (7), and tagging shares with their jobs commutes with the queue (`TagsFollow`).
10. In a session the values of nonce2 sent are a row that begins with the first value
   of the partition, or with the second if a work was overtaken, and `nonce2` is the value
   after it (`Nonce2Inv`; the number of values sent is counted along, so that the row is
   known to be full before it repeats). Modulo an arbitrary word this gives `NeverTwice`
   (`Nonce2Fresh`) and `StaysInPartition` (`OwnPartition`); `PartitionsDisjoint` adds that
   the partitions of two modules share no value.

`UartRingProofs`:

1. `TypeCorrect`.
2. `RingRefines`: `IsrStore` is `Put` (`StorePuts`), `ReadTest` is `Get`
   (`TestTakes`), everything else stutters (`OthersKeep`), `ReadAdvance`
   included, because `Taken` does not change there.
3. `ReturnsOldest`: by `HeadInv`. The one store that could change the byte about
   to be copied is a store into the slot of `rx_consume`, and that store is the
   one that overflows the ring.
4. `ReadInOrder`: by `OrderInv`. The byte in the hands of `uart_read()`, the bytes
   not taken and the FIFO hold ever later bytes of the line. It holds through
   overflows: what remains is always a later part of the line.

`PkgFramerProofs`:

1. `TypeCorrect`.
2. `ChannelRefined`: the bytes in the ring, the byte read last and the next one of the
   host are ordered along the line (`Ordered`), and the package accepted last is behind
   them (`Behind`); a package that passes the checksum is therefore a later one.
3. `Recovers`: undamaged bytes have their values (`Faithful`), and `Search` relates the
   static variables to what was read since the last gap: the search is on track in the
   package being read; or late, because it took a header out of data; or has missed the
   header of this one; or has strayed into a header in the data. Each excludes what
   `Locks` promises only in the cases it names.

`AlinkProofs`: `OwnTask` is inductive only with `Wired` and `Latched`. `Wired`: the PHY
that is selected is free, so it begins no report, and what it still pushes of an earlier
one is always further on than the task id, of which the transmitter sends a word in
each clock; when the id is valid the report is out. `Latched`: hence the id in a
receiver is always that of the task its PHY got last. `TypeCorrect` includes that no
timer passes the longest timeout and no word is written into a full FIFO. `Aligned` needs
`Placed`, which counts the words in the FIFO and the one on its way into it: the count
and the words read of the present result are a multiple of five plus what the granted
PHY has pushed, and what it has still to push fits into the FIFO. A pop moves words and
reader together (`Rotate`), a grant is given with room for two reports, and without a
collision it stays with its PHY to the last word (`Grant`); a flush, which the firmware
begins between two results, starts again from zero.

`DispatchRefined` says that `Alink` implements `TaskDispatch`, from the same invariant and
`Chosen`: a PHY that is selected stays selected, and enabled, until its task is sent, since
none becomes busy while the arbiter is idle (`ChosenKept`). So in the clock in which the
last word of the id is out exactly one PHY starts (`StartsNext`), it has no task (`Wired`),
and the task it takes is the head of those not given out (`Queued`); the last bit of a task
removes from the FIFO what has left the queue already. In every other clock a PHY keeps its
task or ends it (`Works`). A report begins with that task and cannot change its id
(`ReportsTask`, by `Latched`).

`VoltageProofs`: `Waits` (the flag belongs to the access the driver waits for), `Fills`
(after j rounds the first j registers hold the value) and `Calls` (what each place in
the call knows of outputs, clock and reset) give `OneVoltage`, `VoltageKnown` and
`ResetFirst`, with `Reset` as one more step, for any LED bytes.

`TimersProofs`: `Aged` says how old a load is, from the seconds counted and the clocks
of the present one, and gives `OnTime` for every length of a second; `NoExpiryLost` is
`ExpiryKept`, inductive with the types. `MasksExplained` proves `MaskLostToHandler` from
`Masks`, which says the same of the masks a function has read and not yet written back.

`Sha256Proofs`: messages of any length whose length in bits fits 32 bits
(`LengthAssumption`), prefixes of any number of whole blocks. The invariant has four
parts. `Control`: the statement and the access of the driver (`Shape` and `Ordered` say
which statement comes at which place and what follows it). `Registers`: the widths.
`Held`: what the unit holds at each access. While a block is written its first words are
in the unit, and after the sixteenth either they are still there or the block is in the
hash and the flag is up (`AtBlock`); the double hash is the same with the words the unit
streams itself, or is over and quiet (`AtDouble`); the initial value consists of the words
loaded and those of the default that were not yet pushed out (`AtLoad`, `LoadedIs`); the
counters of words read follow the access (`Counting`). `Rest`: between two calls the unit
is quiet and the result is the expected one. That the blocks written are those of FIPS
180-4 is `Completes`: the hash after the j-th block is the initial value with the first j
blocks of the padded message. No induction over the message is needed, since the invariant
counts blocks. `TypeCorrect`, `HashesRight` and `DriverWaits` follow.

`RingWindowProofs` states the two facts both refinements rest on: taking the
oldest item gives the tail of the window (`WindowGet`); storing one appends it or,
as the last one that fits, empties the window (`WindowPut`).

## 5. What is only model-checked, and what is not modelled

Model-checked only: the liveness properties (`SilenceStops`, `HeatPowersOff`,
`NoByteForgotten`, `ProgramGoesOn`, `CallReturns`, `FreedOrOvertaken`, `GatesAll`,
`OnlyFirstStrays`), since ENABLED and fairness are out of reach of the prover. The first halves of the
last two are safety, but rest on how many clocks a delay lasts, and are left to TLC. That the queue of works
in `MinerManager` is the `TaskDispatch` that `Alink` implements is not stated: there one
action is one event, here a clock may hold several, so a step of one is a sequence of steps
of the other.

Not modelled, and why: the rounds of SHA-256 (data; a work's hash is determined by
the parts it is built from), CRC values (a damaged package is one whose CRC does
not match), the TWI byte engine with sensors and fans (single bytes for a driver that
polls), printing, the vendor processor and bus, build scripts, and the
stand-alone test programs. Reply packages are not modelled: nothing in the loop
depends on them. Frequency and fan settings, LEDs, and the counter
`g_clock_conf_count` are left out of `MinerManager`: nothing that is modelled
depends on them. The bits on the line to the ASICs, the nonce counter of the scan mode
and the bus handshake are left out of `Alink`.

## 6. A disagreement between comment and code

main.c:379 says the watchdog is set "to ~2 second, or it will reset FPGA". The
run `watchdog` shows that a loop that stays stuck is never reset: `wdg_feed()`
writes the value shifted left by one, so bit 0, which is the enable bit, is
written as 0. The first feed loads the counter and disables the watchdog, and
`WATCH_DOG` needs the enable bit. (Apart from that, the value fed is
`(CPU_FREQUENCY / 1000) * 2` cycles, some 2 ms.)

## 7. Plan

What is left, in the order of importance:

1. The queue of works of `MinerManager` and `TaskDispatch` as one specification, with
   the reports in the RX FIFO word by word.
2. The byte engine of the TWI master with `read_temp()` and `write_pwm()`.
3. `isr()` with the UART and the timers enabled together.
