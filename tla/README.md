# A verification of the fscc-linux driver

These TLA+ modules model the Linux driver for Commtech's FSCC serial cards
(`src/` at the root of the repository; source lines below are of that directory).
TLC checks them on small instances and TLAPS proves the central safety
properties of the transmit and receive paths, of DMA transmission, of the registers, of the clock
calculation and of the life cycle for every size, and that the transmit path implements its abstract specification. `PROJECT.json` lists the
runs, the mutations that show that each property can fail, the source lines behind
every definition, the findings and the hazards.

## The driver

A card has two ports, a port is `/dev/fsccN`. A process writes frames, and reads
frames or, in the streaming modes, bytes. Between the process and the line stand
a ring of descriptors in memory and the card's FIFOs:

    write() -> tx_descriptors -> oframe tasklet -> transmit FIFO + byte counts -> line
    read()  <- rx_descriptors <- iframe tasklet <- receive FIFO + byte counts  <- line

| Component | State | Operations | Who else touches it |
| --- | --- | --- | --- |
| transmit path (`io.c`, `main.c`) | `tx_descriptors`, `user_tx_desc`, `fifo_tx_desc`, `write_semaphore`, `output_queue` | `fscc_write`, `fscc_user_write_frame`, `fscc_fifo_write_data`, `fscc_io_purge_tx` | writers, oframe tasklet, purges from ioctl and sysfs |
| receive path (`io.c`, `main.c`) | `rx_descriptors`, `user_rx_desc`, `fifo_rx_desc`, `rx_frame_size`, `rx_bytes_in_frame`, `read_semaphore`, `input_queue` | `fscc_read`, `fscc_user_read_frame`, `fscc_user_read_stream`, `fscc_fifo_read_data`, `fscc_io_purge_rx` | readers, iframe tasklet, purges |
| interrupt handler, tasklets, timer (`isr.c`) | `last_isr_value`, the pending tasklets, the timer | `fscc_isr`, `iframe_worker`, `oframe_worker`, `timestamp_worker`, `timer_handler` | the card, both paths |
| register access (`port.c`, `card.c`, `utils.c`) | `register_storage`, the card's registers | get and set of one or all registers, suspend, resume, the clock check of commands | ioctl, sysfs, both paths |
| clock bits (`port.c`) | `FCR`, shared by two ports and serialfc | `fscc_port_set_clock_bits` | the other port, serialfc |
| settings (`port.c`, `sysfs.c`) | `append_status`, `append_timestamp`, `rx_multiple`, `ignore_timeout`, `tx_modifiers` | set and get | read, write, the tasklets, without a lock |
| DMA (`io.c`) | the descriptors, as the card reads them | start, stop and reset of the engines, `fscc_io_apply_timestamps` | the card's DMA master |
| life cycle (`main.c`, `card.c`, `port.c`) | the lists of cards and ports, the interrupt, the nodes | `fscc_card_new`, `fscc_port_new`, their deletes | interrupts, timer, tasklets |
| clock calculation (`lib/raw/calculate-clock-bits.c`) | locals of one call | `calculate_clock_bits`, `GetICS30703Data` | nobody: its caller gives the 20 bytes to the clock ioctl |
| sysfs, debug | none of their own that matters here | attributes, counters | |

What makes them hard:

- A path has three kinds of actor, processes, a tasklet and the interrupt
  handler, and the card as a fourth. The space in a ring and the readiness of a frame are
  tested without the spinlock and relied on under it; the level of a FIFO is read
  before the lock and spent under it.
- A frame larger than a descriptor or than the room in the FIFO takes several
  steps of several runs of a tasklet, and a purge may fall between any two.
- Nothing polls. Every run of a tasklet must be caused by an interrupt, the
  timer or a call, and every sleeper must be woken by somebody.
- The transmit clock may be missing. Commands are then dropped, by a check whose result
  most callers ignore.

What makes them correct:

- transmit: the descriptors in use are consecutive; space once seen stays; the FIFOs
  are never overrun; frames leave whole, once, in order and eventually;
  writers are answered;
- receive: finished descriptors are consecutive; frames are read whole, once and
  in order; streams have no gap; a sleeping reader is woken;
- registers: resume restores the settings; the copies agree with the card; no caller undoes
  another's write of `FCR`, as far as the locks keep the two apart;
- DMA: no frame is left in the ring behind an engine that stands still, and frames leave whole,
  once and in order, as long as a reset reaches the card;
- clock calculation: the best dividers are found whenever there are any, and the word
  that is returned holds them;
- life cycle: nothing runs on a port that is gone, and removal and unloading give back
  what a creation that succeeded has acquired, all but the mappings of the registers and, on
  unloading, the enabled device.

## The modules

| Module | Models | From |
| --- | --- | --- |
| `FrameQueue` | what one direction promises: a queue of whole frames, with purge | abstract |
| `Ring` | positions in a ring | the `index++; if (index == n) index = 0` of `io.c` |
| `TxFifo` | the transmit path in FIFO mode | `main.c` 138-193, `io.c` 229-303, 453-471, 545-671, 755-830, `isr.c` |
| `RxFifo` | the receive path in FIFO mode | `main.c` 100-136, `io.c` 241-272, 426-451, 481-520, 673-753, 832-1046, `isr.c` |
| `Registers` | registers of a card, their stored copies, the clock bits, suspend and resume | `port.c` 166-187, 358-391, 435-486, 527-620, 707-722, `card.c` 150-222, `utils.c` 30-183, `sysfs.c` 30-88, `main.c` 217-294, 404-432 |
| `TxDma` | the transmit path in DMA mode, with the card's engine | `main.c` 141-193, `io.c` 274-303, 357-367, 545-600, 785-830, `port.c` 318-333, 368-371 |
| `ClockWord` | the tables of the clock generator's programming word | `calculate-clock-bits.c` 514-960 |
| `ClockSearch` | the search for dividers and loop filter | `calculate-clock-bits.c` 139-440 |
| `Lifecycle` | loading, creation, removal and unloading against interrupts, timer, tasklets and open files | `main.c` 87-94, 391-402, 443-531, `card.c` 36-138, `port.c` 45-316, `io.c` 57-99, 305-343, `isr.c` 33-134, `utils.c` 185-201 |
| `TxFifoProofs`, `TxQueueProofs`, `RxFifoProofs`, `RxDataProofs`, `TxDmaProofs`, `RegistersProofs`, `ClockSearchProofs`, `LifecycleProofs` | the inductive invariants and the proofs | |
| `MCTxFifo`, `MCRxFifo`, `MCRegisters`, `MCTxDma`, `MCClock` | TLC's instances: processes as model values, symmetry, small sets of inputs | |

### TxFifo

Variables carry the names of the driver's fields where it has them. A descriptor is its
control bits (`cstop`: free, `fe`: first of a frame), its `cnt` and its length;
the number of the frame it belongs to and the place of its bytes in it (`off`) are history. `Chunk` is what
of it goes into the FIFO. The card is its FIFO, the bytes in
it, the byte count FIFO, whether a transmission is under way, what is on the line,
and one interrupt bit.

An action is what runs without another actor being able to see the middle. `WriteCall`, `WriteDown`,
`WriteCheck`, `WriteWait`, `WriteClock`, `WriteFrame`, `WriteUp` and
`WriteSchedule` are the stretches of `fscc_write` between two points where
another actor can act; `WriteFrame` is the loop of `fscc_user_write_frame`, which holds
`board_tx_spinlock` throughout, and includes its ENOBUFS exit. `WriteSignal` and
`WriteNoMemory` are the failures. `OframeTfcnt`, `OframeTxcnt`, `OframeLock`,
`OframeCopy`, `OframeUnlock` and `OframeTransmit` are a run of the tasklet, one
iteration of its loop per `OframeCopy`, because writers count free descriptors without the lock while it
runs. `PurgeTx` is whole: its callers hold the lock from the reset of the card to that of
the ring. `HwSend` and `ClockChange` are the card and the clock.

`frames`, `sent` and `dropped` are history: what was stored, what left the card, with 0
for something that is not one whole frame, and whether a purge found no clock. That purge
empties the ring and not the card, and still returns 1 (`io.c` 286, although
`docs/purge.md` 22 documents `ETIMEDOUT` for it): the bytes that stay go out joined to the next frame. `SentIntact` says
that nothing else spoils one.

`WriteFrame` stores nothing that a writer counting without the lock could see half
done, because the only readers of the ring without the lock are holders of
`write_semaphore` and sleepers whose test errs to the safe side: those go back to
`WriteDown` and test again.

The card's arithmetic is kept: `SizeInFifo` is the driver's estimate (four bytes too many
for a multiple of four), `WordBytes` what a transfer really occupies, and `OframeTxcnt` has the wrap-around
of the unsigned subtraction as its exit.

### RxFifo

A byte is its place on the line, so a frame is a range and a read can be
compared with it. The receive FIFO holds whole words; the bytes that fill the
last word of a frame are 0. `incoming` is the frame on the line, `bcfl` the
sizes of the complete frames. `IframeHead` and `IframeCopy` are the two
halves of one iteration of `fscc_fifo_read_data`: the read of RFCNT with the size of the
frame, and the read of RXCNT with the data. Between them `RaceWords` words may
arrive; in the rest of a run the line is as fast as it likes. The reader's
loop is likewise one descriptor per step, its copy (`ReadFrameMove`,
`ReadStreamMove`) apart from the step of its index (`ReadFrameAdvance`,
`ReadStreamAdvance`), because the tests for readiness are made without the lock.

`streaming` is `fscc_port_is_streaming`, either way and fixed from the start: the mode comes from
the registers, and changing those under a running reader is not modelled.

The loops of the code are also bounded by the number of descriptors. With the
lock held nobody refills or empties the ring behind them, so the other exits come first, and
the models keep only those.

### Registers

A call is turned into the register writes it does (`todo`), by `Writes` for
the structure of `FSCC_SET_REGISTERS` and for the copy that resume replays. They are a set of writes
numbered in their order, and `IsNext` is the first that is left. Each write is two steps,
the card (`SetCard`) and then the copy (`SetStore`), with the command that has no clock
(`Dropped`) as the early return before both. `Ioctl` takes the lock of the port; `Sysfs`,
`Oframe` and `Resume` do not, as in the code. The clock sequence is the read of `FCR`
with the lock (`ClockLock`), writes with and without the pins of the port (`ClockShift`, any number), and the
write of what was read (`ClockRestore`); it keeps no copy, since it goes past
`fscc_port_set_register`. `AsyncRead` and `AsyncStore` are the two halves of
`fscc_port_using_async`, which every `read()` and `write()` begins with.

Two registers stand for all that hold settings, and one bit pair in `FCR` for the clock pins.
The structure's order is kept, and `Slot` and `TargetOf` are where it matters that
the last FCore register of the structure is not the last of BAR 0. Processes are frozen between
`Suspend` and the end of the resume, and only then may the card lose its registers.

`want` and `wantFcr` are history: what was last written to a setting and to `FCR` by
anyone but resume. `port.h` 123 says of `board_settings_spinlock` that it is for what alters the
settings "at a board level". It is a lock of one port, and `FCR` belongs to the card: a clock sequence
on one port and a write of `FCR` through the other, or through sysfs, do overlap. The sequence then puts back what it
read before the write (`port.c` 587), and the write is gone. `crossed` is history for
this: the last write of `FCR`, or a clock sequence since, began while a sequence was under way that
no lock of its caller's keeps out. `FcrKept` is what the lock does give, for two ports, ioctl, sysfs
and the clock together: `FCR` is what was last written, unless `crossed`.

### TxDma

The ring is that of `TxFifo` without sizes: a descriptor is free or holds the number of its frame
and which of its parts (the first has DESC_FE_BIT), and a frame is a number of descriptors. `WriteFrame` is the loop under
`board_tx_spinlock`; `Probe`, `SetBase` and `Go` are what follows it without the spinlock (`io.c`
823-826), one register access each. The purge is three steps, because the engine runs beside it: `PurgeStop`,
`PurgeClear`, `PurgeBase`, with the spinlock held throughout (`ppc`). `EngineTake` and
`EngineStop` are the card, which the driver does not contain: what is assumed of it is
what `io.c` relies on, that it takes descriptors in order, gives each back with
CSTOP and stops at one that is free. A start of a running engine is modelled as going to DTDB.

The clock comes and goes (`ClockChange`), and stands where the driver asks for it. `WriteClock` is the test of `main.c` 177
between the room and the frame, which returns with `write_semaphore` held: from then on no
writer passes `WriteDown`, and what is in the ring still has to leave (`FrameLeaves`). In `PurgeStop` the
commands to the engine are registers of the card and always arrive, but TRES is a command of the port and is dropped without
a clock (`port.c` 368-371), and the purge goes on (`io.c` 286). If the card had a part of a frame it
keeps it: `dropped`. What the engine takes next runs together with it (`Joined`), and leaves as no frame
at all. `SentInOrder` excepts that purge, and says that one without a clock does no harm when the card has no frame half taken.
`EngineTake` needs a clock: without one the card takes nothing.

`stale` is history: the engine was started for a frame that had left already, or while a
purge was going on. It is a real possibility. The engine comes to a frame by itself
between its writer's test of DSTAR and its start, the start sends it back to a descriptor that is free, and
until it has noticed the next writer reads DSTAR as running and leaves its frame to an engine that is about to
stop. The properties hold up to that point, which is what the test outside the lock gives.

### ClockSearch and ClockWord

One step of `ClockSearch` is one turn of the loop over the output divider, with the loop over `v`
inside it (`Finish`, or `NothingHere`). `NextOD`, `NextR`, `IncreasePpm` and `GiveUp` are the ways
on. The rules, the frequency test and the filter test are the inequalities of the code, multiplied out so that
they are about integers; the floating-point constants of the filter are folded into the coefficients of
`FilterOK`. Evaluated against the doubles of the C code for every `r`, `v`, resistor and current that
pass rule 1 (39.5 million), `FilterOK` differs in 197, all with `v` = 1302, where the damping factor is exactly 0.2.

Doubles compare as reals unless both sides are equal, and there the code may go either way: 24e6 * (v / (r * od)) does not
reproduce many frequencies that have exact dividers (14745600 and 1843200 among them), so with no error allowed they are
refused. `equalFits` is either, fixed for a call.

`ClockWord` has the word as the set of its bits. `MCClock!OutputOf` reads an output divider
back by the formula in the code's comments, `(2 * (x + 3) + y) * 2 ^ z`.

The comment over the search (`calculate-clock-bits.c` 455-466) lists as the last key the ratio
nearest to 15; the code takes the first filter in range. `BestChoice` is about the keys before it.

### Lifecycle

`phase`, `card`, `chan` and `step` are the thread of control of `fscc_init`, `fscc_exit` or
`fscc_remove`: which function it is in and what it does next. `res` is what a
port consists of, by part; `Acquire` is a part that may fail and leaves the earlier ones. `fscc_cards` and
`ports` are the lists that `port_exists` searches. Beside it, for each port, an
interrupt (`Isr`, `IsrSchedule`, `IsrTimer`), the timer, a tasklet (one stands for three: none of them can be killed, and
each works on the descriptors) and one file take their steps. An interrupt of a port that is in no list does nothing
(`IRQ_NONE`) and is left out.

`late` and `early` are history, the ports that had something under way when their timer was deleted, and
those that were opened before `fscc_port_new` was done. Both do happen, and then freed or unset memory is used: `del_timer` does not wait,
nobody calls `tasklet_kill`, and `fscc_open` asks nothing. `NothingRunsOnFreed` says that these are the only ways.
`abandoned` and `lost` are the ports and cards whose creation failed half-way and that no list knows.

`own` is what a card consists of: that the device is enabled, its memory, two regions and three mappings, in this order; a failure of
`CardNew` leaves those it has come to. `DeleteCard` gives the regions and the memory back. The mappings are never undone (`card.c` 134 has no
`pci_iounmap`), and only `fscc_remove` disables the device (`main.c` 391-402), `fscc_exit` does not.
So an unloaded module has left something after every ordinary unload, and `UnloadLeaves` is an account of it: services and
complete ports are gone without a trace; of a card that was created the mappings stay and, unless it was removed
before, the enabling; of what failed half-way the parts that nothing gives back. More than that is a violation, as a
port skipped by the loops over the lists or an interrupt still requested would be.

### The abstract specification

`FrameQueue` accepts frames, delivers the oldest, and purges all.
`TxFifo` implements it with `Queued`, the frames with a part in the ring or
the FIFO, and `RxFifo` with the frames whose last byte is in the card or the ring.
A write, a send or a read of several steps is one `Accept` or `Deliver` and stutters
otherwise.

## The runs

| Run | Checks | States |
| --- | --- | --- |
| `tx_safety` | `TypeOK`, `RingInUse`, `RefusedForSizeOnly`, `FifoNotOverrun`, `ByteCountsNotOverrun`, `SentIntact` | 4.4 M |
| `tx_queue` | `TxFifo` implements `FrameQueue`: `IsFrameQueue` for its steps, `FramesLeave` for its liveness | 849 k |
| `tx_dma` | `TypeOK`, `NothingStranded`, `SentInOrder`, `FrameLeaves` | 199 k |
| `rx_safety` | `TypeOK`, `FinishedInRow`, `StreamInOrder`, `RxFifo` implements `FrameQueue!Spec` | 2.3 M |
| `rx_served` | `ReaderServed` | 400 k |
| `regs` | `TypeOK`, `SettingsKept`, `FcrKept` | 793 k |
| `clock_bits` | `TypeOK`, `BestChoice`, `GivesUpOnlyWithout`, `WordHoldsChoice`, `OutputReadable` | 56 k |
| `lifecycle` | `TypeOK`, `HandlerFindsPort`, `NothingRunsOnFreed`, `UnloadLeaves` | 1.4 M |
| `tx_wakeup`, `tx_semaphore`, `rx_left`, `rx_race` | each one property, violated: see the findings | |

Bounds, and why they are enough for these questions:

- Rings of two to four descriptors of 4 or 8 bytes: a ring wraps several times, is full
  and is empty. `config.h` 33-37 demands at least two descriptors and sizes in multiples of four.
- `tx_safety` has frames of less than a descriptor, of two, and one larger than the
  ring, in a FIFO of 16 bytes that holds about two descriptors, and a byte count FIFO of two entries
  (`MaxTfcnt` is 254 in the code), so that both limits are met. Three calls of
  two writers, with and without `O_NONBLOCK`, one purge, and a clock that changes at will.
- `tx_queue` keeps the clock on and its FIFO of 24 bytes larger than a frame. Frames of one
  descriptor and of two in a ring of three wrap differently each time, share the ring, and
  are moved over several runs.
- `rx_safety` has, in the frame mode, frames of 3 and of 10 bytes, in one descriptor and in two,
  that arrive between any two steps, buffers that hold one frame or both, and one purge. Its
  frames do not fill their last descriptor exactly; `rx_race` shows what happens to those. In the
  streaming mode `MaxStream` bytes come through a ring of 16 to readers that leave a part of
  a descriptor and readers that take more than one.
- `rx_served` has more descriptors than frames can finish; `rx_left` has fewer. The
  reader is alone in both: with two, the wake-up that `isr.c` 106 skips (see the
  hazards) is made up for by the timer or not at all.
- `regs` has two callers and three calls, any subset of two settings and `FCR` with two values, on
  either port, one suspend, and all the other calls. `FCR` is written and the clock set through either
  port, and `FCR` through sysfs as well, so that every overlap of two of them is met. A sysfs write of a setting is not in `regs`: it takes no
  lock, so two of them, or one and an ioctl, do leave one value in the card and another in the
  copy (see the hazards). The attributes in it are a command, `fcr` and `fstel`.
- `tx_dma` has two writers, three calls and one purge in a ring of three, and a clock that changes at will: enough for an engine that runs, stops
  and is started again while frames of one and two descriptors wrap, and for a purge that finds a frame half taken and no clock.
- `clock_bits` has units of 100 kHz, errors in per cent and the input dividers 1 and 2, but every output and
  VCO divider, filter and table of the code. One frequency has exact dividers, one none
  within the error, one is out of the range of the first check.
- `lifecycle` has one card, so that both ports interact; the proofs are for any number. Three interrupts
  and two opens reach every exception.
- `MaxCalls`, `MaxResumes`, `MaxReads`, `MaxPurges`, `MaxBytes` bound the numbers of calls, purges
  and bytes. The runs set `CHECK_DEADLOCK FALSE`: when they are used up and the
  queues are empty the system rests, as the driver does.

Fairness. Processes that can run do run, and so does a scheduled tasklet and a pending
interrupt or timer (weak fairness). Semaphores are granted in order of arrival,
as Linux does, and a tasklet gets a ticket spinlock others keep taking (strong fairness of `WriteDown`,
`ReadDown` and `IframeLock`). The card sends what it has when told to and the clock is
present in `tx_queue`. The DMA engine works while it runs, also when the clock stays for short times only (strong
fairness of `EngineTake`; `FrameLeaves` supposes that it keeps coming back), and a
purge that has begun ends. Nothing is assumed of callers, purges, signals, the line or the clock.
`Lifecycle` needs no fairness; `ClockSearch` is a loop.

## Findings

1. `main.c` 177-180: `ETIMEDOUT` is returned with `write_semaphore` held
   (`tx_semaphore`).
2. `main.c` 168, `io.c` 657: nobody wakes `output_queue` when the ring drains
   (`tx_wakeup`).
3. `io.c` 683, `isr.c` 122-134: frames left in the card when the ring was full
   are not fetched when it is read (`rx_left`).
4. `io.c` 687 and 697: a frame that fills its descriptor and ends between two register
   reads is returned twice, the second time with bytes that are no frame (`rx_race`; with `RaceWords = 0` the
   property holds).

`PROJECT.json` quotes the documents and comments that say otherwise.

## The proofs

`TxFifoProofs` proves, for any number of writers, any ring, FIFO and frame sizes, any
number of calls and purges, and with or without a clock:

| Theorem | Statement |
| --- | --- |
| `TypeCorrect` | `Spec => []TypeOK` |
| `RingConsistent` | `Spec => []RingInUse` |
| `NoSpuriousRefusal` | `Spec => []RefusedForSizeOnly` |
| `NoFifoOverrun` | `Spec => []FifoNotOverrun` |
| `NoByteCountOverrun` | `Spec => []ByteCountsNotOverrun` |

They assume what the module states of its constants: the sizes are positive
naturals and the flags Booleans.

All follow from one inductive invariant, `IInv`. The five properties are not inductive by
themselves:

- `RefusedForSizeOnly` needs that the room counted in `WriteCheck` is there in
  `WriteFrame`. The invariant keeps, for a writer between the two (`RoomReserved`), that the
  descriptors of its frame are free; that survives because the semaphore lets no other writer
  past `WriteDown` (`OneWriter`), because the tasklet only frees descriptors and
  moves away from them (`RingInUse`), and because a purge frees all. `CallFits` bounds the
  frame of a writer past the size check.
- `FifoNotOverrun` needs that the space a run still believes in, added to the
  bytes in the FIFO, stays below its size (`ReadsCautious`): a copy takes at least as much
  from the one as it adds to the other, and the card and a purge only lower the level. The
  byte count FIFO likewise, with one entry per run.
- `RingInUse` needs the type of every index and, for `WriteFrame`, that the
  number of descriptors it fills is at most the number free in a row
  (`FreeRunFact`, `DescsFact`, `DescsLeast`).

`InitIInv` and `Inductive` are the two halves; `Inductive` puts together
one lemma for each conjunct, each of them with a step for every action that disturbs it.

`TxQueueProofs` goes on from there:

| Theorem | Statement |
| --- | --- |
| `FramesSentWhole` | `Spec => []SentIntact` |
| `TransmitIsFrameQueue` | `ClockHypothesis` implies `Spec => IsFrameQueue` |

`ClockHypothesis` is that there is always a transmit clock or that `ignore_timeout` is set. Without it a purge may leave
its bytes in the card, and then the port is no queue; `FramesSentWhole` needs no
hypothesis, because `SentIntact` excuses that purge and nothing else.

The invariant, `QInv`, adds to `IInv` what the descriptors and the card hold. The transmit FIFO and the ring are read as
one chain of chunks (`Chain`), and as long as no reset was dropped (`FramesOK`):

- the chain is the rest of one frame and then whole frames of ascending numbers (`WholeFrames`), later than those that
  left (`InOrder`), and goes on where the line is (`Continued`);
- the byte counts, with the one the tasklet has in hand during its loop, are the sizes of the frames that have begun to enter
  the FIFO, in their order (`StartedBy`). This is why a frame ends on the line where it ends in the chain, and it is where
  the break at a second frame start counts (`io.c` 645): the tasklet has one count in hand at most;
- the first descriptor of a frame is the one with FE, and carries its size (`Marked`).

A copy moves the border between FIFO and ring and leaves the chain as it is (`CopyStep`); a write puts a frame behind it
(`FillStep`, with the descriptors `IInv` has reserved); the card takes its first chunk (`SendStep`), and only the last
chunk of a frame is seen as a step of `FrameQueue`; a purge that finds a clock empties it (`PurgeStep`). The lemmas before these are
about chains, lists of counts and rings as such. Since induction over the length of a chain is not available, `WholeFrames` also states
the order of any two of its chunks, not of neighbours alone. `FrameSizeReset` is the one fact about the tasklet that `IInv` does not have. Before the proof
TLC found `FramesOK` and `FrameSizeReset` to hold in every state of `tx_safety`.

`RxFifoProofs` proves, for any number of readers, any ring, frames, buffers and purges, in the frame
mode and in the streaming modes, and for any number of words that arrive between two register reads:

| Theorem | Statement |
| --- | --- |
| `ReceiveTypeCorrect` | `Spec => []TypeOK` |
| `FinishedStayInRow` | `Spec => []FinishedInRow` |

That a reader gives back only finished descriptors is not in the code's tests: in the frame mode
its loop counts bytes. The invariant keeps for it (`PlanOK`) that the bytes it
still wants end in a descriptor with FE, and that all before it are finished. This survives a step of the loop because a
full descriptor takes away as much of the plan as it adds to `filled_frame_size`, or more, so
that the loop ends at FE at the latest. `RoomLeft` says that a stream read has room for what it has taken, `OneReader` and
`OneLock` who is in the loops, `DescsOK` that a descriptor not finished has room (without it the
length to move could be negative), and `LineOK` places the frame on the line. `GiveBack`
and `Finish` are the two ways in which the row changes, as facts about rings.

`RxDataProofs` proves what reads return, for the same constants:

| Theorem | Statement |
| --- | --- |
| `StreamReadInOrder` | `StreamHypothesis` implies `Spec => []StreamInOrder` |
| `ReceiveIsFrameQueue` | `FrameHypothesis` implies `Spec => IsFrameQueue` |
| `FramesReadOnce` | `FrameHypothesis` implies `Spec => [](~streaming => ReadOnce)` |

`StreamHypothesis` is that every receive reset reaches the card (else its FIFO keeps bytes from before the purge, and they are
returned after it), and that the size of a descriptor is a multiple of 4, as `config.h` 36 asks: the FIFO is read by words, and
the rest of a word that does not fit would be lost. The invariant, `SInv`, adds to `IInv` that all that has been received and not
read is one run of bytes (`OneRun`): each finished descriptor holds the bytes from where the one before it ends (`InLine`), whether a
reader has taken its front or not; the one being filled goes on to where the FIFO begins (`Filling`, `Waiting`), in whole
words; and the byte at the start of the run may follow the last one returned (`InOrder`). A read moves the start (`LineRead`,
`LineGiveBack`), the tasklet moves words over the border between ring and FIFO (`LineFill`, `LineFinish`), the line adds at the end, a
purge leaves the empty run at the byte it cuts at. TLC found `SInv` to hold in every streaming state of `rx_safety`.

`FrameHypothesis` is, beside the same two conditions, that a frame is longer than its status (a shorter one makes the size of
a read underflow, io.c 874), and that the words which arrive between the tasklet's reads of RFCNT and of RXCNT are none, or one when the words of no frame
fill descriptors exactly. The last is not in the driver: where it fails a frame may end in a descriptor that is full without its FE,
and `rx_race` shows what follows. `rx_safety` meets the hypothesis with one such word. The invariant is `QInv`, which adds to `IInv`
that ring and card hold consecutive frames from some frame x on (`HoldsFrom`):

- `Line` is the frames received and, last, what has arrived of the one on the line (`FramesOK`);
- two functions give for each finished descriptor the frame and the byte of it where the descriptor begins (`InFrames`). What it holds is what the frame has from
  there (`Filled`); one with FE carries the size of its frame and the next one begins another, one without is full. Every frame up to the one being filled ends in the ring
  (`Ended`), and the frame numbers ascend, more so over a FE (`Ascending`): so the first FE that `fscc_user_next_read_size` finds ends the first frame (`ReadySize`);
- a third gives the place of each frame in the FIFO (`InCard`): bytes that are not the frame's fill its last word. The byte count FIFO has the sizes of the
  frames from the one being filled on, without the one the tasklet knows (`SizesOK`);
- a reader in the middle of x has taken its first bytes, all but the status (`Midway`, `Reading`); and between its two reads the tasklet
  knows the frame's size, or that the frame has not ended, or that it ended with the last word (`RacedOK`).

`FrameSteps` gives what a step does: it holds the same frames (`QuietHolds`, `IframeHeadHolds`, `IframeCopyHolds`, `FrameLockHolds`, `FrameAdvanceHolds`),
one more (`FrameWordHolds`), all but the first, which is returned (`FrameMoveHolds`), or none (`FramePurge`). `QueuedIs` says that the
frames `IsFrameQueue` takes as queued are those from x on, so these are the steps of `FrameQueue`. The hardest is `IframeCopyHolds`: the length it moves
comes from one register read and the end of the frame from another. That the functions are part of the invariant, and not
sums over the frames, is because induction over data is not available; `InCard` and `Ascending` speak of any two frames for
the same reason. For `FramesReadOnce`, `RInv` adds that what was returned are frames before x in ascending order.

`TxDmaProofs` proves, for any number of writers, any ring, frames and purges, with or without a clock:

| Theorem | Statement |
| --- | --- |
| `DmaTypeCorrect` | `Spec => []TypeOK` |
| `NoFrameStranded` | `Spec => []NothingStranded` |
| `LeaveInOrder` | `Spec => []SentInOrder` |

The invariant says where the row of used descriptors begins and how long it is (`RingSettled`): an engine that
runs is at its first descriptor, and while it stands still a writer past its test of DSTAR will send it there (`Settled`).
`WriteFrame` keeps this because nothing is in the ring of a stopped engine that no writer is about to start, so that
`NothingStranded` is part of the induction. What the row holds is the rest of a frame and then whole frames
of ascending numbers, all later than the ones that left, and the engine goes on where it is (`Orderly`). A frame is
stored whole because the room a writer has seen (`FreeRunFact`) stays while it has the semaphore. `Fill` and `Take` are the two
ways in which the row changes. The invariant holds up to `stale`, and what it says about frames (`Orderly`) up to `dropped` as well: a
purge without a clock keeps it when the card has no part of a frame, since the next frame then begins in an empty card.

`ClockSearchProofs` proves, for any unit, number of parts, range of input dividers, frequency and error:

| Theorem | Statement |
| --- | --- |
| `SearchTypeCorrect` | `Spec => []TypeOK` |
| `SearchReturnsBest` | `Spec => []BestChoice` |
| `SearchIsExhaustive` | `Spec => []GivesUpOnlyWithout` |
| `WordReadsBack` | `Spec => []WordHoldsChoice` |

The invariant says that nothing before the current `<<ppm, r, od>>` has a solution. It rests on two facts. No
solution lies below the start of the inner loop (`StartSkipsNothing`): the division of the code is taken apart
into inequalities of products. And the steps of `od`, which double with it, visit every divider of
the grid from the first to the last (`GridStep`, `GridStays`, `GridFirst`).

For the word the invariant, `WordOfChoice`, says that the bytes are untouched or are the word of a choice in the range of the
tables. The rest is about the tables, for every input, VCO and output divider, resistor and current the search can choose: each
writes bits of its own (`InputTable`, `VCOTable`, `ResistorTable`, `CurrentForm`, `OutputTable`, `FieldsApart`), because a number
below 2^w stays in w bits (`FieldWidth`); and two settings do not share a code (`FieldInjective`, then `InputTable`,
`VCOTable`, `CurrentTable`), because a number is known by its bits. `FirstFilter` and `FirstSplit` are there to be chosen:
a filter in range has a first one in the order of the loops (`FirstOfFilters`), and two splits of an output divider never share
an index (`IndexFalls`), as `ClockWord` supposes.

`RegistersProofs` proves, for any number of callers, calls and resumes and any settings:

| Theorem | Statement |
| --- | --- |
| `RegistersTypeCorrect` | `Spec => []TypeOK` |
| `SettingsAreKept` | `SettingsHypothesis` implies `Spec => []SettingsKept` |
| `FcrIsKept` | `Spec => []FcrKept` |

`SettingsHypothesis` is what `regs` has as a bound, and the code does not keep the settings without it: sysfs, which takes no lock, writes no
setting. The invariant follows a write through its two steps: a caller's write of a setting is under the lock of its port
(`PlainLocked`); a copy that differs from what is wanted has its caller between the two (`CopyKept`), and a card that differs
has a resume that still has the write to do (`CardKept`); processes are frozen while the card is off or resumes (`FrozenOK`).

`FcrIsKept` needs no hypothesis: both ports, ioctl and sysfs write `FCR` and clock it. Unless the last write crossed a sequence,
whoever is in the clock sequence has read what is wanted (`ClockKeeps`): it began when `FCR` was that, and a write since
would have been one it crosses, because another under the lock of the same port has to wait (`FcrLocked`).

`LifecycleProofs` proves, for any number of cards, interrupts and opens:

| Theorem | Statement |
| --- | --- |
| `LifecycleTypeCorrect` | `Spec => []TypeOK` |
| `HandlersFindTheirPort` | `Spec => []HandlerFindsPort` |
| `FreedPortsAreQuiet` | `Spec => []NothingRunsOnFreed` |
| `UnloadingLeaves` | `Spec => []UnloadLeaves` |

The invariant says in which phase each step may be (`ControlOK`), what the lists hold then (`ListsOK`), what every
port consists of (`ResOK`: all its parts while listed, `Held` while it is created or taken apart, nothing before), that a
handler under way has the interrupt (`HandlerOK`, which `free_irq` waits for), that a port in no list is quiet
(`QuietOK`), what is left of a port that was abandoned (`AbandonedOK`), and for each card what it consists of (`CardsOK`): all while it is in use (`InUse`), nothing before it is made (`Unmade`), and then
what was never given back (`Remains`). There is a lemma for each action, with a step for each conjunct.

Only model-checked: that an output divider is read back from its code by the formula of the comments (`OutputReadable`, a sum over a set of bits); and liveness (`ReaderServed`, `FrameLeaves`, `FramesLeave`),
which needs ENABLED and is outside what TLAPS proves.

## What is left out

- The receive FIFO does not overflow (RFO) and the transmitter does not run dry in the middle
  of a frame (TDU): the card waits for data and the line for room.
- `XREP`, `TXT`, `TXEXT`: a transmit command sends what is in the card once.
- Copies to and from user space succeed; the bytes of transmitted frames.
- A change of settings or mode during a call; `poll`.
- The receive direction of DMA. The control words are written by the card while the driver reads them, and nothing in the
  sources says how the engine orders its writes; a model would check what it assumes.
- In `Lifecycle`, suspend, and the walk of the lists in `port_exists` entry by entry.
- Rounding of doubles, beyond the choice at equality; a `ppm` over a million, for which the start of the inner loop would be negative.
- The components marked `not_modelled` in `PROJECT.json`, each with its reason.

## The plan

1. (done) `Ring`, `FrameQueue`, `TxFifo`, `RxFifo`; safety of the transmit path proved.
2. (done) `Registers` for writes, the clock bits and suspend. Left: an abstract
   specification of suspend and resume ("resume restores what was there", with `FCR` and the
   replayed command, which needs the FIFOs), sysfs writes of settings, serialfc, and the
   settings (`append_status`, `rx_multiple`, ...) and `poll` against reads and writes.
3. (done) `Lifecycle`, `TxDma`, `ClockSearch` and `ClockWord`; the life cycle, the search and its word proved.
4. (done) The types and the row of finished descriptors of `RxFifo`, the safety of `TxDma`, the registers, the bytes of `RxFifo` in the streaming modes, and
   the safety half of `TxFifo` and of `RxFifo` implements `FrameQueue` proved.
