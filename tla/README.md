# TeamReach: a TLA+ model of the resistor sorting controller

TeamReach is the firmware of a sorting line for zinc-oxide resistors: a Loongson
1B board under RT-Thread 4.0.2 weighs resistors that a robot arm handles, drives
a sorting output, shows the results on an LCD, keeps a log file and publishes
every measurement through an NB-IoT modem. This directory holds its model: TLA+
modules, TLC configurations, and proofs checked by TLAPS.

## 1. Inventory

| Part | Source | State it keeps | Model |
|---|---|---|---|
| main thread (priority 10) | `main.c` 43-189 | `ctrl_flow`, `adc_sum`, `temp_adc`, `adc_measure_count`, `res_t`, `info_t`, `stat_t`, output pin | `MainLoop` |
| signal interrupts | `main.c` 191-202 | their pins' mask | `MainLoop`, `Intc` |
| GPIO interrupts | `ls1x-drv/gpio/ls1x_gpio.c`, `RTT4/port/irq.c` | enable register, edge latches | `Intc` |
| touch thread (15) and its interrupt | `ls1x-drv/spi/xpt2046/` | event, touch queue | `Panel` |
| GUI thread (19) | `gui/simple-gui/simple_gui.c` | - | `Panel` |
| flush thread (19) | `gui/new_gui.c` | the LCD grid | `Panel`, `Screen` |
| NB-IoT thread (17) | `nb_conn.c` | connection flag, command buffer | `NbConn`; its interface in `Services` |
| log file thread (18) | `file_wr.c` | one 24-byte file | `FileLog`; its interface in `Services` |
| ADC | `ls1x-drv/i2c/ads1015/` | - | `AdcRead` in `MainLoop` |
| serial driver | `ls1x-drv/uart/ns16550.c` | two rings, the chip's interrupt mask | `NsUart` |
| message queues | `RTT4/src/ipc.c` | blocks, free list, message list, waiting threads | `RtMessageQueue`; as bounded FIFOs in `Queues` |
| threads, scheduler, timers | `RTT4/src/` `thread.c`, `scheduler.c`, `timer.c`, `clock.c` | ready lists, timer list, tick | `RtKernel`, `RtThreads` |
| mutexes | `RTT4/src/ipc.c` | owner, count, waiting threads, priorities | `RtMutex` |
| events | `RTT4/src/ipc.c` | flags, waiting threads | `RtEvent` |
| heap | `RTT4/src/mem.c` | block headers, lowest free block | `RtHeap` |
| robot arm, load cell, operator | outside the code | parts on the cell, reading | `TeamReach` |

Section 7 says what is not modelled.

`main.c` 356 and 363 say `subf` where every other line says `sbuf`; the file does
not compile as it stands and the model reads `sbuf`.

## 2. How the parts interact

Everything is driven by messages. The robot grabs a batch of six resistors and
pulses GPIO 34: interrupt, message 9, and case 9 reads the full load and opens a
batch. It then takes the resistors off one by one, with a pulse on GPIO 37 each:
interrupt, message 1, and case 1 measures the difference to the previous reading,
judges it, drives the output for 800 ms, counts, and reports to the screen and
the network. Each interrupt masks its own pin; case 1 unmasks the part pin after
the delay and, after the last part, the batch pin too.

The threads share one processor, and a lower one runs only while the main thread
blocks: for a message, 2 ms for a conversion, 800 ms for the pulse. `MainBlocked`
is that condition. Interrupts come at any point at which the enable register
can be caught between its load and its store; these points are values of `pc` and
`tpc`.

## 3. Modules

- `Queues`: the four queues as sequences; a message is `[op, val]`. `rt_mq_send`
  drops into a full queue, as every caller lets it.
- `Intc`: `ien` (enable register) and `pend` (latched edges). Enabling is a clear
  and a load (`EnableLoad`) followed by a store (`EnableStore`); a handler is not
  interrupted, so its `IsrDisable` is one step.
- `MainLoop`: the control points `install1`, `install2`, `create` (start-up),
  `recv`, `measure`, `delay`, `sum`, and `store2`, `load1`, `store1` (between
  loads and stores of the enable register). One action per case of the `switch`;
  case 1 is `SingleGrabbed`, `Measure`, `EndPulse`, `UnmaskBatch`, `LoadPart`,
  `UnmaskPart`, and case 9 is `AllGrabbed`, `OpenBatch`. `temp_adc` starts with any
  value of `Garbage` (it is not initialised), and a failed ADC read leaves the old
  value or zeros. The six words of message 3 arrive in a buffer of five: the day is
  any value of `Days`. Digits sent to the network, and characters received from it,
  are converted as the code does it, arithmetic modulo `UINT_MOD`.
- `Panel`: touch thread and interrupt for both values of the build option
  `XPT2046_USE_GPIO_INT` (TRUE is what `xpt2046.h` ships), the click handler, and
  `Redraw`, what the flush thread paints for each message.
- `Services`: what the NB-IoT and the file thread exchange with the main thread.
- `TeamReach`: the composition, with the robot, the load cell, contact bounce and
  the operator, the fairness, and the properties.
- `Screen`: `TeamReach` with a history variable, `missed`, the cells of the screen whose
  latest update found `output_datas_mq` full. No step of the system reads it.
  `Reports` is what the next step of `main()` sends to the flush thread.
- `MCTeamReach`, `MCScreen` and their `.cfg` files: the instances for TLC.
- `TeamReachProofs`, `LineProofs`, `ScreenProofs`: the theorems.

Below the application, each of these is a specification of its own:

- `FileLog`: the file thread and the cases of the main thread that talk to it, with
  a power failure possible between any two steps. The 24 bytes are only ever read
  or written by halves: mark and totals, and the date. Opening (which creates the
  file) and writing are two steps; an uninitialised buffer holds any value of
  `Garbage`.
- `NbConn`: the AT dialogue. `step` is the exchange the thread is in, `sent` whether
  its command is written. Of a text only the length, whether it ends in OK, and
  what it tells are kept; a read takes a number of bytes, so texts are cut and left
  over as in the code. The modem and the ways from and to it are external:
  commands and answers are lost, refused, late.
- `NsUart`: the interrupt-driven path of the serial driver. Bytes are numbers in
  their order. `Round` is one round of the handler's loop; a write is four steps. Its
  theorems are in `NsUartProofs`.
- `RtMessageQueue`: blocks with links, `queued` and `unused` being the lists as
  sequences (history variables). What runs with interrupts disabled is one step,
  so copying in and out of a block are steps of their own. `BoundedQueue` is what
  users rely on; `LinkedLists` relates links and sequences.
- `RtKernel`: the functions of the kernel that keep threads, as operators on the
  kernel's state `k`. `RtThreads` adds the calls and the clock interrupt, which may
  come between a call's change and its `rt_schedule`. `RtMutex` and `RtEvent` are
  built on these two; `RtEvent` also has the start-up of the touch panel.
- `RtHeap`: block headers known by their offsets. Calls are atomic (they hold
  `heap_sem`), except that `rt_realloc` moves data in three steps. `HeapRegions` is
  what users rely on.

`Services` and `Queues`, which the composed model uses, are not left to trust:
`NbConn` implements the NB-IoT part of `Services` (`ImplementsService`), and
`RtMessageQueue` implements `BoundedQueue`, whose steps without waiting senders are
those of `Queues`.

Operators whose names end in a suffix like `_NoTest` or `_Stale` follow a comment
"Mutant": each is a plausible bug, used to see that a property notices it. No
specification refers to them.

### What the environment may do

The robot sends a pulse when the controller is done with the previous one
(`Served`); it is slower than the 800 ms delay. Contacts bounce while a pulse is
being handled. With `Glitches` a stray edge may come on those pins at any time.
The file thread reads the log before the first batch (`GrabAll` waits for it).
The touch thread looks every 300 ms, so at most `MaxClicks` clicks fall into one
delay and one into a conversion; one service answer falls into a delay (`Room`).

## 4. Runs

| Run | Module | Question | Properties |
|---|---|---|---|
| `line` | `TeamReach` | two batches, bouncing contacts, a busy operator, polled panel | `TypeOK`, `CountedOnce`, `NeverDeaf`, `GlitchesMasked`, `MeasuresOwnPart`, `RoomForSignal`, `BatchCompletes` |
| `panel` | `Screen` | all threads, restore, network answers, clicks, and a flush thread that starves: which cells are out of date? | `LcdFresh` |
| `noise` | `TeamReach` | the shipped touch build, stray edges on both signal pins, failing ADC reads | `CountdownSound`, `BatchAtomic` |
| `race` | `TeamReach` | the shipped touch build: is the pin masked while a part is measured? (no) | `GlitchesMasked` |
| `mq` | `RtMessageQueue` | two threads and a handler on two blocks, time-outs and resets | `ListsSound`, `BlocksConserved`, `NoLostWakeup`, `IsBoundedQueue` (refinement) |
| `log` | `FileLog` | two power failures, faults of the file system, parts that come too early | `LogIsSnapshot`, `LogWrittenOnce`, `CountsKept`, `BlankLogFilled` |
| `nb` | `NbConn` | losses, refusals, late answers, broken connections, an echo left on | `PublishedInOrder`, `AckedIsPublished`, `SoonInStep`, `ImplementsService` (refinement) |
| `uart` | `NsUart` | rings that overflow, in both directions | `RxNewest`, `TxInOrder`, `TxDrains` |
| `heap` | `RtHeap` | two threads allocate, free and resize | `BlocksTile`, `NoTwoHoles`, `Owned`, `RefusedRightly`, `LoopsFindThem`, `IsHeap` (refinement) |
| `threads` | `RtThreads` | sleeping, yielding, locking, ending, the tick wrapping round | `HighestRuns`, `SleepsExactly`, `RoundRobin` |
| `mutex` | `RtMutex` | two mutexes, one of each kind, nested, with time-outs and releases by the wrong thread | `PriorityRestored`, `OwnerBoosted`, `UrgentRuns` |
| `event` | `RtEvent` | two receivers, time-outs, a sending interrupt | `NoneMissed`, `GrantKept`, `FirstComeFirstServed` |

All but `race` pass. `line` is the polled build: with the touch thread's accesses to the
enable register its `NeverDeaf`, `GlitchesMasked` and `BatchCompletes` fail (section 5). `noise` matters because of `race`: even with lost updates of the
mask, the test of `ctrl_flow` in cases 1 and 9 keeps the countdown right.

The modules state further invariants that the runs leave out because a theorem or
one of the properties above says more: `CountdownInStep` and `MeasurementSent` of
`TeamReach`, the type invariants, `Served` of `RtMessageQueue` (under `FairSpec`),
`RestoresLog` and `FileQueueSuffices` of `FileLog`, `QualityTold` and `DateTold` of
`NbConn`, `UsedCounted` and `LowestFree` of `RtHeap`, `ListsSound` of `RtThreads` and
`MutexSound` of `RtMutex`. TLC confirms them with the same constants when their names
are added to the `.cfg` file of the component's run.

There is one run per component (four for the application), so its constants allow
several difficulties at a time, and a property that holds only without one of them
says so itself, with a history variable that records what has happened: `CountsKept`
and `LogIsSnapshot` (`mishaps`), `LowestFree` and `RefusedRightly` (`cut`), `OwnerBoosted`
and `UrgentRuns` (`strain`), and likewise in `NbConn` and `NsUart`.

### Bounds

- `Batch` is 2 (1 in `panel`) instead of 6: first, last and only part occur; 6
  would repeat the middle. `MaxParts` bounds a behaviour to one or two batches,
  enough for a batch to be opened after another was closed.
- `MainMax` is the code's 6, except in `noise`, where 2 makes the queue overflow.
  `OutputMax` is 2 in `panel`: full from the start with the two messages `main()` begins
  with, so that every kind of update is dropped in some behaviour, alone or (case 3)
  as the second of two. The other queues are smaller than the code's, since nobody
  reads what is dropped. One part and one click per delay keep the run
  short; the theorem `LcdStaysFresh` has no such bounds.
- `UINT_MOD` is 4096, so that TLC's integers hold every intermediate value;
  `V_STEP` = 2048 in `panel` makes two clicks come back to the initial threshold.
- `Weights`, `Loads`: light and heavy parts on either side of the threshold; in
  `line` the measured values have digits that differ in every decimal place.
- `Threads` names the low-priority threads that run; leaving one out asks less.
- `VIEW Live` of `MCScreen` leaves out of a state what neither a guard nor `LcdFresh` will
  read again: the contents of samples and log messages, edges latched on a pin that is
  masked until its latch is cleared, the clicks counted in a delay that is over, and
  what a cell shows that is missed or about to be redrawn.
- `RtMessageQueue`: three threads on two blocks: a full, an empty and a half-full
  queue, two threads that wait and a third that is faster; two message values, as
  many as order needs. `VIEW Live` leaves out of a state what nothing will read
  again: data of free blocks, links and values of threads outside a call. Two states
  with the same view have the same successors, so nothing is missed.
- `FileLog`: the code's queue sizes; two power failures hit filling and restoring
  the log in one behaviour.
- `NbConn`: the code's lengths, limits, ring size and `nbiot_mq`. `MaxSpoiled` is the
  claim of `SoonInStep`; as many samples are fed as it takes to reach it. `MaxBehind`
  bounds the commands on their way to the modem.
- `NsUart`: small rings and FIFOs in place of 512 and 16, so that rings overflow and
  a text needs more than one round.
- `RtHeap`: the code's header and alignment; four or five blocks fit.
- `RtThreads`, `RtMutex`, `RtEvent`: two to four threads with idle; the tick has 5 to 8
  values, so it wraps round between any two calls, and times to wait are below half
  of that, as `rt_timer_start` asserts. `MaxNest` bounds the nesting of scheduler
  locks; in `mutex` each thread has its own kind of waiting (`MCWaits`), and `VIEW
  Live` leaves out errors that no thread is going to read.

`CHECK_DEADLOCK` is off where the processor may stop in an assertion (`noise`, `event`),
in `race`, and in `FileLog`, `NbConn` and `NsUart`, where every thread waits once the
bounded work is done.

### Fairness

Weak fairness for the main thread (highest priority), the end of the delay (a
timer), the signal interrupts and the flush thread (nothing of higher priority is
busy for ever); strong fairness for the robot taking off the next part, which it
does when it finds the controller ready time and again. Clicks, noise and service
answers are not fair: they need never happen.

In `FileLog` the two threads are fair, power failures are not. In `NsUart` the chip
shifts bytes out, interrupts are served, and a write that began goes on. The
`FairSpec` of `RtMessageQueue`, for `Served`, lets each thread go on that is not waiting. In `RtThreads` the clock
ticks (weak fairness); the running thread goes on with the call it is in and, at
every depth of nesting, gives up a scheduler lock it holds (strong fairness, as the
clock interrupts it time and again). No fairness is assumed of a thread that is not
running: that it gets to run is what `RoundRobin` shows. `RtMutex`, `RtEvent` and
`RtHeap` are checked for safety only.

## 5. Where the code disagrees with its comments or assertions

`race` is kept as a run: in the interrupt-driven build, the touch thread's load and
store of the enable register enclose a signal interrupt, and the store undoes its
mask. The contact's glitches then reach `main_mq` while the part is being measured.

The race also runs the other way. The touch thread loads the register while the part pin
is masked, the main thread (which has the higher priority) wakes up from the delay and
unmasks the pin, and the store of the touch thread masks it again. Nothing unmasks it
any more: the handler that would post message 1 cannot run, and the line
stops. With `XPT2046_USE_GPIO_INT` = TRUE in the setting of `line` TLC finds this for both
accesses of the touch thread, masking its own pin (`NeverDeaf` fails) and unmasking it
(`BatchCompletes` fails, under `FairSpec`), without a stray edge and without a bounce. Only the
polled build, in which the touch thread leaves the register alone, has these two
properties; `CountdownSound` and `BatchAtomic` survive in both.

The models show these too; the definition, where one is named, is in the module, and
TLC refutes it with the constants given:

- `NeverDeaf` with `Glitches` = {37}: a stray edge on GPIO 37 outside a batch.
  `input_interrupt_isr` masks the pin, case 1 does nothing and so never unmasks it, and
  the line stops.
- `LcdAcked`: case 8 displays the identifier of the latest measurement, which need not
  be the one that was published.
- `NeverHalted` with `Glitches`: an edge between `ls1x_install_gpio_isr` and
  `rt_mq_create`; the handler sends to a null queue and `RT_ASSERT` stops the processor.
- `ThresholdSent`: the hundreds digit of the threshold is always sent as 0.
- `StatisticsSaved`: the log is filled once, when it is blank. Every later start
  restores the totals of that moment.
- `DateRestored`: totals and mark are written before the date; a power failure in
  between leaves a log that is restored with a date of zeroes.
- `InvalidLogFound`: an empty file is read without a look at how much was delivered,
  and what the stack held decides that it is restored.
- `NbConn`: without an answer to the first AT, the echo is never switched off; a late
  OK to an earlier command is taken for that to the publication; a signal quality of
  one digit takes the comma for its second. `AckedIsPublished` and `QualityTold` say
  what holds otherwise.
- `NsUart`: the handler disables the transmit interrupt while a write is about to
  fill the ring, or when a byte comes in meanwhile; the rest of the text waits for
  the next write. `TxDrains` says that nothing else keeps bytes back.
- `RtHeap`: `rt_realloc` makes a hole below `lfree`, and a last block that just fits is
  passed over. `LowestFree` and `RefusedRightly` say that these are the only cases.
- `RtThreads`: `rt_thread_yield` does not set the yield flag, so the caller keeps the
  processor. Turns come from time slices only (`RoundRobin`).
- `RtMutex`: a release that takes a raised priority back and finds nobody waiting (they
  timed out, or the thread still holds another mutex) does not call `rt_schedule`, so
  for a while the wrong thread runs; `UrgentRuns` is about the other releases. With
  `RT_IPC_FLAG_FIFO`, which all drivers use, `OwnerBoosted` fails: a mutex handed to the
  next in line does not raise its priority to that of those still waiting.
- `RtEvent`: a touch after the driver is initialised and before the GUI has started:
  the interrupt sends to an event that does not exist yet (`halted`).
- `FileLog`: a restore that comes after parts were measured overwrites what was
  counted; and with failing opens, totals may be missing where the date is written.

## 6. Proofs

`TeamReachProofs` proves, for all values of the constants that satisfy the named
assumptions:

- `TypeTheorem`: `Spec => []TypeOK`. One lemma per group of variables
  (`ControlTypeStep`, `DataTypeStep`, `QueueTypeStep`, `ThreadTypeStep`). The point
  of interest is that each message on `main_mq` has the length its case reads.
- `CountdownTheorem`: `Spec => []CountdownSound`. The property as stated is
  inductive: it says which value of `ctrl_flow` the control points after the test
  rely on, and nothing about pins or queues is needed. This is why the countdown
  survives the lost updates of run `race`.
- `BatchAtomicTheorem`: `Spec => BatchAtomic`, from `CountdownSound`.
- `MaskTheorem`: with `~XPT2046_USE_GPIO_INT`, `Spec => []GlitchesMasked`. The
  inductive invariant `MaskInv` adds that at most one message 1 is under way, that
  there is none while a part is handled, that the pin is masked as long as there is
  one, and that the register loaded at `store2` does not have the part pin's bit.
  Without the first fact a second message 1 could arrive in `recv` with the pin
  unmasked already.

`LineProofs` proves what the sorting line is for: controller and robot stay in step.
Its hypothesis `CleanLine` is the setting of run `line`, for any batch size, any
threads, log, answers and load: the touch panel is polled, no stray edges come
(contacts bounce all the same), `main_mq` has three places more than clicks fall into a
delay (at least two do), and the totals do not wrap round.

- `PartsCountedOnce`, `CountdownStaysInStep`: `Spec => []CountedOnce` and
  `[]CountdownInStep`, so no pulse is lost or doubled.
- `LineNeverDeaf`: `Spec => []NeverDeaf`.
- `SignalsFindRoom`: `Spec => []RoomForSignal`. With three clicks the bound
  `MaxClicks + 3 <= MainMax` is the six places that `main()` creates. With four, TLC finds
  a signal without room in the setting of run `line`.
- `VerdictIsOfOwnPart`: `Spec => []MeasuresOwnPart`, if no conversion fails.

They share one inductive invariant, `LineInv`, defined at the end of `TeamReachProofs`, with
one lemma per action: those of the robot and of the start are there too, the others in
`LineProofs` (`GrabAllStep`, ..., `PostStep` for whatever posts to `main_mq` while the main thread
is blocked). None of its parts is inductive alone. `CountInv` says that total and
countdown agree with the robot, up to one part whose pulse is latched, queued or
being measured. That there is only one needs `PartPin` and `BatchPin`, where the two
pins are masked and what the register loaded between the two unmaskings holds.
`RoomInv` needs `PlaceInv`: signals stand at the end of the queue, so that the clicks
of the delay are gone when a batch opens.

`ScreenProofs` proves `LcdStaysFresh`: `ScreenSpec => []LcdFresh`, if `output_datas_mq` has places for
the two messages `main()` begins with. Nothing is assumed of the flush thread, which may starve
for ever, of the touch build, or of stray edges. `SendOwn` and `SendOther` say what a queued message
does to what a cell will show, `DrawHead` that drawing the oldest changes nothing. `OneSend`
joins them for one report that is queued or dropped, given that the message tells what
changed (`TellsData`, ..., one lemma per kind of message). Case 3 is two reports, one
after the other. The inductive invariant `ScreenInv` adds to `LcdFresh` only that the queue holds
messages of the six kinds; their types come from `TypeTheorem`.

`RtMessageQueueProofs`, which starts with facts about chains of links, proves for any threads, handlers, messages and number of blocks:

- `TypeCorrect`, `ListsAreSound`, `BlocksAreConserved`: types, and two of the
  invariants of `mq`. The inductive invariant `IInv` joins them, and adds
  that nobody copies while a reset runs and how the links of a block in a thread's
  hands may look. Each without the others is not inductive: that the links of the
  queue are right after a block is linked in needs that no other thread writes it,
  which needs that it is in no list, which needs the types.
- `NoWakeupIsLost` (in `RtMessageQueueTheorems`): `Spec => []NoLostWakeup`, for a finite set of
  threads (`ThreadAssumption`, since threads are counted). The inductive invariant
  `WakeInv` adds that nobody waits while a reset runs and that a waiting thread has
  its error cleared. Then every message is covered by a resumed receiver, or no
  receiver waits, and every free block likewise by a sender.
- `ImplementsBoundedQueue` (there too): `Spec => IsBoundedQueue`. From
  `IInv` and one more invariant, that a block being copied in or out holds what the
  thread sends or will return: each step of the pool is one of the abstract queue
  or leaves it alone.

`FileLogProofs` proves for any garbage, dates, queue sizes and number of power failures:

- `LogTypes`, `LogRestored`, `LogNeverRewritten`, `LogStaysSnapshot` and `CountsAreKept`, and
  `FileQueueNeverFull` for two places or more. The inductive invariant
  ties the messages on their way to the state of the disk: message 2 is there only
  for a blank log and at most once in a session, what is in `file_mq` or in the file
  thread's buffer is part of one snapshot, and so on (`LogInductive`).

`RtHeapProofs` proves for any header, alignment, heap, threads and sizes:

- `HeadersTile`, `HolesNeverMeet`, `BlocksHaveOneOwner`, `LowestFreeKept` and
  `RefusalsAreRight`: the invariants `BlocksTile`, `NoTwoHoles`, `Owned`, `LowestFree` and
  `RefusedRightly`. Lemmas say what splitting a block, joining two and marking one
  do to any headers that tile the memory (`SplitTiles` and the like). The inductive
  invariant adds the way back: `prev` of the next block is the block.
- `ImplementsHeapRegions`: `Spec => IsHeap`, from the same invariant.

`NsUartProofs` proves for rings and FIFOs of any size, calls of any length and any
interleaving of chip, handler and thread:

- `RingsStaySound`: `Spec => []TypeOK`. Head, tail and count of both rings agree, and the
  FIFOs never hold more than they have places for. `PlaceOf` and `StoredAt` say which byte
  a place of the ring has after a store that may wrap round and overflow, from a few
  facts about the modulus.
- `NewestIsKept`: `Spec => []RxNewest`. The inductive invariant `RxInv` says that ring and
  receive FIFO hold consecutive bytes up to the last that came in.
- `SentInOrder`: `Spec => []TxInOrder`. Order alone (`OrderInv`) is not inductive: a direct
  write to the chip would overtake bytes in the ring. `FlowInv` excludes it: with the
  FIFO empty and bytes in the ring the transmit interrupt is on and pending, so the thread
  does not find the transmitter idle before the handler has emptied the ring. That
  in turn needs which interrupts are on while the handler, or a write, is under way.

Only model-checked:

- every liveness property, which is outside what TLAPS proves;
- `LoopsFindThem` and `UsedCounted` of `RtHeap`: the first compares the blocks that
  `rt_malloc` takes and makes the new `lfree` with what its two loops over the headers
  arrive at, the second is about a sum over them, and both need an induction over data;
- `MeasurementSent`, which is about digits computed by a recursive function;
- `NbConn`, `RtThreads`, `RtMutex` and `RtEvent`, for which there are no proofs.

## 7. Not modelled

The repository has 432 000 lines. 180 000 of them are fonts and pictures as arrays;
lvgl, lwIP and yaffs2 are third-party libraries of which the application calls only
yaffs2, for one file; most of the rest are RT-Thread components (file systems, shell,
device framework) and drivers for devices the sorting line does not have. What the
application and its kernel do is in some 6 000 lines, and of these the modules above
model most. A larger share of the repository could only be had by modelling code that
the program does not run.

- yaffs2: `FileLog` assumes that what was flushed survives a power failure, and that a
  write is atomic. The library's own log structure is not modelled.
- lvgl and lwIP: started, but not used by the sorting.
- `touch_utils.c`: sampling, sorting and calibration are arithmetic on coordinates.
- `ads1015.c`, `ls1x_i2c_bus.c`, `ls1x_spi_bus.c`: polled register accesses, one caller
  each; `AdcRead` has the outcomes the caller sees.
- `ns16550.c`: the polled path, line settings and ioctl.
- Kernel: semaphores, mailboxes, memory pools, signals, `idle.c`, deleting objects,
  timers other than the threads' own, SMP. The application uses none of them.
- The early return of `main()` when the ADC is not found (`main.c` 74-78): `ADS1015_DRV` is
  defined, so `rt_ls1x_drv_init`, called at `main.c` 46, has registered the device.
- The stack overflow check, `rt_kprintf`, `init_rtc_time` (the RTC is never read).
