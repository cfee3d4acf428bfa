# A verification of the greenhouse controller

TLA+ specifications of the CO2 controller in `src/` (a Raspberry Pi Pico W
running FreeRTOS), with TLC model checks on small instances and TLAPS proofs of
what holds for every value of the constants. Paths below are relative to
`src/src/`, those of the kernel (`queue.c`, `tasks.c`, `list.c`, `timers.c`,
`event_groups.c`, `stream_buffer.c`, `heap_4.c`, `port.c`) to
`src/FreeRTOS-KernelV10.6.2/` and its `portable/`.

## 1. The system

One RP2040 core runs FreeRTOS V10.6.2: fixed priorities, preemption, and time
slicing between tasks of equal priority. `main.cpp` creates the queues and five
tasks, and the tasks share nothing else:

| priority | task | file | waits for |
|---|---|---|---|
| 31 | timer daemon | (kernel) | timers GREENHOUSE_UPDATE (1 s, periodic) and CO2_WAIT (30 s, one shot) |
| 3 | Greenhouse | `taskers/Greenhouse.cpp` | `sUpdateGreenhouse`, Modbus answers, delays |
| 2 | SwitchHandler | `taskers/SwitchHandler.cpp` | `qSwitchIRQ` (filled by the GPIO interrupt) |
| 2 | Display | `taskers/Display.cpp` | `sUpdateDisplay`, I2C |
| 1 | Storage | `taskers/Storage.cpp` | `qStorageQueue`, EEPROM over I2C |
| 1 | Logger | `taskers/Logger.cpp` | `qSyslog`, UART |

Every value the tasks exchange is a *mailbox*, a queue of length 1 written with
`xQueueOverwrite` and read with `xQueuePeek`: `qState`, `qNetworkPhase`,
`qCO2TargetPending`, `qCO2TargetCurrent`, `qCharPending`, `qNetworkStrings[3]`
and the sensor values. An empty `qCO2TargetCurrent` means "no target". The two
semaphores are binary: a give that finds them given is only logged.

### Inventory

| component | state | operations | hard behaviour | what makes it correct |
|---|---|---|---|---|
| Control loop (`Greenhouse`) | last reading, fan command, previous delta, CO2_WAIT | update_sensors, actuate, emergency, pursue_CO2_target | target changed while blocked, failed reads and writes, boot with an unknown fan register | no dosing into a running fan, doses apart and within the margin, no change slept on, omission stops both actuators |
| Actuators (`Actuator`) | `mSetPower`, device register, rotor, valve pin | set_power, running, read_power, put_state | two writes per call, lost writes, a cached power | the device follows the command |
| User input (`SwitchHandler`) | screen, phase, pending and current target, pending character, strings | state_toggle, insert, next_phase, omit, backspace, rotation | mailboxes written one by one beside Display, lost interrupts, debouncing | what is shown is what a press acts on |
| Screen (`Display`) | last value peeked of each mailbox, last phase | update: status or network screen | stale locals, redraw requests merged in a binary semaphore | the screen at rest shows the mailboxes |
| Persistence (`Storage`, `EEPROM`) | EEPROM cells, log index | store, boot fill, put/get with CRC | reads the mailbox when it gets to it, full queue, power loss in a write, race with input at boot | the last confirmed value survives |
| Log (`Logger`) | `qSyslog`, lost counter, mutex | log, run | queue full, counter reset beside producers | losses are reported, nobody sleeps on one |
| UART driver (`PicoOsUart`) | two queues, two hardware FIFOs, interrupt masks | write, read, interrupt handler | the task fills the FIFO from the queue the handler empties | bytes leave once and in order, none stays behind |
| Modbus client (`ModbusClient`, `ModbusRegister`, `nanomodbus`) | the response so far | read or write one register | silent, cut, damaged, late answers on a line without transaction numbers | an answer belongs to its request, the line is clean for the next |
| I2C driver (`PicoI2C`) | transfer counters, command FIFO, notification, mutex | transaction, interrupt handler | refusals, a bus that hangs, a timeout that races the notification, two tasks on one bus | one frame per transaction, in its buffer, and back; a full count means a complete transfer |
| Switches | last edges | interrupt handler, debouncing | edges queued and handled late, lost | a calm press counts |
| Display driver (`keijo/display`) | frame buffer; the display's registers and address counters | init, show, and every way of drawing | nobody looks at what a transaction returns; clipping, rounding, copying in place | each call changes the pixels it means; the picture comes back after a failure |
| Network stack (`keijo/ipstack`) | receive ring buffer, connection | connect, read, write, callbacks | callbacks preempt the reader and share its count | bytes in order; not called from `main` |
| Kernel heap (`heap_4.c`) | blocks with headers, list of the free ones | malloc, free | overflowing sizes, splits, any order of frees | nobody's memory overlaps, none is lost |
| Kernel event groups (`event_groups.c`) | bits, waiting tasks | wait, set, clear, sync, from interrupts too | a wait that runs out, bits that others clear, a rendezvous | woken for the bits one waits for, all or nobody meets |
| SDK locks (`port.c`) | spin lock noted, bits of the locks | lock, wait, unlock, yield | the spin lock is given back by whoever enables interrupts | nobody oversleeps a lock |
| Kernel task life (`tasks.c`) | state lists, event items, memory to be freed | create, delete, suspend, resume, change priority, abort a delay, notify | each may meet each other, and interrupts | the lists agree, the highest task runs, memory is freed once |
| Kernel stream buffers (`stream_buffer.c`) | ring, head, tail, who waits | send, receive, reset, trigger level, from interrupts too | no lock between writer and reader | whole messages in order, nobody oversleeps |
| Kernel queues (`queue.c`) | ring, two lock counts, two event lists | send, overwrite, receive, peek, from tasks and interrupts | blocking is a sequence of critical sections with interrupts between them | first in, first out; no wakeup lost |
| Kernel time (`tasks.c`) | tick count, two delayed lists, pended ticks | delay, wait with timeout, tick, resume | overflow, pended ticks, wakings before the time | not a tick too long or too short |
| Kernel timers (`timers.c`) | two timer lists, command queue, last time | start, the daemon's loop | overflow between order and command, missed periods | no callback early, no expiry slept past |
| Kernel mutexes (`queue.c`, `tasks.c`) | holder, borrowed priorities | take, give, give up | nesting, sleeping holders, timeouts | no priority inversion |
| Kernel scheduler (`tasks.c`, `list.c`) | ready lists with cursors, yields pending | block, ready, inherit, tick, switch | interrupts while the scheduler is suspended or a switch is due | the highest ready task runs, peers take turns |

## 2. Modules

| module | models | built on |
|---|---|---|
| `Actuator` | fan and emitter as operators, with lost writes and failed reads | |
| `DoseCycle` | abstract: CO2 is let in dose by dose | |
| `Greenhouse` | the control loop, its timers, and what the other tasks do to it | `Actuator`, implements `DoseCycle` |
| `CharMap` | the character a turn of the rotor leads to | |
| `Mailboxes` | the queues and semaphores | |
| `SwitchHandler` | every handler of user input | `Mailboxes`, `CharMap` |
| `Display` | a redraw, peek by peek | `Mailboxes`, `CharMap` |
| `UserInterface` | handler and display side by side | `SwitchHandler`, `Display` |
| `Storage` | boot fill, commands, EEPROM entries | `Mailboxes` |
| `Persistence` | handler and storage over resets | `SwitchHandler`, `Storage` |
| `Uart` | task, interrupt handler and hardware of one UART | |
| `Modbus` | one Modbus RTU client with its devices | |
| `TaskNotify` | notifications: take with a timeout, notify from an interrupt | |
| `I2C` | `PicoI2C` with two tasks on a bus, its interrupt and the controller | `TaskNotify` |
| `LossCounter` | the loop of SwitchHandler, Storage and Logger over a queue with a counter of losses | |
| `SwitchInput` | from the pins to the events that count | |
| `KernelTasks` | the tasks, as the kernel's parts see them | |
| `BoundedQueue` | abstract: a bounded FIFO, a mailbox if its length is 1 | |
| `KernelQueue` | `queue.c` with its event lists | `KernelTasks`, implements `BoundedQueue` |
| `KernelClock` | ticks, delays, timeouts | `KernelTasks` |
| `KernelTimers` | the timer daemon and those who start timers | `KernelClock` |
| `KernelMutex` | mutexes and priority inheritance, priorities obeyed | `KernelTasks` |
| `MutexTimeouts` | mutexes taken with a timeout, and what a task lent that gives up | `KernelMutex` |
| `KernelScheduler` | how priorities are obeyed: ready lists, yields, switches of context | `KernelMutex` |
| `Allocator` | abstract: pieces of memory that never overlap | |
| `Heap` | `heap_4.c` | implements `Allocator` |
| `EventGroups` | `event_groups.c` with the timer task that interrupts leave it to | `KernelTasks` |
| `PicoSync` | the locks of the SDK on it, `port.c` | `EventGroups` |
| `TaskStates` | creation, deletion, suspension, priorities, notifications | `KernelTasks` |
| `StreamBuffer` | `stream_buffer.c`, one writer and one reader | |
| `IPStack` | the TCP client of `IPStack.cpp` and lwIP's callbacks | |
| `Oled` | `ssd1306os.cpp` and the display behind it | |
| `FrameBuffer` | `framebuf.cpp`, `mono_vlsb.cpp` as functions from buffer to buffer | |
| `SwitchHandlerProofs` | lemmas about the handler's steps and its outbox | `SwitchHandler` |
| `UserInterfaceProofs` | theorems about the mailboxes and what is drawn | `UserInterface`, `SwitchHandlerProofs` |
| `PersistenceProofs` | theorems about what is saved and restored | `Persistence`, `SwitchHandlerProofs` |
| `DriverProofs` | theorems about the UART driver, the Modbus client and the I2C driver | `Uart`, `Modbus`, `I2C` |
| `ApplicationProofs` | theorems about the control loop, the loss counters, the debouncing, the order of the characters and the ring of the network client | `Greenhouse`, `LossCounter`, `SwitchInput`, `CharMap`, `IPStack` |
| `KernelProofs` | theorems about the heap, event groups, the SDK's locks and stream buffers | `Heap`, `PicoSync`, `StreamBuffer` |
| `TaskProofs` | theorems about the life of tasks and about the time: delays, timeouts, timers | `TaskStates`, `KernelTimers` |
| `QueueProofs` | theorems about `queue.c`: queues (the refinement, the waking of who waits) and priority inheritance; about the scheduler and its ready lists | `KernelQueue`, `MutexTimeouts`, `KernelScheduler` |
| `MCGreenhouse`, `MCUserInterface`, `MCPersistence` | values, views and bounds for TLC | |
| `MCDrivers` | the drivers and the switches as layers, one at a time | `Uart`, `Modbus`, `I2C`, `SwitchInput`, `Oled`, `FrameBuffer` |
| `MCKernel` | the kernel's parts, the loops over its queues and the network client, one at a time | all of them |

How state and actions correspond to the code:

* **`Greenhouse`.** Members keep their names (`mFan`, `mCO2Target`, ...), and
  mailboxes and semaphores theirs. The task has the highest priority of the
  application, so nothing else runs between two points where it blocks: an
  action is the code from one such point to the next, and the branch of
  `pursue_CO2_target` that is taken is an action of its own (`Vent`, `Dose`,
  `Hold`, `Diffusing`). The loop of `emergency` is one action per Modbus request.
  The level is whatever the environment says: no property assumes that the
  actuators have an effect.
* **`Actuator`.** `SetPower` is `Fan::set_power` with both its writes, each of
  which may be lost; `Running` and `ReadPower` return anything if the request
  failed, because `nanomodbus` stores the value before it looks at the checksum.
* **`SwitchHandler`.** An event is one action; the mailbox writes, gives and
  stores it ends with are put in `outbox` and done one step at a time, since
  another task may run between any two.
* **`Display`.** One step per peek. `frame` is what can be told apart of what
  was drawn, `screen` the last frame that was sent.
* **`Storage`.** An entry of the EEPROM is its value, or `Empty` if its CRC does
  not fit; a write is two steps and power may fail between them.
* **`Uart`.** One step per byte, in the task's fill and in the handler. Bytes to
  transmit are numbered, so that order and loss show.
* **`Modbus`.** One action per `recv` of a response. A byte knows the frame it
  was sent in, so that a property can tell whose answer was taken.

* **`I2C`.** The handler is three steps (drain, fill, stop) against a controller
  that executes commands at its own pace; a byte is one of a number.
* **`LossCounter`.** One module for three loops of one shape. Producers of higher
  priority, or interrupts, count in one step; Storage, of Logger's own priority,
  in two halves.
* **`SwitchInput`.** An event carries the stamp of its interrupt; `calm` is what
  the pin really did.
* **`KernelQueue`.** One critical section is one step, and interrupts come between
  any two: try, suspend, lock, check, place, unlock (two sections), resume.
  Semaphores are queues whose items are all alike.
* **`KernelClock`, `KernelTimers`.** Tick counts are numbers modulo `TickRange`.
  `left`, `due` and `age` are history: the time as a watch would show it.
* **`KernelMutex`, `MutexTimeouts`, `KernelScheduler`.** The first has the mutexes as
  the program takes them, without a timeout; the second adds timeouts, whose length
  is "it may be over at any time". Between noticing it, looking at the mutex once
  more and taking back the lent priority the mutex may change hands, so these are
  steps. It assumes that a ready task of the highest priority runs;
  `KernelScheduler` has the lists, `xYieldPending` and the PendSV request by which
  the kernel achieves that, and the steps of `KernelMutex` inside. Its clock is
  reduced to "a delay ends with some tick".

* **`Heap`.** Addresses are numbers, sizes wrap at `heapSIZE_MAX`. Each call is one
  step, since the scheduler is suspended and interrupts may not call it. The free
  list is a function from a block to the next.
* **`EventGroups`, `PicoSync`.** What is between suspending and resuming the
  scheduler is one step, as interrupts only leave messages for the timer task.
  `PicoSync` has the points inside `vPortEnableInterrupts` at which an interrupt can
  come as steps.
* **`TaskStates`.** A critical section is one step; a call that suspends the
  scheduler is as many as it has critical sections. Only tasks that
  were suspended are resumed, as the interface demands. (`prvTaskIsTaskSuspended`
  would also be true of one that waits for a notification without a timeout.)
* **`StreamBuffer`.** A call is the steps between which the other side can see
  something: look, note that one waits, block, copy, move the index, wake. Reset is
  only called when the caller sees to it that nobody is inside, which the kernel
  does not check for those who are not blocked. The trigger level changes
  between calls of the reader; nobody is woken by it.
* **`IPStack`.** The build has lwIP in a task of its own
  (`pico_cyw43_arch_lwip_sys_freertos`), so a callback may come between a load
  and a store of `count` in the reader; `torn` remembers that it did.
* **`Oled`.** A transaction is a step and may fail. The device is modelled by what
  its commands do to what is shown: registers, and whether its address counters
  are where a frame starts.
* **`FrameBuffer`.** A byte is the set of its bits. Every call is compared with
  `Meant`, the picture as a set of pixels, which knows neither bytes nor loops.

An operator with the comment "Variant of" is a plausible mistake in
the definition that follows it; no specification uses one. It documents what
each property would notice.

## 3. Runs

| run | instance | states | shows |
|---|---|---|---|
| `greenhouse_safety` | the source's constants, levels 790, 1200, 2100, targets 500 and 800, one failing request | 1.7 million | the valve never opens with the fan's register on; the device follows the command; no dose is planned beyond the margin; no change of the target is slept on; doses come in cycles |
| `greenhouse_live` | levels 790 and 1200, target 800, one failing request | 78 thousand | doses end and are repeated, a high level is vented for good, an omission switches both actuators off for good |
| `emergency_coasting` | as above, reliable bus | | violated, see 6 |
| `ui_status` | targets 0 and 1, empty strings | 0.8 million | the status screen at rest is right |
| `ui_network` | one target, strings of up to one character | 1.0 million | mailboxes agree with the handler, the strings and the box of the network screen at rest are right, no unwritten buffer is drawn; when the user stops, the whole of either screen becomes right and stays so, but for the two cases `Settles` names |
| `ui_ghost` | no strings | | violated, see 6 |
| `persistence` | one watched entry, targets 0 and 1 or strings of one of two characters, queue of 1 | 1.1 million | what was confirmed is what the EEPROM holds, over resets, torn, refused and lost writes |
| `boot_race` | the same, with a slow EEPROM | | violated, see 6 |
| `drivers` | six layers, one at a time, see below | 91 thousand | the properties of the drivers and the switches |
| `modbus_late` | the same requests, late answers | | violated, see 6 |
| `kernel` | twelve subjects, one at a time, see below | 1.3 million | the properties of the kernel's parts, of the loops over its queues and of the network client |
| `spin_lock_left` | the subject of locks alone | | violated, see 6 |

The layers of `drivers`:

| layer | instance | property |
|---|---|---|
| uart | queue of 3, FIFOs of 2, trigger level 1, 7 bytes | `InOrder`, `NoStall`, `Unblocked`, `Drains`: bytes leave once, in order and all, and no call waits for room nobody makes |
| modbus | five requests to two devices, every fault but late answers and damaged headers | `AnswerBelongs`, `LineClean`, `RequestsReturn` |
| i2c | two tasks, transfers shorter and longer than a FIFO of 3, one refused byte, hangs | `TransactionIsWhole` (one frame, within its buffer), `RequestsReturn`, `TransfersAreHonest` (until a transaction times out a full count can be believed, and nobody's transfer is cut short) |
| oled | 128 x 64, up to three lost transactions | `PictureIsRight`: the second of two frames that get through is where it belongs |
| drawing | 4 x 12 pixels, the second page cut short, 108 calls inside, at and beyond every edge, each two after one another | `PictureIsRight`: the pixels that are meant change and no others |
| switches | a button, the pressed rotor and its turns, a queue of two, 5 instants, a debounce of 1 | `CalmEventCounts` |

The subjects of `kernel`:

| subject | instance | property |
|---|---|---|
| queue | three tasks of different priorities, a queue of two with every kind of waiting or a mailbox, interrupts that send and receive | `QueueIsFifo`, `NobodyOverslept` |
| clock | 8 tick values, delays of 1 and 7, timeouts of 3, one pended tick, an interrupt that wakes | `OnTime` |
| timers | 8 tick values, a periodic timer of 2 and a one-shot one of 5, a queue of one command, a daemon that may be two ticks late | `OnTime` |
| mutexes | three tasks, the log's mutex taken alone and within the store's, a bus mutex, holders that sleep, the higher two may give up at once or in time | `NoInversion` (with `PriorityIsLent`: nobody keeps a priority lent by one who gave up) |
| scheduler | a higher task, three peers one of which takes the mutex it shares with the higher task inside another, the idle task, ticks and interrupts at any point | `HighestRuns`, `PeersTakeTurns`, `NoInversion` |
| losses | each of the three readers, a queue of two, two losses | `NeverSleepsOnLoss` |
| heap | 33 bytes, headers of 2, requests of 1 to more than a size can say | `HeapIsSound`, `MemoryIsExclusive` |
| events | three tasks that wait for any or all of the bits, take them or not, meet; interrupts and a timer queue of one | `WokenForItsBits`, `MeetTogether`, `NobodyOverslept` |
| locks | two locks, one of them given by an interrupt, waits with and without a timeout | `NobodyOverslept` |
| states | one task that is there and those it creates, interrupts that resume and notify | `ListsAgree`, `HighestRuns`, `NobodyOverslept` |
| net | a ring of three bytes, segments of two and four, reads of three, reconnections | `StreamIsWhole` |
| streams | four bytes of ring, messages of one and two bytes or a stream, trigger levels, tasks or interrupts on either side | `StreamIsWhole`, `NobodyOverslept` |

Where a property of `MCKernel` or `MCDrivers` has the parts of several modules, it says of
each subject what its module's property of that name says.

**Bounds, and why they are enough.**

* `MaxFaults = 1` and `MaxFaults = 0`: one failing request separates "the device
  may differ from what was commanded" from "it does not". The safety theorems of
  section 4 hold for any number.
* `MCLevels` has a reading on either side of every comparison of the loop, for
  both targets: below 800 and within the margin of 500 (790), above both margins
  (1200), above `CO2_FATAL` (2100), and 0 from a failed read.
* Strings of one character are full and empty, the two cases the code tells
  apart; targets 0 and 1 are both ends of the range. A storage queue of one is
  full after one command.
* `View` in `MCUserInterface` and `MCPersistence` leaves out what no action and
  no property reads in the situation (each has a comment that says why), and
  `Focus` in `MCPersistence` enters characters, or turns and keeps a target, only
  for the entry the property watches, which is any of the four. `ui_network` has
  its `View` for `Settles` too: what it leaves out enables and disables no step and is
  not in the property. `ui_status` has neither.
* `Settles` is checked with one target: whether the target is drawn as pending is
  left to `StatusShown`, at every rest, with two.
* In layer `uart` of `drivers` a message may be as long as the queue, longer than the FIFO, and the
  trigger level lies inside the FIFO; 7 bytes are two messages and one more.
* In layer `modbus`, `Ids = 2` tells a request from the one before it; with the line
  clean in between nothing older can be left. `modbus_late` has four.
* In layer `i2c` a transfer may be shorter than the FIFO, fill it, or need it twice; the
  driver itself tells nothing else apart. `RxLevel = 2` lies inside the FIFO. (At
  the lowest level a byte that stays behind after a timeout would keep the
  interrupt raised with nobody to take it; the real level is 15 of 16.)
* Three lost transactions spoil a frame's column, its page and the frame itself. The
  area, the values and the length of a frame are the real ones.
* A picture of 4 x 12 has a full page, a page cut short, and lines with slopes on
  either side of 1 in every direction; two calls draw over each other. The functions
  do not depend on the size in any other way.
* In `kernel`, a wait of 7 of 8 ticks and a delay of 1 cross the overflow from
  either side; `MaxLate` says how long a ready task may wait for the processor. No
  bound of this kind is in the code: a daemon that is late by the whole range of
  2^32 ms would miss expiries. Three tasks on an event list of a queue are as many
  as a sequence of "waits, is waiting, is being woken" tells apart, and three peers are the
  fewest for one to pass another twice.
* A heap of 33 bytes has room for three allocations with a hole between them, the
  fewest for a block that grows on both sides; 63 as the largest size makes requests
  overflow by their header, and by their alignment.
* Rings of three and four bytes are crossed by every message, at every place. Bytes are
  numbered modulo 2 or 3, enough to tell the one that is due from its neighbours.
* `View` in `MCKernel` names what the subject changes; the rest is as at the start.

**Fairness.** `Greenhouse!FairSpec`: the task and the timer daemon are the two
highest in priority and run whenever they can; the two timers expire. Nothing is
assumed of users, lower tasks, the level or the rotor. `UserInterface!FairSpec`:
the two tasks share the processor by time slices (`configUSE_TIME_SLICING`, equal
priority) and finish what they began; events are not fair, and `Settles` is
about users who stop. It speaks of the whole screen, labels and headings
included, and has two exceptions, the first frame and the ghost of `ui_ghost`, either
only while nobody asks for another redraw. `Uart!FairSpec`: the line does not stop, an enabled and
raised interrupt is taken (strongly fair, since write masks it now and then), and
a call of write goes on. Of the Modbus client: a read of the UART returns by its
timeout at the latest, and answers that are not late arrive. Of the I2C driver: the tick ends a wait after its
second, a task that was woken goes on, and an interrupt that is raised and enabled
is handled; nothing is assumed of the controller or the device. `DriversSpec` is all
of these, for the layer that is looked at.
`CHECK_DEADLOCK` is left on everywhere.

## 4. What is proved

TLAPS proves the following for every value of the constants that the assumptions
in the modules admit.

**The control loop** (`ApplicationProofs`, from `ActuatorAssumption` and
`GreenhouseAssumption`): any sets of levels and targets, any number of failing
requests, any emission rate, period bounds and margin as long as the shortest
dose fits in the margin.

| theorem | property |
|---|---|
| `TypeCorrect` | `TypeOK` |
| `EmitterExcludesFan` | on a reliable bus the valve is never open with the fan's register on, whatever the register held at boot |
| `DeviceObeys` | on a reliable bus the register is what `mFan` says whenever the loop waits |
| `EmissionStaysInMargin` | no dose is planned to lift the level beyond the margin |
| `TargetsNoticed` | no change of the target is slept on |
| `ImplementsDoseCycle` | `Greenhouse` implements `DoseCycle` |

None of these is inductive as it stands. `FanObeys` speaks of the waiting loop;
its strengthening `FanInv` holds everywhere, and adds that the emergency branch,
the only one that sets `mFan` without setting the register, is only entered with
`mFan = MAX_POWER`. `DoseInv` ties the open valve to the task sleeping in the
emission, with the fan commanded off and the period calculated from the reading
and the target it still has; with `DoseBound`, the arithmetic of the clamped and
truncated quotient, it gives the margin, and with `FanInv` the exclusion.
`TargetInv` extends `NoMissedTarget` to the emission, in which changes also wait.
`DiffusionInv` says that the timer remembers the dose, which is what keeps a step
from opening the valve while `DoseCycle` is spreading. `IInv` is their
conjunction with `TypeOK`; the lemmas `ActuateIInv`, `TaskIInv` and
`EnvironmentIInv` show that every action preserves it.

**The user interface** (`UserInterfaceProofs`, from `MailboxesAssumption`,
`CharsAssumption` and `GarbageAssumption`): any targets, any characters, any length of
strings and of the storage queue.

| theorem | property |
|---|---|
| `TypesAreCorrect` | `TypeOK` |
| `MailboxesStayInAgreement` | `MailboxesAgree`: at rest every mailbox holds what the handler believes |
| `StatusIsShown` | `StatusShown`: the status screen at rest shows the mailboxes |
| `StringsAreShown` | `StringsShown`: so does the network screen |
| `GarbageIsNeverDrawn` | `NoGarbageDrawn` |

The lemmas of `SwitchHandlerProofs` say of every handler that what it puts into the
outbox writes no mailbox twice (`Distinct`) and leaves, once all of it is done, the
mailboxes in agreement with the members (`Agreed`, stated by `After`, the mailbox after
the rest of the outbox); a step of the outbox keeps `After`. `AgreeInv` is that, with
`Booting` for the time before. `DrawInv` is about a redraw under way: unless somebody
has asked for another, or still has that in the outbox (`Asked`), every local the display has
peeked is what the mailbox holds (`UpToDate`). It needs that a redraw is the last
operation of an outbox that changes what is drawn (`RedrawLast`), and that the strings
are there before the screen is switched (`StringsThere`).

**Persistence** (`PersistenceProofs`, from the same and `QueuedAssumption`): the same
constants, any sequence of resets, torn, refused and lost writes, whichever entry is watched.

| theorem | property |
|---|---|
| `TargetIsSaved` | `TargetSaved` |
| `StringsAreSaved` | `StringsSaved`, but for a string that was begun before Storage had read the stored one (section 6) |
| `TargetIsKnown` | `HandlerKnowsTarget` |
| `ResetsAreRight` | `ResetsToTarget`, of the specification in which Storage looks for the target within the handler's second |

`TargetInv` and `StringInv` say that unless a write was refused or lost, either the EEPROM,
or the copy that is being written, is what the mailbox holds, or Storage has still to look
(`StoreDue`: its command is in the outbox, in the queue, or just received); that is enough since a new target is in its mailbox
before Storage is told (`StoreLast`). `BootOK` has what both tasks are doing
meanwhile. `ResetsAreRight` is the property that the run `boot_race` violates: it holds
with `InTime`, that Storage has looked for the target within the handler's second, so the finding is
about that second only. `InTime` asks no more: the handler goes on as soon as its mailbox is
filled, and its events come between any two of the boot's later steps, the pending
target and the strings.

**The UART driver** (`DriverProofs`, from `UartAssumption`): queues, FIFOs and
trigger level of any size, and any number of bytes.

| theorem | property |
|---|---|
| `TypeCorrect` | nothing overflows |
| `BytesInOrder` | `InOrder` |
| `NothingStalls` | `NoStall` |
| `WriteUnblocked` | `Unblocked` |

The invariant's parts: `Numbered` (FIFO, the task's local byte and the queue hold,
in this order, consecutive numbers after the last one sent), `Exclusive` (during
the task's fill the interrupt is masked and its handler not running), `Armed` (bytes in the
queue outside of write are left to an interrupt that is on, and that is raised or
will be), and `Room` (while the interrupt is off, the queue has room for the rest
of the message: this is where the length of a message matters).

**The Modbus client** (`DriverProofs`, from `ModbusAssumption` and `CleanFaults`): any
requests, length of the receive queue and bounds, and the faults other than late answers and
damaged headers. Those two are no restriction of convenience: with either of them the theorems are false
(section 6).

| theorem | property |
|---|---|
| `AnswersBelong` | `AnswerBelongs` |
| `LineStaysClean` | `LineClean` |

`ModbusInv` says that the client, the queue and the line together hold one frame, an answer
or an exception to the request at hand (`Answered`), that the client is at the part of it
that its length says (`Progress`), and that between requests queue and line are empty.

**The I2C driver** (`DriverProofs`, from `I2CAssumption`): any tasks and lengths of
transfers, any depth of the FIFO and level of its interrupt, any number of refusals.

| theorem | property |
|---|---|
| `TransactionsAreWhole` | `TransactionIsWhole` |
| `CountsAreHonest` | `TransfersAreHonest` |

`FrameInv` derives from the counters what has been written to the command FIFO: the
transfer as far as the counters say, the restart once, the stop with the last byte
(`Written`). `CountInv` adds where these commands are: the first have crossed the bus, one is
on it, the others are in the FIFO (`Underway`), and a stop is only seen once all have crossed or
one was refused (`StopInv`). Both of these hold until a transaction times out, since a late
stop then belongs to a transaction that is over; `TransfersAreHonest` says the same.

**The rotor's characters** (`ApplicationProofs`): a turn goes exactly one place on or
back in the order that the comment in `SwitchHandler.cpp` (300-306) describes,
a turn back undoes a turn, and only the ends ignore one.

**The loops over lossy queues, the switches and the network client** (`ApplicationProofs`, from
`LossAssumption` and `InputAssumption`; `IPStackParameters`):

| theorem | property |
|---|---|
| `NobodySleepsOnLoss` | `NeverSleepsOnLoss`, for any length of the queue and number of losses |
| `CalmCounts` | `CalmEventCounts`, for any buttons, debounce time and length of the queue |
| `ReadsAreWhole` | `StreamIsWhole` of the network client, for any ring, segments and reads |

The first rests on `Counted`: a loss that is owed is still in the counter. The second on
what the queue and the handler's memory of the last event have in common: `Remembered`
(what the handler remembers of a button is not after the last edge of its pin), `Stamped`
(nor is a press in the queue) and `Spaced` (a calm event in the queue is more than the
debounce time after what the handler remembers, and after all of its pin's before it).

The third has two parts. The bounds (`ReadInBounds`) hold even after an addition to the
count was lost: lwIP only adds while a read is under way, so what the read once loaded is never more than
what is there. The order (`RingOK`, `GotOK`) holds until then: from the oldest place on, which
moves when the reader wraps around, the ring holds what was accepted and not yet returned.

**The heap** (`KernelProofs`, from `HeapAssumption` and `RoomAssumption`): any size, address
and alignment, headers of any size, and any sequence of requests.

| theorem | property |
|---|---|
| `MemoryIsNotLost` | `HeapIsSound`: blocks side by side without a gap, the free ones linked by address, no two of them touching, their bytes counted |
| `HeapAllocates` | `MemoryIsExclusive`: `Heap` implements `Allocator` |

The invariant is stated for any pair of a table of sizes and a list, since the functions
of `heap_4.c` pass through states in which a block is in neither: `Sound` is
`Sizes`, `Tiles`, `Ordered`, `Covers` and `Apart2`, and `InsertionSound` (four cases: the
block joins what is before it, after it, both, or nothing), `UnlinkSound` and
`SplitLoose` say what an insertion, an unlinking and a split do to it. `Reserved` adds that every
allocated block has room for what was asked, through `SizeSuffices`, where the
overflow of sizes matters. `BytesCounted` says that `xFreeBytesRemaining` is the number of addresses in
free blocks: `InsertionBytes` and `UnlinkBytes` show that joining neighbours changes no byte's owner, so that an insertion
adds and an unlinking takes exactly the bytes of its block, and a split the difference.

**The queues of the kernel** (`QueueProofs`, from `TasksAssumption` and
`QueueAssumption`): any length, any tasks and calls, timeouts, and interrupts at any point.

| theorem | property |
|---|---|
| `RingIsFifo` | `QueueIsFifo`: `KernelQueue` implements `BoundedQueue` |
| `NoWakeupIsLost` | `NoLostWakeup`, the part of `NobodyOverslept` about queues |

For the first the invariant is `Ring`, the write pointer is as many places after the read pointer
as there are items, with `Offers`, what the calls under way will send;
each of the five ways to touch the storage area is shown to be `Put`, `Replace`,
`Get` or `Look` of the abstract queue, and everything else a stutter. The assumption
that only queues of length 1 are overwritten is `configASSERT` in `queue.c`.

For the second, who waits and who comes are counted for each side of the queue at once (`Sides`):
`Reached` says that there is no more for those who wait (`Available`) than tasks on their way
to it (`Coming`) and marks in the lock count (`Mark`), unless the marks
suffice for all who wait. It holds because of where everybody is: who is in a list
is blocked, waits for that list's side, is in no other, and tries again when woken (`WaitersOK`,
`BlockedOK`); the queue is locked exactly between `prvLockQueue` and `prvUnlockQueue`
of the task that suspended the scheduler (`LockedOK`); and since this task found nothing, whatever
came was counted (`Seen`), which carries the invariant over the moment it places itself.
The cap of the count (`prvIncrementQueueTxLock` stops at the number of tasks) needs
that no list holds a task twice, so that the cap is enough for everybody (`ManyWoken`).

**Event groups** (`KernelProofs`, from `TasksAssumption` and `EventAssumption`): any bits,
tasks and calls.

| theorem | property |
|---|---|
| `WokenTasksHaveTheirBits` | `WokenForItsBits` |
| `WaitersLackBits` | `NobodyWaitsForSetBits`, the part of `NobodyOverslept` about event groups |
| `TasksMeetTogether` | `MeetTogether` |

The first two are inductive with the types. For the third, `MeetInv` counts: nobody has passed the
rendezvous more often than anybody has come to it (`Passed`, which includes those already
woken), whoever's bit is set has come once more than anybody has passed, and the bit
stays set while its task waits. The hypothesis is `Rendezvous(Own)`: each of those who
meet has a bit of its own that nobody else sets, takes or clears; TLC evaluates it for the run as `MCRendezvous`.

**The locks of the SDK** (`KernelProofs`, from `LockAssumption` and those of event groups): any
locks and tasks, locks that share event bits, interrupts that give locks.

| theorem | property |
|---|---|
| `WaitersAreTold` | `NotificationReaches` and `NobodyWaitsForSetBits`, the part of `NobodyOverslept` about locks |

`LockInv` ties the list of the event group to where the tasks are: who is in it is in the wait
for the bit of its lock (`WaitersKnown`) and lacks that bit (`WaitersLack`). Where a lock can be had although
somebody waits for it, its bit is about to be set, by the task that gave it back or by a message to the
timer task, or a message was lost because the queue was full. Setting the bit wakes all who wait for it (`SetBitsTells`), among
them those who wait for another lock with the same bit, who look again. The lock is noted as waited
for under the spin lock, so that nobody gives it back in between (`EnterStep`).

**The life of tasks** (`TaskProofs`, from `TasksAssumption` and with `StatesParameters`): any
tasks, priorities old and new, calls and interrupts.

| theorem | property |
|---|---|
| `UrgentTaskRuns` | `HighestRuns` of `TaskStates` |
| `NotifiedTasksWake` | `NobodySleepsNotified`, the part of `NobodyOverslept` about notifications |
| `TasksAreAccountedFor` | `ListsAgree` of `TaskStates` |

They need each other: `TheHighest` says that nobody who is ready is above the running task unless a
yield is due, or noted for the one who suspended the scheduler, and needs that this task stays ready; `TaskOK` ties
both list items of a task, what it waits for and where it is in a call to its memory; `VictimOK`
and `FreedOnce` say that the memory a task is about to free is in no list, in use, and nobody else's to free
(`vTaskDelete` frees it after the critical section, and the idle task looks at its
list only then); `Counted` that the idle task's count is that of its list, without which it
would take the head of an empty list. `vTaskSuspend` makes a task that waits for a
notification forget that it does, so the second theorem leaves out those it suspended (`frozen`).

**The time** (`TaskProofs`, from `TasksAssumption`, `ClockAssumption` and `TimersAssumption`,
with `ClockParameters` and `TimersParameters`): any range of the tick count and of the count of its
overflows, any delays, timeouts, timers and periods.

| theorem | property |
|---|---|
| `WaitsAreExact` | `TimeIsExact`: of delays and timeouts |
| `TimersAreOnTime` | `OnTime` where tasks order timers: no callback too early, no expiry slept past |

The parameters say how late one may be: a task may be ready for `MaxLate` ticks before it
looks at the time, and if the tick count came around within a timeout, a period or the way of a command,
what the code computes would be wrong, as it would with 2^32 ticks of 1 ms in the program.

What is compared modulo `TickRange` is first related to the watch. `Delayed` says that the current
list holds what wakes before the tick count overflows and the other one what wakes after, so that `Rest`, the
ticks until a task wakes, is a number that goes down with each tick (`TickedIs`), and by several when
pended ticks are made up for (`TickedTimesIs`, by the well-founded order of the naturals). `ClockInv` adds
that `Rest` is what is `left` (`DelayOK`), and of a wait that the tick count and the count of overflows are
those of its entry after so many ticks (`WaitedFor`), from which `TimedOutIsRight` follows: the two
comparisons of `xTaskCheckForTimeOut` say "over" exactly when it is.

`TimersInv` counts from the overflow that the daemon's current list begins with: `Now` is the time, `At` when
a timer expires, and `TimerOK` that their difference is what is to come of its period (`due`), also
for the timer that is being reloaded and in neither list. `Lag` is how long ago the daemon looked at the
time: it is bounded (`LagOK`) whenever a timer is listed or the daemon is busy, since it sleeps no longer
than until the first expiry or the overflow; with no timer at all it sleeps for good, and the lists are
exchanged when a command comes. `OrderedAt` and `Age` say of every command, from the reading of the tick count to
its handling, how long ago it was ordered, which is what `prvInsertTimerInActiveList` (`ProcessNowIs`) needs to tell
a start before an overflow from a timer that expires after one.

**Mutexes** (`QueueProofs`, from `TasksAssumption`, `MutexAssumption` and
`BlockTimesAssumption`): any tasks, priorities, nests and timeouts.

| theorem | property |
|---|---|
| `SharedByPriority` | `ShareInv`, the invariant below |
| `HoldersInherit` | `HolderInherits`, the first part of `NoInversion` |
| `LentIsGivenBack` | `PriorityIsLent`, the second part |

`ShareInv` is about lists and priorities at once: the waiting list of a mutex is sorted by
the priorities its tasks have (`Listed`), the holder has at least the priority of the first
(`Inherits`), a mutex that is free although somebody waits has an heir under way with
at least the priority of those left (`Heirs`), and who holds nothing has its own priority
(`OwnPriority`). `LentInv` adds that a task that waits knows that it lent something (`Noted`), which
is what it consults when it gives up. The hypothesis `OuterUncontended`, that an
outer mutex of a nest has one taker, is needed: the kernel raises only the holder of the mutex
one waits for, not whom that one waits for, and does not sort that list again, so both
theorems are false for a chain. In the program `Storage::mStoreAccess` is the only outer
mutex and SwitchHandler its only taker (section 6). The nests of the subject `scheduler` satisfy it
(`MCOuter`); those of `mutexes`, whose tasks contend for the outer mutex as well, go beyond it.

**The scheduler** (`QueueProofs`, with `OuterUncontended` and `SchedulerParameters`): any tasks and
priorities, mutexes taken in nests, and interrupts at any point.

| theorem | property |
|---|---|
| `SchedulerInOrder` | `SchedInv`, the invariant below |
| `TheHighestRuns` | `HighestRuns` of `KernelScheduler` |
| `NoInversionUnderScheduler` | `HolderInherits`, `NoInversion` in the scheduler's setting |
| `PeersAlternate` | `PeersTakeTurns` |

`HighestRuns` by itself is not inductive: it says nothing while a switch is due or the scheduler is
suspended, and the highest ready task is found in lists. `Obeyed` says what remains true then: the task that has
the scheduler suspended is not below any ready task, since whoever is woken meanwhile waits in
`xPendingReadyList` (`Pending`). `Arranged` ties the lists to the tasks: the list of a priority holds exactly the ready
tasks that have it, each once, `top` is not below any list in use, and a task that was passed over stands, as
seen from the cursor, before whom it was passed for; this is what `PeersTakeTurns` follows from, and what
`uxListRemove` must preserve when the cursor stands on the task that leaves (`RemoveFacts`). The priorities change while
tasks are listed, so `ShareInv` of the mutexes is a part of it, with `Borrowed`: a task that holds one mutex by itself and has more than
its own priority has a waiter with at least that priority. `xQueueGenericSend` relies on it: a giver only compares the first waiter with itself,
and if that one is not above it, nothing was lent, so no other ready task has come above it by what it gave back.
`SchedulerParameters` is what `main` and `vTaskStartScheduler` do: every task is created once, and the idle task takes no mutex.

**Stream and message buffers** (`KernelProofs`, with `StreamParameters`): any length of the
ring, of messages and reads, any trigger level.

| theorem | property |
|---|---|
| `BytesComeOutAsTheyWentIn` | `StreamIsWhole` of the stream buffers |
| `SleepersAreWoken` | `NobodySleepsInVain`, the part of `NobodyOverslept` about them |

No lock protects the two sides from each other, so each part of `StreamInv` says what one
of them may still believe: the space a sender has seen is never more than there
is (`SenderOK`), the bytes a reader has seen never more than there are (`ReaderOK`), since the other side only moves
its own index. `Kept` relates the ring to what is unread; `Framed` says that this is a
sequence of whole messages, without which the byte at the tail would not be a length. For the
sleepers, `SleepersKnown` (who sleeps has noted it) goes with the order of the
code: note, look again, block, against publish, look for a note.

## 5. What is only model-checked

All liveness properties, which are out of the prover's reach: `DosesEnd`,
`LevelIsDriven`, `OmissionStops`, `Settles`, `Drains`, `RequestsReturn`. The display and its drawing
functions, whose pictures are computed. The type invariants
of the proved modules are theorems, or parts of the inductive invariants.

The properties of the run `kernel` that speak of several subjects are proved one subject at a time, since each
subject has a specification of its own:

| property | proved by |
|---|---|
| `NobodyOverslept` | `NoWakeupIsLost`, `WaitersLackBits`, `WaitersAreTold`, `NotifiedTasksWake`, `SleepersAreWoken` |
| `OnTime` | `WaitsAreExact`, `TimersAreOnTime` |
| `NoInversion` | `HoldersInherit`, `LentIsGivenBack`, `NoInversionUnderScheduler` |
| `HighestRuns` | `TheHighestRuns`, `UrgentTaskRuns` |
| `PeersTakeTurns` | `PeersAlternate` |
| `ListsAgree` | `TasksAreAccountedFor` |
| `StreamIsWhole` | `ReadsAreWhole`, `BytesComeOutAsTheyWentIn` |

Only the nests of the subject `mutexes` are beyond the theorems, as said above.

## 6. Findings

Violations that a run shows, each with its counterexample:

* `emergency_coasting`: `emergency()` takes a rotor that still turns for a fan
  that is powered. If the rotor coasts, the power is never written, and since
  `mFan` then is `MAX_POWER` later emergencies skip the write as well
  (`Greenhouse.cpp` 100-108).
* `boot_race`: if the EEPROM does not answer within the second that
  `SwitchHandler` waits for the stored target, `Storage` overwrites a target that
  the user has confirmed meanwhile, and the handler never learns of it
  (`SwitchHandler.cpp` 47-51, `Storage.cpp` 41). `PicoI2C` waits for the same
  second.
* `ui_ghost`: after the last string was confirmed and another visit to the
  network screen, `Display` takes the phase `state_toggle` has reset for the
  end of the input and draws the labels of the status screen (`Display.cpp` 171).
  They stay until somebody asks for another redraw, which draws the headings;
  `Settles` names this screen, `GhostDrawn`, as its exception.
* `modbus_late`: an answer that comes after the timeout of one second stays in
  the receive queue and is taken for the answer to the next request to the same
  device; RTU frames name neither the request nor the register, and
  `PicoOsUart::flush` is never called (`ModbusClient.cpp` 21).

* `spin_lock_left`: `vPortEnableInterrupts` gives the spin lock back, and the
  interrupts with it, before it forgets it. An interrupt in between may lead to
  another task, which finds `pxYieldSpinLock` set where three assertions say it is
  `NULL` (`port.c` 307-309, 346, 739, 806). Without assertions, and on one core, the lock is
  given back twice and nothing else happens.

Seen while modelling; the second and third follow from section 3's modules with other
constants:

* `Fan::set_power` gives the burst of full power to a fan that was on, not to one
  that was off, against its comment (`Actuator.cpp` 14-17).
* A damaged unit, function code or length byte makes the client give up with the
  rest of the response still in the queue. With `Faults = {"header"}` TLC finds
  `LineClean` violated at once, and `ReadsWhatItAsked` after a few more requests:
  the requests that follow take the rest of the old response for their own,
  two bytes at a time, until one of them finds the frame of an earlier one.
* A damaged length byte also decides how many registers are stored for a caller
  that has room for one, before the checksum is looked at (`nanomodbus.c` 507).
* A failed CO2 reading is 0, or what the damaged answer held, and is acted upon:
  the loop opens the valve for it (`ModbusRegister.cpp` 14, `Greenhouse.cpp` 143).
  What still holds under such readings is checked and proved.
* A lost write of the fan's power is not repeated, since `mFan` already has the
  value (`Greenhouse.cpp` 133); nor is a refused write of the EEPROM.
* After an omission, inserting the same target again does nothing, since
  `insert` compares with `mCO2TargetCurrent`; and the omission is not stored, so
  the next boot finds the target in force again (`SwitchHandler.cpp` 169, 251).
* A user who begins a string while Storage still reads the EEPROM loses it: Storage
  overwrites the mailbox with the stored string, the screen shows that one, and if the
  user's is confirmed before the next edit the stored one is saved again. `StringsSaved` excepts
  it (`Replaced`); without the exception TLC finds it violated. In the same way
  `Storage.cpp` 42 can put the stored target over a pending one just turned to; the
  handler goes on with its own (`Storage.cpp` 42, 51-68).
* `state_toggle` resets `mCharPending` but not its mailbox, so the box shows the
  character chosen before, while a press appends a dot (`SwitchHandler.cpp` 146).
* The emission branch sets `mFan` to off without telling `qFan` or the display
  (`Greenhouse.cpp` 143).

* After an I2C transaction timed out, its stop may still come: before the next
  transaction, whose take then finds the notification waiting and returns at once, or
  within it. A refused short write returns a full count, since all its bytes had been put
  into the FIFO (`PicoI2C.cpp` 160-170).
* `++mLost_Log_event` in Storage may be interrupted by Logger, of the same priority:
  Logger then sleeps on the loss until the next line. Losses between the report
  and `= 0` are wiped; the report of a loss may itself find the queue full, and is
  wiped too; and while items keep coming nothing is reported, as the loop asks for
  the count only when the queue is empty (`Logger.cpp` 67-74).
* `xTimerStart` is only a message: `xTimerIsTimerActive` denies that the timer runs until
  the daemon has read it (`Greenhouse.cpp` 117, 157). The daemon has the highest
  priority but may wait in `passive_update` for the mutex of the log.
* The kernel's inheritance is not transitive and does not sort waiters again. Giving
  back the outer one of two nested mutexes compares with the wrong task if one of
  equal or lower priority contends for it; TLC finds `HighestRuns` violated then.
  The program's only nest is the log's mutex within the store's, and only
  SwitchHandler takes the latter.
* A parameter that the display loses makes the next command its value, and a later
  value a command: 127, the last column, is then "start line 63", which only `init`
  sets back. The picture heals, its first line does not (`ssd1306os.cpp` 107-134).
* `Display` passes the address of a single character to `text`, which reads on to the
  next zero byte in the members behind it (`Display.cpp` 253).
* The receive ring of `IPStack` is as long as its `count` unless an update of the count is torn by
  the callback; bytes that an earlier connection left come first after a
  reconnection; and a failed connection does not give its pcb back
  (`IPStack.cpp` 227).
* A reader that waits for the trigger level and a writer that waits for more room than
  there is wait for each other; only timeouts end it (`stream_buffer.c` 735, 927).
* A task that blocks and is ready again before its list is next looked at may be
  selected before a peer that was ready all the time: "equal share" (`list.h` 341-345)
  holds for tasks that stay in their list, as `PeersTakeTurns` says.

## 7. What is not modelled

* The five sensor lines of the status screen and the scaling of the sensors'
  registers; the bytes of EEPROM entries; the direction that two
  edges of the rotor make.
* The formatting of log lines, and their way to the UART, which `Uart` has for
  another line.
* Of the display: palettes in `blit`, the font beyond its shape, coordinates that
  wrap at 16 bits, and `fill_rect` beyond the picture, which does not clip;
  `ssd1306.cpp`, which the program does not use.
* Of `keijo/ipstack`: TLS and the HTTP test; in `IPStack`, what happens after lwIP
  reports an error and frees the pcb that `tcp_pcb` still points to (undefined).
  `LED`. `main` uses none of these. The server side and the other function codes of
  `nanomodbus`, which nothing calls.
* Of the kernel: queue sets, recursive and counting semaphores, the values of notifications beyond a count, `vTaskPrioritySet` on
  an inherited priority, the callbacks and creation of stream buffers, co-routines, tickless idle; and
  the port but for its locks, which is external: a critical section
  is a step, PendSV and the tick are interrupts. The MPU wrappers and the headers of
  the kernel, a good part of the repository's lines, are not built or declare only
  what the other files define.
* The parts of the kernel together: each of its models has its own tasks. What they share
  (who runs, who has the scheduler suspended) is in each of them as far as it
  matters, and `KernelScheduler` has `KernelMutex` inside. The application's models take
  mailboxes and semaphores for atomic, which `RingIsFifo` justifies for every queue.
* The Pico SDK: registers and interrupts are used by what its documentation says.

## 8. Plan

Done, in the order of importance: the control loop with its actuators and
proofs; the user interface; persistence; the UART driver with its proofs; the
Modbus client; the order of the characters; the I2C driver; the loss counters and
the events of the switches with their proofs; the kernel's queues, with their
refinement and the waking of who waits proved, its clock, timers, mutexes and scheduler; its heap, with its refinement
proved; event groups and the SDK's locks; the life of tasks; stream buffers; the network
client; the display; and the proofs about the user interface, persistence, the Modbus client, the I2C
driver, mutexes, the scheduler, event groups, the SDK's locks, the life of tasks, the clock and the timers, stream
buffers and the network client. Next:

1. The status screen with `Greenhouse` beside `Display`: the fan's line after an
   emission, readings that drift below the threshold; a control loop with the bus
   down for good.
2. `I2C` composed with `Storage`, whose boot depends on its timeout.
