# Verification of the cooperative kernel (`src/kernel`) and its application

TLA+ models of the kernel for the ATmega328p in `src/kernel` and of the
application `src/ENDG3051_APP` that runs on it, checked with TLC and, for the
results that matter most, proved with TLAPS.

## 1. The system

The program has one thread of control, `loop()` of `kernel.cpp`, which the
Arduino core calls for ever: it handles up to two messages
(`MQClass::Loop(2)`), then dispatches one task (`TaskRing::Loop`). Interrupt
service routines may come between any two instructions while the AVR's global
interrupt flag is set, and may post messages.

| Component | State | Operations | Interacts with |
|---|---|---|---|
| message queue, `mq.cpp` | list of `MESSAGE`s between `MsgQueueFirst` and `MsgQueueLast`; `QueueBlock[26]`, a list of handler nodes per id | `Post`, two `Subscribe`s, two `Unsubscribe`s, `UnsubscribeAllIDs`, `Loop` | called by tasks, handlers and (Post) interrupts; calls handlers; allocates and frees |
| event receiver, `EventReceiver.cpp` | none | destructor (empty) | subscribed to the queue |
| interrupt control, `interrupts.cpp` | the global interrupt flag | `INTDisable/EnableMasterInterrupts` | used by Post, Loop, the application |
| task ring, `taskring.cpp` | `pHead`, `pCur`, nodes linked by `pNext` | two `RegisterTaskHandler`s, `DeregisterTaskHandler` (empty), `Loop` | calls `TaskLoop`s, which may register others |
| task, `Task.cpp` | none | `Start`, destructor | registers and deregisters itself |
| timer, `ostimer.cpp`; macros, `tasktimers.h` | `tmr`, `time`, `freeze`, `frozen` | `Set`, `Restart`, `isExpired`, `Freeze`, `Thaw` | polled by tasks; reads `millis()` |
| IIC driver, `iic.cpp` | the TWI registers | `IICWrite`, `IICRead` | used by both loggers |
| toggle tasks, `ToggleTask.cpp`, `ToggleLED.cpp` | timer, `toggleflag`, bits of `PORTB` | `TaskLoop`, `Toggle` | run by the ring, share `PORTB` |
| EEPROM logger, `LogData.cpp` | pages and the page pointer in the EEPROM | `Write`, `WriteAuto`, `Read*`, `Reset` | over IIC |
| clock logger, `LogTask.cpp` | the clock's BCD registers | `SetDate`, `TaskLoop`, `LogToSerial` | over IIC |

What is hard here, and what correctness means:

* **Message queue.** Interrupts between the memory writes of `Post` and of the
  pop; handlers that change the list `Loop` is walking; memory that is freed by
  one side and reached by the other; exhaustion of the heap. Messages are to be
  handled once each, in order, by every handler subscribed; blocks and contexts
  are to be freed exactly once; `Loop` is to return.
* **Task ring.** Tasks register others in the middle of a round. Every task is
  to be dispatched once per round.
* **Timer.** `millis()` wraps after 49.7 days, and pauses are kept by moving
  the start time. `isExpired` is to be exact all the same.
* **IIC driver.** Unbounded waits on hardware, error paths, the last byte of a
  read. What it returns is to be true of the bytes that moved, the bus is to be
  free afterwards, and every call is to return.
* **EEPROM logger.** Bus errors whose results are ignored, pages torn half way,
  the device's write cycle, a reset between two writes, the pointer as decimal
  digits. It is to be a ring of entries.
* **Clock logger.** BCD digits with flags beside them, two hour formats, a
  transfer that breaks off half way. The time logged is to be the clock's.
* **Main loop and toggle tasks.** Messages and tasks share one thread. A lamp is
  to toggle neither early nor late, and messages are to be handled.

`PROJECT.json` lists each hazard at its line.

## 2. Modules

| Module | Models |
|---|---|
| `Kernel` | `kernel.cpp` over queue, ring and timers, with `ToggleTask.cpp` and `ToggleLED.cpp`; composes `MessageBus`, `TaskRing`, `OSTimer` |
| `TaskRing` | `taskring.cpp`, `Task.cpp` |
| `OSTimer` | `ostimer.cpp`, `tasktimers.h` |
| `MessageBus` | abstract specification: a FIFO of messages handled one at a time |
| `MessageQueue` | `mq.cpp`, `interrupts.cpp`, `EventReceiver.cpp`; implements `MessageBus` |
| `IICTransfer` | abstract specification: what a transfer's result says of its bytes |
| `IIC` | `iic.cpp` with the two-wire interface; implements `IICTransfer` |
| `RingLog` | abstract specification: a ring of entries and a position |
| `LogData` | `LogData.cpp` with its EEPROM; implements `RingLog` |
| `LogTask` | `LogTask.cpp` with its clock device |
| `MCKernel`, `MCMessageQueue`, `MCLogData`, `MCLogTask` | values of constants for TLC |
| `TaskRingProofs`, `OSTimerProofs`, `MessageQueueProofs`, `MessageDispatchProofs`, `KernelProofs`, `IICProofs`, `LogDataProofs`, `LogTaskProofs` | the theorems (section 4) |

What is not in `src/` is modelled from how `src/` uses it and marked external in
`PROJECT.json`: the heap, `millis()`, the two-wire hardware, the EEPROM and the
clock device.

### TaskRing

Nodes are only pushed at the head and never unlinked, so the list *is* its
registration history `reg`: node `k` is the k-th registered, its `pNext` is node
`k-1`, node 0 is `NULL` and `pHead` is the length. A task's `TaskLoop` runs
between `LoopCall` and `LoopReturn`; registration and destruction of tasks are
task-context code and may come there or between two `Loop`s. `wait` is a
history variable: the dispatches of other nodes since each node's last.
`DestroyTask` is the destructor as it is, with the empty `DeregisterTaskHandler`
it calls. In `Next` the application destroys only tasks that it has not started
(`MayDestroy`), because the ring would call the others (see section 3).

### OSTimer

Unsigned longs are numbers below `Modulus` (2^32 in the program, 8 in the run)
and `Add` and `Sub` wrap. `Tick` (of `millis()`) is external. The calls come in any
order and have no guards. Two history variables say what the timer should do:
`paused`, from a Freeze to the next Thaw, and `ran`, the milliseconds it should
have counted. `ran` stops at `Modulus`, where nothing is promised: after that many
milliseconds, or when a call has lost the count. Those are a Restart, Set or
Freeze in a pause (`freeze` then belongs to another pause than the Thaw will
end) and a Thaw that ends no pause, once there has been one (`frozen` is never
reset). A Restart or Set of the running timer begins a new count. The macros of
`tasktimers.h` are the same operations on static variables; their initial state
is the one of `Init` with `millis = 0`.

### MessageQueue

The task thread's position is `stage` (inside Post, Subscribe or Unsubscribe)
and `pc` (inside Loop). Post in task context is `Post` (cli), `PostLink` (new,
and the first list write), `PostAttach` (the second), `PostReturn` (sei), or
`PostFail`. Loop is `LoopCall`, then per iteration `LoopMask`, `PopFirst`,
`PopLast`, `LoopUnmask`, `Dispatch`, `Call` and `HandlerReturn` for each
handler, `DeleteContext`, `DeleteMessage`; then `LoopReturn`. `InterruptPost`, a
Post in interrupt context, is one step because the AVR masks interrupts in a
service routine; it may come between any two of the above while `ie` is set,
also where correct code must not let it. While a handler runs (`pc = "handler"`)
the application may post, subscribe and unsubscribe.

Memory is `Block`, the blocks that can hold a message; `new` takes a free one or
fails when there is none. The message list is real pointers (`pNextMsg`,
`MsgQueueFirst`, `MsgQueueLast`); a handler list is a sequence, since
`QueueBlock` is touched by the task thread alone and no walk of it is
interrupted by another. `stale` records that the node Loop stands on has been
deleted. Every handler has an address of its own. `fifo`, `owed` and `alive` are
history variables: the blocks posted and not taken, the handlers still due a
call, and whether a receiver is in use (`"yes"`), has unsubscribed from
everything and is about to go (`"detached"`), or is destroyed (`"no"`).

`Careful` is an assumption on the application that the interface does not state:
no kernel call inside an interrupts-off section, no handler that unsubscribes
itself while it runs, and no receiver destroyed before it has unsubscribed from
all ids (`MayDestroy`; the destructor itself, `DestroyReceiver`, is empty). Runs
with `Careful = FALSE` show what happens without the last two. The theorems
about the list do not need it.

An id below zero gets past Subscribe, Unsubscribe and (but for -1) Post, and
indexes memory before `QueueBlock`. What is there is unknown, so the model stops
at that step. The runs pass ids that are rows, one past them, or -1 to Post.

Abstracted: the value of contexts (an object is live or deleted), result codes
other than through what Post did, what handlers do besides kernel calls. A
poster is taken to check Post's result and to keep its context when Post fails.

### Kernel

`pc` is the position in `loop()`: `MessageQueue.Loop(2)` is `TakeMessage`,
`MessageDone` and `NoMessageYet`, with `left` the messages it may still look
for; `TaskManager.Loop()` is `Dispatch` or `NoTask`. In a `TaskLoop` the poll
with its toggle (`Poll`), the restart of the timer (`RestartTimer`) and the
return are separate, because time may pass between them. The queue is
`MessageBus`, which `MessageQueue` is shown to implement; ring and timers are
the actions of `TaskRing` and `OSTimer` themselves. Time (`Tick`) passes only
while application code runs, at most `MaxLag` ms in one message's handlers and
in one `TaskLoop`: the kernel's own microseconds are counted with those.
`since` and `blinking` are history variables.

### IIC

`phase` is the busy-wait in which the driver is: after the START, after the
address, after a byte, after the STOP. Each of `Started`, `Addressed`, `Sent`,
`Received`, `Stopped` is the code from one wait to the next, with the driver's
own tests of `TWSR` (`& 0x08`, `& 0xf8`). The hardware may answer each command
with success, with a refusal or with a bus error. A device that was
acknowledged drives the data line, and no STOP can be made then: that is how a
wrong ACK on the last byte would show. The value of bytes does not matter, only
that they are the right ones; the address is not modelled, one device answers.

### LogData

An IIC transfer is one step. Its result is the driver's (see `IIC`): 0, -1 for
no START, -2 for a refusal or a bus error after any number of bytes, and any
transfer may fail. The EEPROM refuses transfers while it is programming a page
(`busy`), which ends at any time (`DeviceReady`). A write that breaks off leaves
the page as it was, or `Broken`: text comes out as `Noise`, a pointer as some of
the new digits before old ones, or all of it has arrived but the last
acknowledge. `Fetched` is what is in the buffer after an address write and a
read, whose results the code ignores: the page, or `Noise` if either of them
failed. `Restart` is a reset of the processor between any two steps; one in the
middle of a transfer is, for the device, a write that broke off.

`WriteAuto` is three steps (read the pointer, write the page, write the pointer).
A page holds text, is erased, or holds the pointer's four digits; `Digits` and
`Value` are the code's conversions: four divisions by the radix, towards zero,
from the last digit on, and four products. `Decoded` is what `get_addr` makes of
whatever it has read, which is any number of `Garbage` for what is no number. A
read of several pages is one step per page. `ReadFT` takes a devlock (`dl`) and
reads without one (`lock`), as the code does.

Two history variables: `failed`, the pages of a read for which a transfer
failed, and `intact`, that the pointer was never torn, overwritten with text or
misread. Nothing is assumed of the application: it may call anything at any
time, with any page number.

`Write` tests a name `_pg` that is not declared; the model reads it as its
parameter `_page`. `WriteAuto`, `Reset` and their helpers are private in the
class; they are modelled as operations all the same.

### LogTask

The clock device is its seven registers `regs`; `clock` is a history variable,
the date and time they were meant to hold. `SetDate` checks, encodes and writes,
and the write may break off after any register. In a leap year the device shows a
flag in bit 5 of the month beside its digits (`Shown`, external: it is the chip's
and not SetDate's, whose comment says "add leap year thing"). `LogToSerial`
decodes what is shown; when a transfer failed the line is noise, which is an empty `line`. `expired` stands for
the task's timer, modelled in `OSTimer`. The device counts through valid dates
only (`TimesAssumption`, external). The weekday is left out: the code
squeezes a pointer into a char and prints that as a string.

## 3. Runs

| Run | Instance | Shows |
|---|---|---|
| `task_ring` | 2 tasks, 4 nodes | `BoundedWait`, its inductive form `RingInv`, `EveryTaskRuns` |
| `timer` | `Modulus` 8, timeouts 0, 3, 7 | `ExpiryExact`, its inductive form `TimerInv` |
| `message_list` | 3 blocks, ids -1, 0, 1 of one row, 2 heap contexts, 1 of the caller's, 1 handler | `ListIsFifo`, `BlocksAccounted`, `ContextOwnership`, the inductive `MessageInv`, the refinement `ImplementsBus` |
| `message_dispatch` | 3 handlers, 2 rows, 2 blocks, `Loop(2)` | `DispatchExact`, `DetachedNotCalled`, their inductive form `DispatchInv`, `EveryMessageHandled`, `LoopReturns` |
| `kernel` | 2 lamps, timeouts 1 and 2, `Modulus` 10, lag 1, 1 message waiting | `NeverEarly`, `NeverLate`, their inductive form `KernelInv`, `EveryLampBlinks`, `MessagesHandled` |
| `iic` | 2 byte values, 1 to 3 bytes | `BusReleased`, its inductive form `IICInv`, the refinement `ImplementsTransfer`, `TransferReturns` |
| `log_data` | 3 pages, 2 reserved, radix 2, 1 text, page arguments -2, 0, 4 | `LogInv`, `ReadComplete`, `OnlyNegativePagesStray`, the refinement `ImplementsRingLog` |
| `log_clock` | dates at each edge of each part, times of both formats, years 22, 24 and 99 | `LogsClockTime`, its inductive form `ClockInv` |

Why the bounds suffice:

* Four nodes and two tasks allow a task to be registered twice and a node at the
  head, in the middle and at the end of a round.
* Modulus 8 wraps several times within one pause or timeout, and the timeouts
  include zero and the largest.
* Three blocks give a list with a first, a middle and a last message, as well as
  exhaustion; three handlers a node at the head, in the middle and at the end to
  remove while each of the others runs. `Loop(2)` is the program's.
* In `kernel` one waiting message is replaced at once when it is taken, so every
  round can be as full as the code allows; modulus 10 is larger than the longest
  period (`Timeout + Round`, 9) and wraps in almost every one.
* Three bytes give a first, a middle and a last one, and one byte is all of these.
* In `log_data` three pages wrap around, `Pages < Radix^4` holds as 2044 < 10^4
  does, and all four digits take part. Page 4 is a reserved one, and -2 wraps
  around to the pointer's page. One text is enough for an entry to differ from an
  erased page and from a torn one. Two garbage numbers, one negative and one not,
  give a misread pointer both of its consequences.

Violation runs, each with a finding in `PROJECT.json` that quotes the line it refutes:

| Run | The code |
|---|---|
| `message_self_unsubscribe` | Loop reads the link of a handler node that the handler has deleted |
| `message_destroyed` | a receiver that was destroyed while subscribed is called: the destructor that should unsubscribe it is empty |
| `log_stray_write` | a pointer that could not be read may come out negative, passes `ok()`, and the entry goes to the reserved pages |
| `log_timestamp` | the leap-year flag is taken for 20 months, and a time set as am is logged as pm; one line shows both |

One limit of the timer is stated in `ExpiryExact` rather than run: nothing is said
after 2^w ms without a restart (the difference wraps and the timer is found
unexpired again).

Seen in the code, kept in the models as it is or excluded by an assumption, and
not the subject of a run:

* `DeregisterTaskHandler` is empty (`taskring.cpp`), though its comment says that
  it "will deregister this task": a started task that is destroyed would still be
  called.
* `isExpired` does not look at `frozen`, so a frozen timer goes on to expire,
  though Freeze is to "Stop a timer from counting". `ExpiryExact` is about
  running timers.
* `Subscribe`, `Unsubscribe` and `Post` bound the id from above only, but for
  Post's test for -1.
* Post, called inside an interrupts-off section of the application's own, turns
  interrupts on: its last step is an unconditional `sei` (`mq.cpp:339`).
* `ReadPage` ignores the result of its address write: it then prints other data,
  and returns 0 if the read itself succeeds. `ReadComplete` excepts the pages in
  `failed`.
* `ReadFT` does not pass its devlock on to `ReadPage`, so that the reserved pages
  are refused even to a caller who has it; `ReadComplete` says so (`ReadEnd`).
* `new` and `delete` run with interrupts enabled in Loop, Subscribe and
  Unsubscribe, while an interrupt's Post may allocate.
* `checkHandler` compares a function's address and an object's as if they shared
  an address space.
* The IIC driver returns -1 without a STOP. If the bus was held then, each later
  START is a repeated one (0x10, which `& 0x08` does not accept), and every later
  call returns -1. `BusReleased` excepts this return, and the refinement allows it.
* `SetDate` answers refused arguments with 0, which its comment calls success. It
  accepts 29 February in every year.
* `LogTask`'s constructor writes 0 to the seconds and so clears the oscillator's
  start bit, which the comment there says it sets. The clock stands until a
  `SetDate` in the model too.
* The first toggle of a lamp switches it off, which it is already.

### Fairness

* `TaskRing`: weak fairness of `LoopCall` and `LoopReturn`: the Arduino core calls
  `loop()` for ever and a `TaskLoop` returns (`taskring.cpp` says that a task that
  blocks "will block other tasks").
* `MessageQueue`: weak fairness of the kernel's own steps (the processor keeps
  executing) and of `LeaveCritical`; strong fairness of `LoopCall` and
  `HandlerReturn`: application code makes finitely many kernel calls, each of
  which disables these for a moment, before it returns.
* `Kernel`: weak fairness of `Processor`, as above, and strong fairness of `Tick`:
  executing application code takes time.
* `IIC`: weak fairness of `Driver` (the busy-wait sees TWINT) and of `Hardware` (the
  interface ends every command it can). A bus that is held low from outside for
  ever breaks the latter, and then the driver waits for ever: it has no timeout.

Nothing is assumed of interrupts: they may post at every opportunity or never.
`LogData` and `LogTask` have no liveness property and no fairness.

Only `task_ring` is run without the deadlock check: a ring in which all task
objects were destroyed before being started has nothing to do.

## 4. Proofs

* `TaskRingProofs`: `RoundRobin`, `Spec => []BoundedWait`. `BoundedWait` alone is not inductive,
  as it does not know where the cursor is: `WaitInv` bounds each node's wait by
  its distance from the cursor (`Ahead`), with a wrap for the nodes still to
  come in this round. A registration adds a node behind the cursor and raises the
  bound of those ahead of it. `InductiveInvariant` is `Spec => []RingInv`.
* `OSTimerProofs`: `InductiveInvariant`, `Spec => []TimerInv`, and `TimerExact`,
  `Spec => []ExpiryExact`, for every modulus. The invariant says that
  `millis - tmr` is the count of a running timer and `freeze - tmr` that of a
  paused one, unless it is lost; the lemma behind Thaw is `m - (t + (m - f)) = f - t` in wrapping
  arithmetic.
* `MessageQueueProofs`: `QueueIsFifo` and `NoBlockLeaks`, for every number of blocks,
  ids, handlers and messages, `Careful` or not. In the middle of a Post or a pop
  neither property holds, so `ListInv` describes those states: who may be where
  while interrupts are masked (`ControlInv`), whose each block is (`OwnInv`), and
  what the pointers are half way (`ShapeInv`). Most actions write no list
  variable and share one lemma; the six that do have one each.
  `QueueInvariant`, `Spec => []MessageInv`, adds the types, the rows of
  `QueueBlock` (`RowInv`) and the contexts: what blocks and arguments hold, and
  that no two messages share a context of the queue's (`ContextInv`). The
  latter gives `ContextsAreOwned`: without it the deletion of one context could
  take another message's. `BusRefinement` maps the queue to `MessageBus` step by
  step: a Post is `PostAttach` or `InterruptPost`, a Take is `PopFirst`, a Done
  is `DeleteMessage`, and everything else stutters.
* `MessageDispatchProofs`: `DispatchIsExact` and `DetachedAreNotCalled`, for a
  `Careful` application. `DispatchInv` adds where the cursor of Loop is: the
  handlers still due are exactly the rest of the row from the node at which Loop
  stands (`CursorInv`), rows hold no detached receivers, and an Unsubscribe in
  progress is not about to remove that node (`CallInv`). That no row has a
  handler twice comes from `MessageInv`. Without `Careful` the
  invariant is false, as `message_self_unsubscribe` and `message_destroyed` show.
* `KernelProofs`: `LampsNeverEarly` and `LampsNeverLate`, for any lamps, timeouts,
  lags, messages and width of `millis()`. `InductiveInvariant` is `Spec =>
  []KernelInv`. Its ring part is `TaskRingProofs` instantiated, its timer part the
  running half of `OSTimer`'s `CountInv` for each lamp. `Pace` is the argument of
  `NeverLate`: `Passed(k)` is what can have passed since the poll that left the
  timer of node k running. Each dispatch of another node adds three lags, two
  for messages and one for its `TaskLoop`, and the ring bounds those dispatches
  by `wait[k] < Len(reg)`; a step never uses more than it is given, and the poll
  that finds the timer unexpired starts the count again. That poll is exact
  only while fewer than `Modulus` ms have passed, so `Pace` is stated for
  `Timeout + Round < Modulus`; the theorem needs no such hypothesis, as the
  history variable `since` stops at `Modulus` and says nothing beyond.
* `IICProofs`: `BusIsReleased`, from `IICInv`, which says for each wait of the driver
  what the bus, the device and the hardware's status can be and which bytes have
  arrived; `TransferRefinement`: every call of the driver is a step of
  `IICTransfer` when it starts and when it returns, and a stutter between.
* `LogDataProofs`: `RingRefinement`, `OnlyNegativeStray` and `ReadIsComplete`, for
  every size of device, every radix with `Pages < Radix^4`, all arguments and any
  failures. `LogInv` says that an `intact` pointer's page is erased or holds the
  digits of a page, and that `WriteAuto` is at that page (`PointerInv`), which
  needs that `Value` inverts `Digits`; that it is never past the log, intact or
  not; and what a read has printed so far (`ReadInv`). The refinement uses it to
  show that a torn entry is the one at the ring's position, and that a step that
  leaves the pointer `intact` moves it by one page or not at all. `RingLog`
  promises nothing once the pointer is damaged, and nothing could be:
  `log_stray_write` is such a behaviour.
* `LogTaskProofs`: `LinesShowClock`, from `ClockInv`: each register holds the BCD
  digits and flags of its part of the clock's time, also where a `SetDate` broke
  off between two registers, but for the start bit that the constructor clears.
  The lemmas are that decoding inverts encoding below each mask, that the flag
  of the 12 hour format is seen exactly where it was written, and that the
  leap-year flag changes the month alone; in a leap year the month is wrong, as
  `log_timestamp` shows, and the theorem leaves it out.

The assumptions are the named ASSUMEs of the modules: sizes are naturals, NULL
and NoMessage are none of the objects, timeouts are unsigned longs, text, digits
and the erased state differ, the clock device counts valid dates. TLC evaluates
them. `Careful` is a hypothesis of the theorems of `MessageDispatchProofs`, and
the run `message_dispatch` satisfies it.

Only model-checked: liveness (`EveryTaskRuns`, `EveryMessageHandled`,
`LoopReturns`, `EveryLampBlinks`, `MessagesHandled`, `TransferReturns`), which
needs fairness and is out of the prover's reach; and the violation runs, which
are counterexamples. Every invariant and action property and every refinement that
a passing run checks is a theorem.

## 5. The plan

All components are modelled and their safety properties are proved. What is left
is to tie the composition closer together:

1. `Kernel` composes `MessageBus`; that a `Kernel` step is a step of `MessageBus`,
   `TaskRing` or each `OSTimer`, or a stutter, is used inside the proofs
   (`RingIsStepped`) and could be stated as refinements of its own.
2. A bound for the message queue in terms of interrupts that post, as `NeverLate`
   is one for lamps.

## 6. Not modelled

`KernelClass` (empty constructors around the three singletons), the sketch
(`UserInit` opens the serial port; every task start in it is commented out, and
`Kernel` lets it start any lamp), the text sent to the serial port, the order in
which static objects are constructed, and the stack and heap below `new` and
`delete`.
