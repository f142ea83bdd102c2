# A verification of the Raspberry Pi 3 bare-metal code

TLA+ models of this repository's code, the TLC runs that check small instances of them, and
theorems that TLAPS proves for every instance. Paths below are relative to the repository;
`libpi` is `src/Rpi lib/libpi`, the capstone is `Capstone _fractal`.

## 1. Inventory

The repository is a series of bare-metal exercises on a Raspberry Pi 3 that end in a small
multicore kernel. Many files exist in several copies; the one named here is the latest, unless
an earlier one does something else.

| Part | Where | State | Operations | What is hard | Modules |
|---|---|---|---|---|---|
| Multicore preemptive threads | capstone `src/thread.c`, `thread_asm.s` | per core: table of `NR_TASKS` tasks (state, `preempt_count`, saved context, stack, circular list), `current`, `tasks_num` | `fork_task`, `threading_init`, `schedule`, `scheduler_tick`, `exit_task`, `join_task`, `join_all` | ticks anywhere; four cores that share the tables without locks; reuse of slots and stacks; termination | `CoreThreads`, `CoreThreadsInv`, `CoreThreadsRing`, `CoreThreadsPool`, `TaskPool` |
| Timer interrupt path | capstone `src/interrupt.c`, `entry.S`, `core_timer.s` | handler tables, interrupt control and compare value of each core | `register_irq_handler`, `irq_handler`, `enable/disable_core_timer_int` | interrupts enabled again inside a handler; a timer that is on before it is set | `CoreThreads` |
| Core mailboxes | capstone `src/core_UntilEvent.s`, `start.s`, `src/mmu.c` | a set/clear register and an event flag per core | `WAIT_UNTIL_EVENT`, `WAKE_CORES`, the writes to `CORE_MAILBOX_WRITETOSET` | writes OR into what is pending; a clear races a later write | `CoreMailboxes` |
| Fractal program | capstone `fractal_multicore_threading_intrinsics.c` | the frame buffer that 32 tasks share | `draw_fractal_mandelbrot` | who writes which line; four pixels that finish at different times | `Fractal` |
| Threads of libpi | libpi `thread.c`, `thread_asm.s` | circular list of tasks, `current`, stacks from the heap | `fork_task`, `schedule`, `yield_task`, `exit_task`, `join_task`, the tick | freeing the stack one runs on; a list entry that must be the running task; a check before the lock | `Threads`, `ThreadsInv` |
| Lists | libpi `linkedlist.c` | `head`, `tail`, `count`; ring and entry | `Q_push` ... `remove_circular` | the ends of the queue and the entry of the ring | `LinkedList`, `Lists` |
| Heap | libpi `kmalloc.c` | address-ordered list of headers | `kmalloc`, `kfree`, `kfree_all` | splitting, grouping, NULL neighbours, rounding | `Kmalloc`, `Allocator` |
| Boot loader | `src/02- Bootloader/bootloader.c` | state of the XMODEM receiver, block number, checksum, load address | the receive loop, the prompt | lost and damaged bytes, lost answers, repeated blocks, old bytes in the FIFO | `Bootloader`, `BootloaderInv`, `Loading` |
| Interrupts of libpi | libpi `interrupt.c`; first version in `src/04- exceptions` | handler and clearer tables, enable registers | `register_irq_handler`, `unregister_irq_handler`, `irq_handler` | tables shared by four cores; enable bits read and written back; ranges of numbers | `Interrupts`, `Exceptions` |
| Exception frames | libpi `entry.S`, `thread_asm.s`; `src/04- exceptions/entry.S` | registers and stack | `kernel_entry`, `kernel_exit`, `context_switch`, the vectors | one register, offset or order wrong loses a value now and then | `Frames`, `Exceptions` |
| Start-up, MMU | `src/Rpi lib/start.s`, `mmap`; libpi `mmu.c`, `mmu_setup.S` | stacks, .bss, exception level, system registers, translation tables | `_start`, `populate_tables`, `enable_mmu_tables` | several files that must agree before anything runs | `Startup`, `AddressMap` |
| Device registers | headers of libpi | addresses | - | addresses typed by hand | `RegisterMap` |
| GPIO, mini UART, clock | libpi `gpio.c`, `mini_uart.c`, `VCmailbox.c` | registers of the pins, `is_enabled`, `is_turbo`, baud divisor | the calls of `gpio.c`, `uart_init`, `set_max_freq` | words shared by many pins, registers where a one clears, a divisor for an old clock | `Gpio`, `Devices` |
| Property mailbox, frame buffer | libpi `VCmailbox.c`, `fb.c` | the words of `mbox` | the requests, `fb_init` | sizes and indices counted by hand | `Mailbox` |
| Formatted printing | libpi `va-printk.c` | buffers | `va_printk`, `emit`, `__emit_float` | room, sign, leading zeros | `Printing` |
| Delays | libpi `timer.c`, capstone `src/reboot.c` | free-running counters | `delay_us`, `delay_ms`, `delay_core_timer` | wrap-around | `Delays` |

How the parts of the capstone interact: core 0 runs `notmain`. It registers `scheduler_tick` as
the timer handler of every core, forks tasks for all cores by writing their tables, and calls
`threading_init`, which posts `secondary_cores_threading_init` to the other cores' mailboxes.
Each core then turns its `main` into a task and schedules until it is alone; core 0 waits for
all of them in `join_all`, and may fork again. Nothing is locked: cores see each other's
`tasks_num` and `state` through memory only, and the only protection against the timer is
`preempt_count`.

In libpi everything but the interrupt tables is used by one core. Its threads take their stacks
from the heap and their ring from the lists; the boot loader polls the mini UART; whatever
prints starts the UART, and the UART sets pins.

## 2. Plan

1. `CoreThreads` with `TaskPool`, its abstract specification: the multicore threads are what
   the repository builds up to, and the part with real concurrency. *(done)*
2. The inductive invariants `CoreThreadsInv` and `CoreThreadsRing` and the theorems about them,
   the refinement of `TaskPool` included. *(done)*
3. `CoreMailboxes`: what a core may find in its mailbox when several writes are pending. *(done, with proofs)*
4. `Kmalloc` with `Allocator`. *(done, with proofs, the refinement included)*
5. `Threads`: the threads of libpi over list and heap. *(done, with proofs)*
6. `Bootloader` with `Loading`: the XMODEM receiver against a lossy line. *(done, with
   proofs, the refinement included)*
7. `Interrupts`: the dispatcher of libpi on several cores. *(done, with proofs)*
8. The sequential parts, each a module of its own, checked together in `MCLibrary`. *(done, with
   proofs for `LinkedList` over `Lists`, for `Devices` over `Gpio`, and, for all inputs, for
   `Delays`, `AddressMap`, `Startup` and `Fractal`)*

Conventions. A definition has the name of the function or variable it models where it can. In
all modules a definition named `X_Bug` is a faulty variant of `X`, not a part of the model: with
it in the place of `X` a property is violated, which shows that the property notices the fault.
Modules named `MC...` only give values to constants and inputs to functions.

## 3. CoreThreads

`CoreThreads.tla` models the capstone's `thread.c`, `thread_asm.s` and the code around them.

**Control.** `pc[c]` is the label of the next step of core `c`, on the stack of task
`cpu[c]`. One step is one access to shared memory, or several between which a tick changes
nothing. `frames[c][t]` are the labels to which the stack of task `t` will return: `schedule`
pushes its caller's label, a tick pushes the interrupted label. `context_switch` moves `cpu`
and marks the contexts: `ctx` is `"resume"` for a task that was switched out inside
`schedule`, `"fork"` for one that will start in `ret_from_fork`, `"none"` for one whose saved
registers are stale.

| Code | Actions |
|---|---|
| `irq_handler`, `scheduler_tick` | `Tick`, `TickReturn` |
| `schedule`, `switch_to` | `Schedule`, `ScanNext`, `ScanFound`, `ScheduleReturn` |
| `context_switch`, `ret_from_fork` | `ContextSwitch`, `RetFromFork` |
| `exit_task` | `ExitTask`, `ExitCount`, `ExitUnlinkNext`, `ExitUnlinkPrevious` |
| `fork_task` | `ForkTask`, `ForkPanic`, `LinkFirst`, `LinkNext`, `LinkPrevious`, `ForkCount` |
| `threading_init`, `secondary_cores_threading_init` | `ThreadingInit`, `KickCores`, `SecondaryInit`, `StartMain`, `ArmTimer`, `SleepAgain` |
| `WAIT_UNTIL_EVENT` | `Wake` |
| `join_task`, `join_all_core_tasks`, `join_all` | `StartJoin`, `JoinTask`, `JoinAll`, `JoinLeave` |
| `notmain` of the capstone's programs | `Init`, `NextRound` |

**What is abstracted.** A task's function is one label, `"body"`, left by `ExitTask`. A tick
that finds `preempt_count` set, or `current` NULL, changes nothing that is modelled and is
not a step. A `panic` or a failed `demand` reboots: `up` becomes FALSE and everything stops.
Memory is sequentially consistent. The task tables live in cached, shareable memory, and the
code relies on that just as the model does.

**Parameters.** `Forks[r][c]` is the number of tasks forked for core `c` in round `r`,
`Rounds` the number of rounds; `JoinTargets` are the tasks the program may `join_task` by
itself. `MaxNest` bounds the timer handlers on one stack. One flag names what the code leaves
to chance, and every checked instance sets it to the good case: with `EarlyTick` a compare value
left by reset may fire before `SET_CORE_TIMER`, a tick starts a task before `threading_init` has
made `main` one, and `main` is never resumed.

**Rounds that overlap.** `join_all` reads `tasks_num` of the other cores and returns as soon as each is
1. A core may then still be in the `schedule` of its last task, on its way to the `demand` of line
172, or in a scan that never ends. The programs print or read a key before they fork again, but
they wait for nobody, so `NextRound` does not either, and the next round forks onto such a core: a
second core then writes its table, without a lock. The variable `early`, which no step reads,
collects the cores that do not sleep when the first fork of a round is for them (`TooEarly`). That a core
which does sleep then stays asleep until the post, with its timer off and its mailbox empty, is not
assumed: a core that a tick woke between two forks would not be in `early`. What can go wrong for
those that are is what `CoreThreads_early` shows: the `demand` fails, and before it slots may be given back under running
code and a half-linked task be picked. The properties about a core's table speak of the cores
outside `early`, core 0 among them: no core suffers from what happens to another, and one for which
core 0 forks while it sleeps is all right, whatever the others do. A core in `early` is followed
step by step up to two bounds. It stops where it would count more ends than forks (`Followed`), and
where a tick enters `schedule` a second time and has overwritten its `temp` (the conjunct
`temp[c] # NULL` of `ContextSwitch`). No other core ever meets them: `tasks_num` counts at least
the task that ends, and critical sections are closed.

**Abstract specification.** `TaskPool` says what a program can rely on: jobs are submitted
before the first wait or between two, each core runs one job at a time, a job ends only while it
runs, and the wait ends only when no job is left. Between two waits the program may lose a core
that has no job left but has not come to rest. `CoreThreadsPool` maps a slot's `state` to its job,
the cores in `early` to lost ones and the place of core 0's `main` to the phase, and `PoolSpec` is
the refinement.

**Runs.** The instances are in `MCCoreThreads.tla`. Two cores are enough for every interaction:
core 0 differs from all others, and the others touch only their own tables. Two worker slots
give a ring in which the predecessor and the successor of a task differ; the run on one core
uses three. Further rounds use slots again: `CoreThreads_one` has a round that leaves a slot unused, one that
fills the table and one that overfills it; in the second round of `CoreThreads_two` core 1 gets two
tasks, so that it could run between two forks, and core 0 none. A tick may come at any step that is
not guarded; one on each stack suffices, and `CoreThreads_one` allows two.

| Run | Checks | Shows |
|---|---|---|
| `CoreThreads_one` | `TypeOK`, `CriticalSectionsClosed`, `OneRunning`, `ReadyIsResumable`, `EveryTaskFinishes`, `NoStarvation` | one core, slots used again, nested ticks, then one task too many; every task finishes, though `main` may hang; the tick alone makes the scheduler go round |
| `CoreThreads_two` | `MainSchedulable`, `JoinAllMayEnd`, `RingWellFormed`, `RebootsOnlyWhenFull`, `NoLiveStackReset`, `PoolSpec` | two cores, two rounds that may overlap: core 0's next forks meet core 1 asleep, on its way to sleep or in its scan; and the refinement |
| `CoreThreads_hang` | `JoinAllReturns`, violated | the scan never ends when nobody is READY |
| `CoreThreads_early` | `IdleCoresSleep`, violated | the `demand` of line 172 fails: core 0 has forked again before the core went to sleep |

**Fairness.** `FairSpec` is weak fairness of each core's next step and of core 0's program: a
core that is not asleep executes instructions. What else a liveness property needs stands in
front of it. `FunctionsReturn`, for `EveryTaskFinishes` and `JoinAllReturns`, is strong fairness
of `ExitTask` for each task, since ticks keep taking the core away, and of the few steps on the way out
of a handler (`HandlersReturn`): when a task comes back from the `schedule` of a tick, the next tick
must not always find it there, which the timer's period, set anew by each tick, rules out. Otherwise
ticks may come whenever they like. `TimerInterrupts`, for `NoStarvation`, says that the timer keeps interrupting a function
that runs on (each tick's clearer sets the compare value again) and lets functions run for ever.

`CoreThreads_hang` needs no tick at all (`MaxNest = 0`): core 0 ends its own tasks, calls
`schedule` from `join_all` while core 1 still works, and scans a ring that contains only its
own RUNNING `main`. In a run with ticks the same happens on any core when the tick comes
between the loop condition and `schedule`, and on core 0 even inside `threading_init` of a later round:
when a tick between lines 176 and 180 finishes its tasks, the other cores are never woken. This is why
`EveryTaskFinishes` and `NoStarvation` speak of cores that have been woken.

`JoinAllMayEnd` needs a task for every core in the first round. A core that never had one has
`tasks_num` 0, for which line 163 provides, but line 89 waits for a 1: `join_all` then never returns.

## 4. CoreMailboxes

`CoreMailboxes.tla` models how core 0 makes the other cores call a function: it ORs the
address into each core's mailbox (`CORE_MAILBOX_WRITETOSET`) and calls `WAKE_CORES`; a core
in `WAIT_UNTIL_EVENT` waits for an event, reads the mailbox, writes what it read to the
clearing register and calls it. Three functions are posted: `enable_irq_secondary`,
`mmu_enable_secondary` and, in every round of the program, `secondary_cores_threading_init`,
of which only the end matters here (`CoreThreads` models its inside): the core finishes the tasks it
has (`FinishWork`), those of several rounds in one call if they keep coming, and when it has none it
may leave (`LeaveThreads`), or stay for ever, as `CoreThreads_hang` shows it may.

| Code | Actions |
|---|---|
| `start_sleep` | `StartSleep`, `CleanMailbox` |
| `WAIT_UNTIL_EVENT` | `Wfe`, `ReadMailbox`, `ClearMailbox`, `Call` |
| `secondary_cores_threading_init` | `FinishWork`, `LeaveThreads`, `ReturnFromThreads` |
| `interrupt_init`, `mmu_enable`, `threading_init` | `Post`, `WakeCores` |
| `join_all`, `notmain` | `JoinAll` |

An address is a set of bits: two posts that are pending together read as the union, and a
clear takes away only what was read. In the instance any two addresses share a bit, as addresses
in one program do, and make up no third one. An address that is no function's leads to `"wild"`.

Nothing acknowledges a post. What keeps the posts apart is time: core 0 prints, and
`populate_tables` fills a table of 8 KB with the caches off, between two posts, while the
other cores need some ten instructions. `SlowStart` is that assumption: in the first round a
core is asleep before core 0 starts the next post. Later posts need no such assumption:
`join_all` waits for the cores' work, and a core that is still in its threads, or comes out of them
late, finds the same address in its mailbox that it would find asleep. Without `SlowStart` the test program's "early
configuration done" may be printed, and tasks forked, before a core is configured.

| Run | Checks | Shows |
|---|---|---|
| `CoreMailboxes_slow` | `CallsAFunction`, `ThreadsOnReadyCores`, `MailIsKept`, `PostsAreCalled` | two cores, three rounds: only posted functions are called, no post of a later round is lost although the core may still be returning from the last one, no core sleeps on mail; every post is called, unless its core stays in its threads for ever or reboots the board |

Two secondary cores are enough: they share nothing but core 0, whose posts go to them one
after the other. `PostsAreCalled` rests on weak fairness of a core's way from the sleep to a call and
from the end of a call to the sleep (`Serve`), and of core 0's posts (`Posting`). Nothing is asked of the tasks,
of the end of `secondary_cores_threading_init` or of `join_all`: all of them may go on for ever.

## 5. Kmalloc

`Kmalloc.tla` models libpi's `kmalloc.c`: `heap` maps the address of each header on the list to
its fields, `temp` is the segment that `kfree` groups. The searches of the code become a choice
with the same result: the smallest difference, at the lowest address, and the lowest header
with the pointer; that list order is address order is part of `Tiled`. `Kmalloc` is one step,
`kfree` one step to find and free the segment and one for each iteration of its two loops.

| Code | Definitions |
|---|---|
| `kmalloc` | `Total`, `Fitting`, `IsBest`, `Carved` and `Split`, in the action `Kmalloc` |
| `kfree` | `Kfree`, `KfreePanic`, `MergeLeft`, `LeftDone`, `MergeRight`, `RightDone` |
| `heap_init`, `kfree_all` | `FreshHeap`, `Init`, `KfreeAll` |

`blocks` is what the program holds, pointer and bytes asked for. `Allocator` says what a
program may expect of it: aligned blocks in the heap that do not overlap and stay until they
are freed. A `kmalloc` that returns NULL changes nothing and is no step; requests stay below
2^31 bytes, so that `int diff` is exact; the writes through NULL at the end of the list hit
address 8, outside the model. `thread.c` calls `kmalloc.c` from one core, before there are tasks
or with preemption disabled, so calls do not interleave in the model.

| Run | Checks | Shows |
|---|---|---|
| `Kmalloc_words` | `Tiled`, `BlocksHaveSegments`, `Grouped`, `AllocatorSpec` | sizes and alignments that are multiples of 8, up to five blocks: every order of allocating and freeing them, with and without a split, with neighbours to group on either side |
| `Kmalloc_odd` | `BlocksInHeap`, violated | `kmalloc(1, 8)`, as `test-kmalloc.c` calls it, makes the heap claim bytes it does not have |

The heap of the instance has 328 bytes instead of 1 MB, headers keep their 32: enough for
five segments, for remainders on both sides of the splitting threshold and for requests that
fit only after grouping. A run stops where a `demand` fails, so these runs do not check for
deadlock.

## 6. Threads

`Threads.tla` models libpi's `thread.c` on one core: tasks that the program forks, joins and
yields between, with a timer that may tick at any step once it has been started. `ring` is the
circular list as a sequence from its entry on (section 9 shows that `linkedlist.c` implements
that), `held` the stacks that are allocated, `frames`, `ctx` and `pc` are as in `CoreThreads`.

| Code | Actions |
|---|---|
| `scheduler_tick` | `Tick`, `TickReturn` |
| `schedule` | `Schedule` (its early return), `PreemptDisable`, `Scan`, `ContextSwitch`, `ScheduleReturn` |
| `ret_from_fork` | `RetFromFork` |
| `thread_init`, `fork_task` | `ThreadInit`, `ForkTask`, `ForkDisable`, `ForkStack`, `ForkLink`, `ForkEnable` |
| `join_task`, `yield_task`, `timer_interrupt_init` | `JoinTask`, `YieldTask`, `TimerInterruptInit` |
| `exit_task` | `FunctionReturns`, `ExitTask`, `ExitFree`, `ExitUnlink` |

`Program[t]` is the sequence of calls that the function of task `t` makes; the rest of a function
is left out. `kmalloc` takes the lowest hole, since all stacks have one size; that a list node
cannot be allocated is left out. A failed `demand` or a `panic` sets `up` to FALSE.

| Run | Checks | Shows |
|---|---|---|
| `Threads_busy` | `ListIsRight`, `ReadyIsResumable`, `StacksAreOwn`, `JoinSound`, `PanicsForAReason`, `ProgramEnds` | two tasks fork at the same time, one task is used twice, one never ends |
| `Threads_last` | `ExitNeverReturns`, violated | every function returns: `schedule` comes back to the last forked task |

The first instance has five tasks, `NR_TASKS` is 3 and there are four stacks, so that the limit is
reached, exceeded and refused. `fork_task` looks at the number of tasks before it disables
preemption, so two forking tasks may exceed the limit by one (`LimitOvershoot` in
`ListIsRight`). `PanicsForAReason` names the reasons for a reboot: too many tasks, or no memory for a
stack. That no stack is freed twice holds as long as a task is left besides `main`, as in this
instance. When the last forked task ends, `schedule` returns to `exit_task`, which the comment of
lines 155-156 rules out; it returns to the branch of `ret_from_fork` that called it, frees the
stack a second time and panics. `Threads_last` shows it. `JoinSound` says that a join returns only for a task that is over and off the
list. One handler per stack (`MaxNest`) is enough: a second one finds the same steps.

Fairness: the CPU executes (`WF(CpuStep)`), the timer keeps interrupting (`SF(Tick)`) and its
period leaves each task that is scheduled time for a step of its own (`SF(OutsideHandlers)`), as
the period of the ARM timer does. `ProgramEnds` then says that every join of `main` comes back
although one task loops for ever.

## 7. Bootloader

`Bootloader.tla` composes four parties: the receiver of `bootloader.c`, the UART's FIFO and the
serial line, the sender (`sx`, external) and the user who starts the sender and types `g`.

| Code | Actions |
|---|---|
| the wait for a byte, NAK every four seconds | `NakAgain`, `FirstByte` |
| the loop over bytes: states 192, 193, 194, 0 to 127, 128 | `GetByte` (`SohOrEot`, `BlockNumber`, `Data`, `Checksum`) |
| state 255: five CANs, two seconds, start again | `BailOut`, `Restart` |
| after EOT: two seconds, the prompt, `g` | `ShowPrompt`, `ReadKey` |
| line (external) | `Deliver`, `Overrun`, `Lose` |
| sender and user (external) | `StartSender`, `TakeAnswer`, `Timeout`, `PressG` |

The line loses up to `Losses` bytes or answers and changes one bit of up to `Flips` bytes; the FIFO
overflows while the receiver waits two seconds. Numbers of blocks and checksums are taken modulo
`Values`. `damaged` says that a byte of the packet sent last has been changed. `torn` marks a
transfer that lost a byte on its way to the receiver, began with bytes left over from an older one,
or had two bytes of one packet changed. For those the protocol promises nothing: a lost byte
shifts all that follow, two changed bytes may leave the sum as it was, and what the receiver
makes of them is not fixed by the code.

`BootAssumption` says what the constants must satisfy, as those of the code do: the states from 192
on are no positions in a block, one changed bit makes no SOH (1) an EOT (4) or back, and the UART's
FIFO of 8 bytes holds no whole packet.

`Loading` is the abstract specification: the image in memory is a beginning of the file that
grows block by block, and only the whole file is started. `LoadsTheFile` is the refinement, for
transfers that are not torn.

| Run | Checks | Shows |
|---|---|---|
| `Bootloader` | `Received`, `LoadsTheFile`, `ProgramStarts` | a file of as many blocks as there are numbers, with three losses and two damaged bytes |

The instance has bytes of two bits, blocks of one byte and a FIFO of three: block numbers begin
again at 0, data look like SOH, EOT and `g`, and a packet does not fit the FIFO. With
three losses a packet or its answer is lost as often as the sender, which repeats it twice, will
send it; with two damaged bytes a packet and its repetition are both refused.

`Received` is `TypeOK` and `SuccessIsTrue`: a sender that is told of a success has delivered the whole
file. Its `rpc = "wait"` is needed: the sender of a torn transfer may be told of a success and the
transfer then be cancelled, after which the receiver begins anew, with nothing torn yet. With four
values, blocks of two bytes, six losses and four retries TLC finds such a run.

`ProgramStarts` assumes that the receiver polls, the line delivers what it does not lose, and the
user comes back (weak fairness of each). It has one exception, `Stuck`: within a block the
receiver waits without a timeout, so when the sender has given up there, it waits for ever. A
user who starts the sender while the receiver is still in its two seconds (`eager`) is left out.

## 8. Interrupts

`Interrupts.tla` models libpi's `interrupt.c` on several cores: `handlers` and `clearers` are the
tables that all cores share, `enabled` the bits of the enable registers, `raised` what devices
ask for. A call of `register_irq_handler` or `unregister_irq_handler` is four steps: handler,
clearer, read of the register, write. `irq_handler` is `TakeIrq`, `Scan`, `Clear` and `Handle`,
between any two of which other cores go on.

| Run | Checks | Shows |
|---|---|---|
| `Library` | `TablesFit`, `EachIsServed` | two cores, a basic interrupt, the local timer and two mailboxes of core 1, all registered by core 0, two of them unregistered again |

`TablesFit`: what is enabled has handler and clearer, what has a handler is enabled, and nothing
is called through a 0. It holds because only the program on core 0 registers, and because an
interrupt is unregistered by the core that takes it; the instance keeps to that, as the programs
do. With two cores that register at the same time the read and the write back of one register
would lose a bit. `unregister_irq_handler` reads a disable register before it writes it; the model
takes it to read as 0. If it read as the bits that are enabled, one call would disable every
interrupt of the register; the instance has one of each. `EachIsServed` (weak fairness of a core's handler) asks for service as long as
the handler is registered. `unregister_irq_handler` clears the tables before it disables the
interrupt; one that arrives in between is neither served nor cleared. The numbers are 64, 83, 88
and 89: the ends of the ranges that the scans of the cores go through. The two registers of GPU
interrupts work like the basic one; `Exceptions` has them for the first version.

The constants of this instance, too, are in `MCLibrary`, which checks all of libpi but its heap and
its threads (section 9).

## 9. The sequential parts

These modules are checked together by `MCLibrary`. A behaviour is about one part, which the
variable `case` names: the interrupts of section 8, the lists and the devices run, with their calls
in any order, the others are functions, and each state gives one of them an input.

| Module | Code | Checked in the property | What it says |
|---|---|---|---|
| `LinkedList`, with `Lists` above it | `linkedlist.c` | `ListsClose`, `ListsSpec` | after any sequence of calls with four nodes head, tail and count agree, the ring closes after `entry.ptr` nodes, and the pointers implement a queue and a ring |
| `Frames` | `entry.S`, `thread_asm.s` | `FramesKeep` | instruction by instruction: an interrupt restores all registers but `x22` and `x23`, a switch there and back keeps what a call preserves, a forked task starts in `ret_from_fork` |
| `Exceptions` | `entry.S`, `interrupt.c`, `src/04- exceptions` | `FramesKeep` | vectors, numbers of the types and texts agree; the short frame keeps all but the vector registers while interrupts do not nest; the first `irq_handler` serves what is registered, at the ends of the three registers too |
| `Printing` | `va-printk.c` | `NumbersPrinted` | what is printed is read back; what does not fit is missing at the end |
| `AddressMap` | `mmu.c` | `MemoryIsReady` | `populate_tables` maps each address to itself, without gaps, and nothing the VideoCore writes is cached |
| `Startup` | `start.s`, `mmap`, `mmu_setup.S` | `MemoryIsReady` | from EL3 or EL2 each core gets to EL1 with a stack of its own; the attributes, the size of the addresses and the tables fit each other, and the MMU goes on behind all it needs, the tables in memory included; the loop over .bss clears nothing else |
| `RegisterMap` | the headers, `armtimer.c` | `MemoryIsReady` | no two addresses are one register, all lie in blocks mapped as devices; the control word starts the timer and its interrupt |
| `Delays` | `timer.c`, `reboot.c` | `LoopsEndRight` | a delay lasts as asked and at most a poll longer, across the end of the counter |
| `Fractal` | the fractal program | `LoopsEndRight` | the tasks write each pixel exactly once, and four pixels computed together get the colours they would get alone |
| `Gpio`, `Devices` | `gpio.c`, `mini_uart.c`, `set_max_freq` | `UartIsSet`, `PinsKeep` | a running UART has its pins and the right divisor; a call for one pin leaves the others alone |
| `Mailbox` | `VCmailbox.c`, `fb.c` | `MessagesHold` | sizes are right, the VideoCore finds the tags where the caller put them but for `fb_init`, and callers read answers to their tags but for the pitch |

| Run | Checks | Shows |
|---|---|---|
| `Library` | `ListsClose`, `UartIsSet`, `FramesKeep`, `NumbersPrinted`, `MemoryIsReady`, `LoopsEndRight`, `MessagesHold`, `ListsSpec`, `PinsKeep` | the table above |
| `Library_comments` | `SomeCommentHolds`, violated | not one of five comments tells what the code does |

`SomeCommentHolds` is the disjunction of what the comments say of the code for all inputs of the run,
so that its violation refutes each of them: `InterruptTransparent`, `NoBssLeft`, `MainReturnHalts`,
`PrescalerIs256` and `PitchIsRead`.

Bounds. Words have 8 bits instead of 64, counters 16 values, a block of memory 4 pages, a stack
32 bytes, a picture 8 by 6 pixels with 3 passes: the code is uniform in all of these, and each has
inputs below, at and above its limits. Frames, vectors, messages, register addresses, the blocks
of the address map and the numbers of the first version's interrupts have their real sizes. Pins
are 14 and 15, which share words, and 33, which does not.

What these modules say of the code that one would not expect. Where the code's own comments say
otherwise, what they say is a part of `SomeCommentHolds`:

- `kernel_exit` uses `x22` and `x23` for `ELR` and `SPSR` after it has restored them
  (`InterruptTransparent`).
- When `notmain` returns, start.s branches back "for failsafe, halt this core too", to the instruction
  that sets `sp_el1`, which is undefined in EL1 (`MainReturnHalts`). For the same
  reason a start in EL1 fails before line 121, which seems to allow for one; `CoresArrive` is about EL3
  and EL2.
- Up to 7 bytes at the end of .bss are not cleared (`NoBssLeft`), and with less than 8
  bytes of .bss the other cores are not woken. The sections of libpi's programs are larger.
- The size of the pitch's value in `fb_init` is 0, so the VideoCore finds the end of the tags early
  and never answers the pitch (`PitchIsRead`).
- The prescaler of `timer_interrupt_init` is 10, and `armtimer.h`:30 has 11 for clock/256
  (`PrescalerIs256`).

Where no comment says otherwise, the property named says what the code does:

- An alignment fault, which the MMU set-up enables, is printed as an address size fault at level 1
  (`CausesNamed`).
- `%d` prints a negative number as 2^64 minus its value (`NegativesWrap`); a number of 64 binary
  digits writes its 0 behind `buf` (`BufHolds`).
- The baud rate is wrong when `set_max_freq` comes after `uart_init` (`BaudFits`).
- Clearing the event of one pin clears those of its word (`ClearsOneWord`), and
  `gpio_event_lowlevel` writes the register of the rising edge (`EventRegister`).
- `delay_ms` is too short from 71 minutes on (`MillisCutOff`).

Other comments that differ from the code, where a model takes the code: `armtimer.h`:38 gives 16:23
for a field of 7 bits;
`interrupt.h` asks for j*16+i for a mailbox of a core, its registers are 4 bytes apart;
`mmu_setup.S`:31 says 25 (512G) of a `T0SZ` of 33 (2G).

## 10. Proofs

For each component: the theorems, the assumptions, and the inductive invariant, which says what
the properties alone do not. A theorem holds for every value of the constants that the named
assumptions admit; TLC evaluates those assumptions on every instance. Wherever an instance is
small enough, TLC also checked the inductive invariants as invariants of the runs: the `MC`
modules extend the modules that state them, so that a cfg can name `IInv`, `ListInv` or `RInv`.

### CoreThreads

`CoreThreads_proofs` and `CoreThreadsRing_proofs` cover every number of cores, slots, rounds and nested ticks, and every program that forks again whenever it likes, under
`~EarlyTick`:

| Theorem | Property |
|---|---|
| `Invariance`, `ListInvariance`, `RoundInvariance` | `IInv`, `ListInv`, `RInv`: the inductive invariants |
| `TypeCorrect` | `TypeOK` |
| `CriticalSections` | `CriticalSectionsClosed` |
| `MutualExclusion` | `OneRunning` |
| `SavedContexts` | `ReadyIsResumable` |
| `MainIsThere` | `MainSchedulable` |
| `StackReuse` | `NoLiveStackReset` |
| `ListsAreRight` | `RingWellFormed` |
| `Reboots` | `RebootsOnlyWhenFull` |
| `JoinAllEnds` | `JoinAllMayEnd`, of a program that forks for every core in the first round, while `early` is empty |
| `Implements` | `PoolSpec` |

What they say of a core's table they say of the cores outside `early`. The invariants therefore hold core by
core, and have no statement that one core's steps could break for another: a core gets into `early` by a
step of core 0 that writes only its own table, and then drops out of them.

`IInv`. None of these properties is inductive. `CriticalSectionsClosed` needs to know that a task off
the core left with its count at 1, that `current` and `cpu` agree outside the switch
(`CpuIsCurrent`), and what a stack may return to (`StacksReturn`), since a return is a jump to
whatever a call or a tick pushed. That a tick never interrupts `fork_task` needs `TimerQuiet`
(where the timer is off), `CurrentSet` (a core without `current` has an unset timer) and
`OthersSleep` (a core that core 0 has forked for in this round still sleeps, unless it is in `early`). `CoreInv(c)` collects what concerns a single
core; the proof shows that a step of one core leaves the rows of the others alone (`OwnStep`,
`RowFrame`) and preserves its own row (`HandlerRow`, `ScheduleRow`, `TaskRow`, `MainRow`), and
treats core 0's program, which writes the rows of others, apart (`ForkRow`, `ProgramRow`).

`ListInv`. `RingWellFormed` speaks of a list between operations. Its invariant describes it in the middle
of them too: `Linked` are the tasks that `next` leads through, `Back` is `previous` with the missing
half of a link or unlink filled in, and `Uncounted` is the difference between the list and
`tasks_num` until the count follows. Then `Back` is the inverse of `next` on `Linked`, and `next`
leads from `main` through all of it. That no proper part of the list is closed under `next` stands
in `IsRing` as a statement about sets, so the proof adds and removes a task without walking the
list. A task that has left it still has its `next`, which the scan of its last `schedule`
follows back into the list.

`RInv` relates the rounds to the tasks. `FramesInv` says that the bottom of each stack is where the
task's function goes on, and so where each `main` is; `DeadLeaves` that a task that is over runs
nothing but its exit; `JoinedInv` that behind a join no task is alive; `CountedInv` that behind `join_all` nobody is still to count its
end, so a core that is overtaken has no task left; `BudgetInv` that the tasks that live
and those still to be forked are what the program asks for. `RebootInv` and with it
`RebootsOnlyWhenFull` follow: behind `join_all` the `demand` on `tasks_num` cannot fail unless core 0 forks too early. The
same invariants give the refinement: `fork_task` is a `Submit`, because it takes a slot that is
over; the switch of `current` in `schedule` lets the core's job give way and runs the next; an
`exit_task` ends the one job its core runs; the return of `join_all` is a `Resume`, because of
`JoinedInv`; and the first fork for a core that does not sleep is a `Lose`.

The assumptions on the constants are named in `CoreThreads.tla`: at least one worker slot, NULL
no slot, core 0 exists and gets a task in the first round (`threading_init` dereferences its
`current`). `JoinAllEnds` has one more, that every core does (the end of section 3 says why).
`~EarlyTick` is used only in the initial state.

### CoreMailboxes

`CoreMailboxes_proofs`, for every number of cores and rounds and all addresses of which no two are
equal and none is 0, under `SlowStart`:

| Theorem | Property |
|---|---|
| `Invariance` | `IInv`, the inductive invariant |
| `OnlyFunctions` | `CallsAFunction` |
| `ReadyForThreads` | `ThreadsOnReadyCores` |
| `NoLostMail` | `MailIsKept` |

The invariant names, for each stage of core 0, where a secondary core may be and what is in its
mailbox. In the first round (`BootCore`) it handles at most the function of the stage before, and
from the first write of a stage on it sleeps; this is all that `SlowStart` is used for. In later
rounds (`WorkCore`) a mailbox holds the address of `secondary_cores_threading_init` or nothing; a core whose work has been
posted has that address before it, in its mailbox or in `w4`, or is in the function; and it does not sleep on it.
Core 0 may post the address again while the core is still in the function: it is the same one. No mailbox ever holds two posts, so no union of addresses is ever called.

### Kmalloc

`Kmalloc_proofs.tla` proves, for every heap and every set of requests under `WholeWords`
(sizes and alignments are multiples of 8; `Kmalloc_odd` shows that it is needed):

| Theorem | Property |
|---|---|
| `Invariance` | `IInv`, the inductive invariant |
| `SegmentsTile` | `Tiled` |
| `EveryBlockHasItsSegment` | `BlocksHaveSegments` |
| `NoFreeNeighbours` | `Grouped` |
| `NothingIsLost` | `EmptyIsWhole`: with all blocks freed the heap is one segment again |
| `Implements` | `AllocatorSpec` |

`IInv` adds to the properties that headers and sizes are multiples of 8 (`InWords`: a split
then rounds nothing, which is where odd sizes break the tiling) and that, while `kfree`
groups, only its own segment may have a free neighbour (`GroupedButTemp`). The list is never
walked in the proof: `Tiled` states for each header what its `next` and `prev` are, so a split
(`CarvedTiles`) or a merge (`MergedTiles`) has to be looked at only where it writes. Blocks do
not overlap because segments do not (`FreeIsHole`), and with it every step of the code is a
step of `Allocator`.

The assumptions are `HeapAssumption`, the alignment of the linker script, and
`RequestsAssumption`, that alignments are powers of two, as the mask of `pi_roundup` needs.

### Threads

`Threads_proofs`, for every finite set of tasks, every `NR_TASKS`, number of stacks and nesting of
ticks, and every program under `ForksAreJoined`:

| Theorem | Property |
|---|---|
| `Invariance` | `IInv` of `ThreadsInv`, the inductive invariant |
| `TheList` | `ListIsRight` |
| `SavedContexts` | `ReadyIsResumable` |
| `OwnStacks` | `StacksAreOwn` |
| `JoinsAreSound` | `JoinSound` |
| `OnlyTheLastReturns` | `ExitNeverReturns`, unless `main` is left alone on the list |
| `Reboots` | `PanicsForAReason`, as long as `ExitNeverReturns` |

`ForksAreJoined` is the discipline that `thread.c` leaves to its callers, who own the `task_struct`s:
only one function forks a task, it joins the task before it forks it again, and joins it before
it returns. `fork_task` on a task that still lives would link it twice, and free one of two stacks. The
programs of the repository keep to it, and `MCThreads` asserts it of its instance.

The invariant says what each stack returns to (`FramesOK`, `PlacesOK`), that one task runs and a
zombie is one that `exit_task` is not done with (`StatesOK`), that all others stopped with their
count at 1 (`PreemptOK`), and that the ring has each living task once (`RingOK`). `OwnersOK` carries
`ForksAreJoined` into the states: each living task has a living one that is still to join it. So the
operand of a `fork_task` is over, however many ticks come between its check and its link, and the
last task but `main` to end is the one that finds itself alone. `RoomOK` counts the callers that
have passed the check of `NR_TASKS` and have not linked yet: that is the overshoot in `ListIsRight`.

### Bootloader

`Bootloader_proofs`, for every file, every number of values, size of blocks and of the FIFO, and
every number of losses, damaged bytes and retries that `BootAssumption` admits:

| Theorem | Property |
|---|---|
| `Invariance` | `IInv` of `BootloaderInv`, the inductive invariant |
| `ReceivedHolds` | `Received` |
| `Implements` | `LoadsTheFile`: the refinement of `Loading` |

What the receiver has acknowledged is right because of what is still under way, so `IInv` says which
bytes are on the wire (the FIFO and the line behind it), from where receiver and sender are.
Between two packets there are none (`Quiet`). When the packet is the one the receiver expects
(`Expecting`), the rest of it is there, perhaps followed by the same packet again, for the second
of two NAKs at the beginning. When it is one that the receiver has had (`Repeated`), because an
answer was lost or the sender took a NAK for a refusal, the receiver finds it out by the number, or
by its inverse, and the next packet may already follow. And in a transfer that goes wrong
(`Failed`) the sender is not ahead of what the receiver has acknowledged.

Why the image is right: of the packet that is expected, either the sum is that of the bytes so far,
the image has these bytes and at most one byte to come is damaged, or the sum is wrong by less than
`Values` and the rest is unharmed (`ThisComes`). In the second case, and in the first with a damaged
byte to come, sums and checksum differ modulo `Values` (`Differ`), and the packet is refused. The
repeated packet does not pass for the next because numbers of two neighbours differ modulo `Values`,
and not both a number and its inverse are damaged. That the FIFO is shorter than a packet is
used where an answer is taken while a packet is under way: the line is then empty, so the rest is in
the FIFO, and some of the packet has been read.

The sums along a packet (`Sums`) are a recursive function. That it is the function it is meant to be
(`SumsAre`) needs an induction, which is done with a least element, as below for `WalkIs`.

Types, the length of the image and what is known of a cancelled transfer (`Base` in the proof)
hold for torn transfers too. `Implements` follows from `IInv`: each step leaves the accepted blocks
alone, adds the next, starts the program with all of them (`WholeFile`), or begins anew (`StepIs`).

### Interrupts

`Interrupts_proofs`, for every number of cores, interrupts and calls, under `CallersKeepApart`:

| Theorem | Property |
|---|---|
| `Invariance` | `IInv`, the inductive invariant |
| `TablesAgree` | `TablesFit` |

`CallersKeepApart`: no enable register is written by the programs of two cores, and an interrupt
is unregistered by the core it arrives at. The invariant says what a call has already done at
each of its steps (`InProgram`), that the value it has read of a register is still the
register's, and that a handler only holds numbers that are still in the tables (`InHandler`):
the program of its core is interrupted by it, and no other core takes entries away. The numbers
of the registers and bits are the code's; `EnableOf` computes them for every range, and `BitsApart`
shows that no two interrupts share a bit.

### LinkedList and Devices

`Sequential_proofs`, for every finite set of nodes, and for all pins, functions and events under
`DevicesAssumption` (the UART's pins are pins, a function has three bits, an event a register):

| Theorem | Property |
|---|---|
| `ListsStay` | `ListsClose` |
| `ListsImplement` | `ListsSpec`: the refinement of `Lists` |
| `UartStays` | `UartIsSet` |
| `PinsStay` | `PinsKeep` |

`ListsClose` speaks of where a walk along the pointers ends, and the inductive `ListInv` of
`LinkedList` of what the walks are: two sequences of nodes without a node in common, each without
a node twice (`Once`), through which `next` leads (`IsPath`), from `head` to `tail` and NULL
(`IsQueue`), and from `entry` around to itself (`IsRing`). What `next` holds in nodes outside both
is free, as in the code, which leaves the old pointer in what it takes out. The lemmas come in
three layers: sequences with one element more or less (`BehindIs`, `WithoutIs`), paths through
such sequences when pointers change (`PathGrows`, `RingLeave`, ...), and the functions of
`linkedlist.c` (`PushIs` to `RemoveIs`), each the abstract operation that it implements.

Walking is recursive, so `WalkIs`, which says that the walk along a path is the path, needs an
induction. The library's induction theorems take an operator as a parameter, which no prover here
can instantiate. `Least` does without: the set of the steps at which the walk leaves the path would
have a least element, by the theorem that < on the naturals is well founded, and at the step
before it the walk was still on the path.

`DevicesInv` adds to `UartIsSet` that `late` is only set when the UART is enabled and the clock is
up: before that, `uart_init` finds the clock as it will stay.

### Delays, address map, start-up and picture

`Sequential_proofs` also has what the functions of section 9 compute for all inputs; the run gives
them some:

| Theorem | Says | Of |
|---|---|---|
| `DelaysEnd`, `CoreDelayEnds` | `WaitsAsLong`, `MillisCutOff`, `CorePart` | every number of ticks, so the 2^32 of the code, every count, time and distance of the polls |
| `MapIsRight` | `Identity`, `VcUncached`, `DevicesOrdered` | every size of a block and every start of the VideoCore's memory below the peripherals |
| `CoresStart` | `CoresArrive`, `ClearsWords` | variables and stacks of every size |
| `LanesAlone`, `PictureIsTiled` | `LanesAgree`, `TasksTile` | every number of tasks, lines and passes, every width divisible by four, all values of the pixels |
| `LoopsHold` | `LoopsEndRight` | the inputs of the run, for every value of the constants |

They rest on a few facts about quotients and remainders (`RemainderIs`, `Division`, `Composed`). The
loop that polls sees the counter far enough first at the first multiple of the distance that
reaches the time (`WaitIs`): it cannot be seen late before, and a wait shorter than a round of the
counter by one poll is not over a round too late. The loops of the fractal program are recursive
functions. What each is (`CountsAre`, `LinesAre`) follows from a closed form that satisfies
the equation, so there is such a function, and from the least index at which another one would
differ. Then each index of the frame buffer belongs to one task and one pixel (`PixelAt`), and the map
between them is a bijection, which counts the writes.

### Not proved

- Liveness, which rests on fairness: `EveryTaskFinishes`, `NoStarvation`, `ProgramEnds`, `PostsAreCalled`,
  `ProgramStarts`, `EachIsServed`.
- `FramesKeep` and `NumbersPrinted`: they fold over lists of instructions, digits or items of a
  format, and each fold would need its own induction over that list.
- `MessagesHold`, and the rest of `MemoryIsReady` (`RegistersApart`, `TimerRuns`, `MmuFits`): these are
  about the messages, addresses and words that the code has, without a parameter that would matter, and
  TLC evaluates all of them.

## 11. Copies

Each program directory holds copies of the files it needs: `gpio.c` is there three times,
`va-printk.c` three, `bootloader.c`, `kmalloc.c`, `linkedlist.c`, `thread.c`, `mmu.c`, `VCmailbox.c`,
`mini_uart.c` and the headers twice or more. Where the copies are the same line by line, a model
of one is a model of all: `PROJECT.json` then maps some of the definitions that stand for the
same function to one copy and some to another, and lists the copies with the component. Versions
that differ (`src/04- exceptions` for one core, the capstone's `thread.c`) have models of their own.

## 12. Not modelled

- The weak memory order of the cores, and the cleaning of caches in the capstone's `mmu.c`.
- The contents of stacks in the thread models, and their byte count: every nested handler leaves a
  frame of 784 bytes on a stack of 8 KB. `interrupt.c`:119 of the capstone says that interrupts do
  not nest; they do, once `scheduler_tick` has enabled them again, and the model lets them, up to
  `MaxNest` on one stack.
- The polling of the property mailbox and of the mini UART outside the boot loader: one core asks
  at a time, and a device that never answers stops the core.
- The words of GPU interrupts in libpi's `interrupt.c`, pins over 53, the integer that a large
  float is cut off to when it is printed, the drawing in `fb.c`, and the arithmetic on complex
  numbers and the keys of the fractal program.
- The programs that only exercise a part (the LED demos, the unit tests): where they show how a
  part is used, they are the environment of its module.
- The `multicore starting code stash`, an earlier version of the capstone.
- Makefiles, the firmware, the debug logs and the documents.
