# A verification of the CS452 K3 real-time kernel

The repository is a small real-time operating system for the Raspberry Pi 4: a
kernel with priority scheduling, synchronous message passing and a timer
interrupt, and user-level servers (name server, clock server,
rock-paper-scissors server) on top of it. This directory models it in TLA+,
checks the models with TLC and proves the main results with TLAPS.

Paths below are relative to the repository (`src/task_scheduler.c`,
`tasks/idle.c`); in `PROJECT.json` they carry the prefix `src/`.

## The system

### Components, their state and their operations

| Component | State | Operations | Hard behaviour |
|---|---|---|---|
| Scheduler and task table (`task_scheduler.c`, `task.c`, `kernel.c`) | task slots, `task_id_cnt`, `jobq`, `readyq`, `irqq[1022]`, `current_task` | `create_task`, `remove_current_task`, `change_task_state`, `schedule`, `add_to_irq_queue`, `wake_up_irq_blocked_tasks` | a task is in the queue its state says, whatever order of traps and interrupts led there; slots are never recycled |
| Message passing (`message_passing.c`) | per task: sender queue, arguments left in registers, result | `sys_send`, `sys_receive`, `sys_reply` | a message is read from the sender's registers long after its Send; Reply checks nothing; Exit forgets waiting senders |
| System calls, exceptions, interrupts (`kernel_syscall.c`, `exception.c`, `interrupt.c`, `macro.S`, `asm_exception.S`) | saved registers, `result`, `should_pass_result` | `sys_create`, `sys_tid`, `sys_parent_tid`, `sys_yield`, `sys_exit`, `sys_await_event`, `handle_irq`, `activate` | results survive preemption, also where they should not |
| Stack blocks (`memory.c`) | `memory_blocks_used` | `memory_allocate_block`, `memory_free_block` | no block shared or leaked |
| Ring queue (`queue.c`) | `container`, `head`, `tail` | `queue_push`, `queue_pop` | wrap-around, full against empty |
| Task queues (`task_queue.c`) | node pools, doubly linked lists, sizes | `task_list_push_back`, `task_list_remove_node`, `ptask_queue_push`, `ptask_queue_pop` | removal from the middle, stale links of freed nodes, lists that share a pool |
| Clock server (`clock_server.c`) and memory pool (`memory_pool.c`) | `ticks`, delay queue, free chunks | TICK, TIME, DELAY, DELAY_UNTIL; notifier; client calls | lost ticks, clients that run during the wake-up loop, 32-bit wrap-around |
| Name server (`name_server.c`, `hash_table.c`) | 64 slots, static `name_server_tid` | REGISTER_AS, WHO_IS | hash collisions, use before start |
| Timer (`timer.c`) | comparator, `next_tick_time`, `tick_count`, `boot_time` | `sys_clock_init`, `sys_clock_notify_tick`, `sys_timer_full_count` | missed ticks, torn 64-bit read, a match left from before |
| Rock-paper-scissors server (`rps_server.c`) | queue of players, games | sign-up, play, quit | requests in any order |
| Idle task (`tasks/idle.c`) | `execution_time`, `last_exit_time`, `idle_count` | wait for an interrupt with interrupts masked, account for busy time | lost wake-up, time left out of the account |
| K3 (`tasks/k3_user_tasks.c`, started by `config.c`) | the clients' parameters | first user task, four clients of different priorities and delays | start-up order of servers and clients, lossy ticks |
| Console (`rpi.c`) | SPI receive FIFO, UART transmit FIFO | `uart_putc`, `uart_puts`, `uart_printf`, `spi_send_recv` | used by any task and the kernel at once, with no lock |
| Utilities (`utilities.c`) | none | number conversions, tokenizer, clamp | limits of the integer types |

### How they interact

`kmain` alternates between a task and the kernel: `schedule()` picks a task,
`activate()` resumes it, an `svc` or an interrupt brings it back, and
`handle_current_exception` runs one handler with interrupts masked. The
handlers share the task table and the queues; tasks share nothing but messages
(and the static `name_server_tid`). The timer interrupt wakes the clock
server's notifier out of `AwaitEvent`; the notifier sends TICK to the server,
which answers it and then every client whose delay is over. Everybody prints
through the one UART, and so shares the SPI bus.

## Modules

| Module | What it is |
|---|---|
| `Kernel` | the kernel: scheduler, task table, system calls, message passing, events; with its invariants and properties |
| `MessagePassing` | what Send, Receive and Reply promise, with no scheduler and no queues of tids |
| `KernelRefinement` | the mapping by which `Kernel` implements `MessagePassing` |
| `KernelSafety` | proofs about `Kernel`: types and what calls return, with any programs; the inductive invariant, the theorems that follow from it, and the proof that it implements `MessagePassing`, with well-behaved ones |
| `Queue`, `BoundedFifo`, `QueueProofs` | the ring of `queue.c`, the FIFO it implements, and the proof of that |
| `TaskQueue`, `TaskLists`, `TaskQueueProofs` | node pool and linked lists of `task_queue.c`, the sequences they implement, and the proof of that |
| `ClockServer`, `ClockServerProofs` | clock server, notifier, clients, timer interrupt, memory pool, and proofs of their invariants |
| `NameServer`, `NameServerProofs` | name server, hash table, RegisterAs and WhoIs, and proofs of their invariants |
| `RpsServer`, `RpsServerProofs` | rock-paper-scissors server and its clients, and proofs of their invariants |
| `Timer` | system clock and idle task on the hardware counter and comparator |
| `K3`, `K3Proofs` | the booted program: first user task, clients, name server, clock server and notifier as programs of `Kernel`, and the proof that it uses the kernel as intended |
| `Utilities` | number conversions and tokenizer, as operators |
| `Console` | printing over SPI and UART, with the formats `Utilities` converts |
| `DeviceProofs` | proofs about `Timer`, `Console` and `Utilities`, which share the arithmetic of division |
| `MCKernel`, `MCQueue`, `MCTaskQueue`, `MCClockServer`, `MCNameServer`, `MCRpsServer`, `MCTimer`, `MCK3`, `MCConsole` | instances for TLC |

Operators named `..._<something>` under the comment "Faulty variant" are not
part of the model: each changes the definition after it the way a plausible
bug would, and TLC finds a property violated when it takes its place
(`PROJECT.json`, "mutants").

### Kernel

A handler runs with interrupts masked, so a handler is one action. `mode` says
who runs: a task (`"user"`), the kernel between a handler and `schedule`
(`"kernel"`), nobody because an assertion failed (`"halted"`) or `kmain`
returned (`"exited"`). `"wild"` marks undefined behaviour that the model does
not follow: the kernel copying through registers that hold no message pointer,
or resuming a cleared task slot.

Each task has the fields of `Task` the handlers use. Of its registers the model
keeps what matters: the arguments of the Send or Receive it is blocked in
(`args`; the kernel reads them later), whether register 0 holds an argument,
the task's own value or a result (`x0`), and what the kernel has copied into
its buffers (`buffer`, until the next call). Message contents and lengths are
small sets. Lists are sequences with a count of free nodes, sender queues are
sequences with the ring's limit; `TaskQueue` and `Queue` justify that.

User programs are arbitrary: in user mode the current task may make any of the
calls in `UserCalls` with any of the given arguments, be interrupted, or raise
an unsupported exception. `ReplyAnyone = FALSE` restricts Reply to tasks that
wait for one; `WellBehaved` is that together with awaiting only valid event
ids. The program K3 is proved to keep to it (`ProgramUsesKernel`). The two lengths of a
Send vary together (`SendLens`), those of Receive and Reply by themselves (`Lens`).

### Queue and TaskQueue

`Queue` keeps the ring's cells, which start with whatever the memory holds; the
abstract sequence is read off from `head` to `tail` around the ring.
`TaskQueue` keeps every node field and link. `Queues` are priority queues
that share one pool (the event queues; a single one is the ready queue), `Plain`
the list `jobq`, from which a job leaves at any position through its
`job_node`. Freed nodes keep their links, as in the code.

### ClockServer

A step is a system call with the local code around it; all interleavings of
server, notifier, clients and timer are allowed, which covers whatever the
scheduler does. Message passing is used as `MessagePassing` promises it. The
delay queue is a sequence of nodes, each in a numbered chunk of the pool. Tick
counts are unsigned and wrap at twice `I32Max + 1`, `I32Max` being the largest
signed number (2^31 - 1 in the code), and arguments go up to it; a negative one is
refused by the library call and leaves no trace. `due`,
`wrapped`, `elapsed` and `delivered` are history variables that only properties
read. The server forgets `tid` and `msg` when it returns to Receive, and a
client its message when its call returns: the code overwrites them before it
reads them again.

One fact of the code is argued, not modelled: Receive returns neither 0 (every
request has the size of `ClockServerMsg`) nor -1 (a sender blocked in Send cannot
exit), so the server's loop does not end. That `AwaitEvent`, which assigns no
result, returns the notifier's previous, non-negative one is checked in `K3`.

### NameServer

The table has no keys, so a name is the slot it hashes to: `Slot` is a constant,
and two names may share one. A call reads `name_server_tid` in one step and sends
in the next. Before the server has run the tid is 0, and the message goes to the
first user task, of which nothing is assumed: it may be gone (the call returns
-1), answer with bytes of its own, or never answer. `registered`, `answers` and
`known` are history variables. What the properties say is what the code gives:
the first to take a slot keeps it, all askers are told the same task, and a name
registered before the call is found; with colliding names the task may be the
other name's.

### RpsServer

A player stands for its name (a pointer into its stack) and for its tid, which
WhoIs of the name gives; the names of the ten clients `name_and_rps_server`
starts, `rps_client_4` and up, and `rps_server` fall in different slots of the
table. A handler of the server works on its own variables and then makes its
replies one per step (`out`), so a player that has been answered runs while the
handler is still busy; chunks are freed and moves forgotten after the last
reply, as in the code. A handler takes all of its chunks in its first step: the
pool is the server's own. A client forgets the result of a round when it sends
again. That no player is ever
told NO_OPPONENT, although the server has that case, is part of `RoundsAgree`.

### Timer

The counter counts between any two register accesses of the code, so an access is
a step; the 64-bit count is read high half first, then low half, and a carry in
between gives a torn reading (`torn` notes in which use). `pc` says which code
runs: boot, user code, the interrupt handler, or the idle task, whose sleep ends
when an interrupt is pending although interrupts are masked. Durations are free: a
handler may take longer than an interval, and then the assertion of
`sys_clock_notify_tick` stops the kernel. The low half has `W` values, boot may
find any count and a match that is still pending from before.

### K3

Each step of a task is an action of `Kernel`, the system call of that name,
conjoined with the arguments the task's code passes, and with the task's local
code before it. Reply is the exception: it is `reply_to` of `Kernel`, the handler
without the restriction to tasks that wait, so that the program could misuse it.
Nothing else decides who runs: `schedule` of `Kernel` does. Only the
timer is free, with two bounds. At least `GAP` system calls lie between two
interrupts unless the idle task runs (a tick is 10 ms, and a system call takes
microseconds): with a gap of three or less the timer can starve the name server
until a client has looked it up. `TURNAROUND` is the number of system calls within
which the notifier is to be back in `AwaitEvent`; 12 suffice with `GAP` 6.
`programVars` are the locals of the programs; `name_server_tid` is stored by a step
of its own, since the name server can be interrupted before.
The clock server's loop, its delay queue and the notifier appear here once more in
a form reduced to what this program does (no DelayUntil, no pool);
`ClockServer` has them in full, with arbitrary clients.

### Console and Utilities

A bus access is a write, which enqueues an answer, and a read, which takes the
oldest one, whoever it was meant for. `ConsoleInit` chooses between all tasks printing
strings with printf, character by character through `uart_putc`, and one task
alone printing a format with `uart_printf`, which the repository never calls. The
answer to a register write is a byte of no meaning, zero or not. A task prints
alone if no other uses the bus: then frames longer than a bus word, with chip
select held, are safe. `Utilities` has the conversions, on characters as codes, as
the code computes them digit by digit; 32-bit numbers have `M` values. The
smallest i32, whose negation overflows, is taken as the processor computes it.

## Runs

| Run | Question | Bounds |
|---|---|---|
| `kernel_scheduling` | Do queues, states and pools agree under creation, exit, yield, faults, events and preemption? Do equals take turns, and are timer waiters woken? | 3 priorities, 4 tasks, priorities below, inside and above the range |
| `kernel_messages` | Do Send, Receive and Reply keep their promise when three programs use them in any order, with creation and exit? | sender rings just large enough for all tasks, so that the limit is met; messages longer than the buffer of Receive, replies shorter than theirs, so that both limits apply |
| `kernel_any_use` | Do stacks stay apart when programs reply to anyone and await invalid events? | 2 programs, so that a queued sender can be answered early and exit before Receive finds it |
| `kernel_interrupted_x0` | the disagreement below | minimal |
| `ring_queue` | Is the ring a FIFO? | 4 cells, 3 values: every fill level at every position |
| `task_queues` | Are the linked lists sequences? | one pool of 3 nodes for 2 queues of 2 priorities and the list of jobs; 3 jobs, so that one is in the middle |
| `clock_server` | Is every call answered once, on time, not early, and does it return? Does the pool balance? Does the clock count its interrupts? | 2 clients, 3-bit clock (wraps at 8), arguments -1, 0 and 3, the largest |
| `name_server` | Do calls to the server return, and find what was registered? What is left when names collide? | 2 clients, 3 names of which 2 share a slot, calls before the server starts |
| `rps_server` | Is every request answered once, with results that fit the moves of its round? Are names alive when read? Does everybody finish? | 4 players (two games at a time), 2 rounds, so that moves of one could leak into the next, 3 moves, 3 chunks |
| `timer` | Is the tick count exact? When does the kernel stop? Is the busy time exact? Do ticks go on? | 3-bit low half, so that it carries at 8 within the 14 counts; interval 3, a report every 2 sleeps |
| `k3` | Do messages reach the server they are meant for, do servers answer only tasks that wait, is the notifier back in time, does the program end? | all 8 tasks and the idle task; delays up to 3 and up to 2 of them per client, clock wraps at 8 |
| `console` | Are characters lost? Does what is printed arrive and read back as it was? Does every print end? | 3 tasks with 2 characters each and a FIFO of 4; 6-bit numbers, all of them signed |

Deadlock is checked except in `kernel_any_use`, `task_queues` and `timer`, where an assertion may
stop the kernel for good (in `timer` the count also stops at `MAXTIME`), in
`rps_server` and `console`, whose tasks come to their end, and in the run for the
disagreement.

The bounds are small because the structures are uniform in their sizes: two
tasks of one priority and a third of another give every case of the queues;
three entries give a first, a middle and a last; two clients give every order
of deadlines. What the bounds leave open for the safety of the kernel, the queues,
the servers and the timer, the theorems close.

### Fairness

`Kernel!FairSpec` has weak fairness of `schedule`: a handler always ends and
`kmain` goes on. It has strong fairness of the timer interrupt, which is
enabled only while a task runs: the comparator is set again on every tick and
the interrupt controller keeps an interrupt pending until it is taken, and
tasks run with interrupts unmasked. Nothing is assumed of programs: they may
compute for ever. `ClockServer!FairSpec` has weak fairness of the server, the
notifier and the timer, and of a client's return from its call, but not of
making one. It holds for the kernel as long as no task of a higher priority
computes for ever (`RoundRobin` shows the rest). On the same ground `NameServer!FairSpec` has weak
fairness of the server and of the Send and the return of a call once it is made,
and `RpsServer!FairSpec` of the server and of each client, which do not wait
for anything but the server. `Timer!FairSpec` lets the count run, masked code
end, and a pending interrupt be taken; it does not make EL0 code do anything.
`K3!K3FairSpec` has weak fairness of `schedule`, strong fairness of the timer and of
"some task makes its next step": which one is the scheduler's decision. The fairness
of `Console` (`ConsoleFairSpec`) is that tasks take turns (its tasks have one priority or the others are
blocked at times) and that the UART goes on sending.

### A disagreement between code and documentation

* `kernel_interrupted_x0`: a task that is interrupted gets its last system call's
  result in register 0 when it is resumed, because `should_pass_result` is
  never cleared.

`sys_reply` makes its target READY without looking at its state. A second reply
fails `assert(task->state != state)`, so one program can stop the system; an early
one wakes a task that is still queued as a sender. `design.txt` asserts that the
target waits, which would stop the system as well, so this is a limit of the
interface (`WellBehaved`), not a disagreement. `sys_receive_unknown` happens only
after such a misuse, and only `kernel_any_use` reaches it.

## Proofs

All theorems hold for every value of the constants that the named ASSUMEs allow
(below). Each rests on an inductive invariant that TLC checked on the instance of
the run before it was proved; a proof has one part per action.

### Kernel

`KernelSafety!TypeCorrect`: `Spec => []TypeOK`, and `DeliveriesReported`: the length
a call returns is that of what was delivered, both whatever programs do.

`KernelSafety!KernelInvariantHolds`: `WellBehaved => (Spec => []KernelInvariant)`.
None of the kernel's safety properties is inductive alone: that a handler's
assertion cannot fail rests on the queues holding tasks of the right state,
that a queue does so rests on the current task being in no queue, and that a
node pool has a node left rests on counting the tasks in one state.
`KernelInvariant` is their conjunction: `TypeOK`, `ReadyQueueExact`,
`EventQueuesExact`, `SenderQueuesExact`, `LiveTasksExact`, `NodePoolsBalanced`,
`NeverExits` and `NoAssertionFailure`; the kernel runs check it as one. The
pools are handled with cardinality lemmas on the set of tasks in a state. From it:

* `KernelSafe`: no assertion fails, nothing undefined happens, `kmain` never returns;
* `HighestPriorityRuns`: the running task has the highest ready priority;
* `SendersHaveRoom`: Send never returns -2, because the caller and the idle task
  are in no sender queue (needs `MAX_SENDER_CAPACITY >= TASK_POOL_SIZE`, which
  holds with equality in the code, 64 and 64);
* `MessagesImplemented`: the kernel implements `MessagePassing` under the mapping of
  `KernelRefinement`. The mapped variables are functions of a task's state, result
  and sender queue, so each handler is matched to its abstract action on the one or
  two tasks it changes; `schedule` and interrupts map to stutters.

`StacksOwned` (`Spec => []StackOwnership`) needs no assumption on programs, only
a block per task slot.

### The booted program

The kernel's theorems assume well-behaved programs. `K3Proofs!ProgramUsesKernel`
discharges that for the program the system boots: `K3Spec => Spec`, with `WellBehaved`
true of the constants; `BootedKernelSafe` draws the consequence. The difficulty is that
only the invariant of the program makes its steps steps of `Spec`, and only
`KernelInvariant` tells what a call of the program does. So one induction carries both:
`K3Invariant` is `KernelInvariant` with

* `HeldOnce`: a message held in a task's buffer or in the delay queue is of a task that
  waits for the reply, and it is held in one place only;
* `ServerHolds`: when Receive has returned to the clock server, it has a message;
* `NotifierServed`: the notifier's parent is a clock server, and what its last call
  returned is a tid or a length;
* `Started`: unused slots have not begun, there is one first user task, and the clock
  server and its notifier do not exit.

A step of the program is a step of `Spec` if `K3Invariant` holds before it, so it keeps
`KernelInvariant`; given that after the step too, a handler has not failed, and the
effect of each system call on other tasks is one of eight (`Returns`, `Parks`, `Hands`,
`Takes`, `Answers`, `Creates`, `Leaves`, `Switches`). The other conjuncts are shown to
survive each effect, and each program step to have one. Insertion into the delay queue
is described by its place. From it `RepliesAreAwaited` and `AwaitEventNeverFails`. All
hold for any number of clients with any priorities, delays and counts, and for any
timing of interrupts (`GAP` and `TURNAROUND` play no part).

### Queues

`QueueProofs!RingImplementsFifo`: the ring implements `BoundedFifo` for every
capacity; a push extends the reading of the ring by the cell at `tail`, a pop
shortens it by the one at `head`.

`TaskQueueProofs`: `ListsStayConsistent` and `ListsImplementSequences` (the linked
lists implement `TaskLists`). That the count of a priority queue agrees with its lists
(`QueueSizesExact`), so that `ptask_queue_pop` never gets past its loop, follows from
the count being the number of places taken in them. The invariant `ListsInvariant`
says that there is, for each list, a sequence of nodes whose neighbours the links are,
that every node is free once or in one sequence once, and that every job's node is in
`jobq`. A push appends to one sequence, a removal takes out the k-th node of one and
joins its neighbours, and the new sequences are the witness for the next state. That
following `next` from `head` finds this sequence (`ChainIs`) is shown by the least
place where two solutions of the recursion differ, which has no predecessor. A pool
that has given out a node can take it back by the pigeonhole principle, so only an
exhausted pool stops the kernel. This and the ring justify the sequences of module
`Kernel`.

### Clock server

`ClockInvariant` adds to the types which task owes and is owed what: senders wait in
the queue once (`SendersWait`), a client that awaits a reply is queued once or in
hand (`AnswersOwed`), the server's copy is the client's message (`MessagesKept`), a
queued deadline is the client's (`DeadlinesKept`), the clock has not passed the
deadlines in the queue, which is sorted (`ClockAhead`), chunks are used once
(`ChunksOnce`), and what has been answered was right (`Answered`). Insertion is
described by one lemma on its place in the sorted queue; that the pool has a chunk
left is the pigeonhole principle again, with the client in hand as the spare one.
From it `AnswersOnce`, `QueueOrdered`, `PoolNeverEmpty`, `NoTickLost`,
`DelaysNotEarly` and `DelaysOnTime`: the first six properties of the run, for any
number of clients and any width of the clock.

### Name server

`NameInvariant`: besides who waits where, a used slot holds a task that registered a
name of that slot, and every registered name has its slot used (`TableKept`), answers
given are what the table still holds (`AnswersKept`), and a call for a name known when
it was made asks the server, and is told and returns a task (`KnownKept`).
From it `NamesHonest` and `NamesFound`, for any names and any hash.

### Timer

`TimerInvariant`: the next tick is `boot_time` plus whole intervals and the comparator
is its low half (`ClockSet`); a high half that was read is not ahead of the count
(`ReadsBehind`); while no tick is pending the next one is ahead, and while one is it is
late by less than an interval or the assertion catches it (`TickInTime`); busy time and
its account differ by a multiple of `W` that is zero without torn reads (`BusyKept`).
The torn read and the wrap of the comparator need lemmas on division with remainder,
for any `W`. From it
`TicksAreExact`, `HaltsAreLate` and `BusyTimeIsExact`. `2 * INTERVAL < W` is far from
tight in the code (10000 against 2^32); `MAXTIME` bounds the runs and is arbitrary.

### Console and conversions

`ConsoleInvariant` says what holds until one task accesses the bus during another's
call (`OneCall`): at most one task is in a call; the receive FIFO is empty between
calls and holds that task's one answer while it waits; and what the task has found out
still holds (`Holds`): there are at least as many free places as it was told, and the
rest of its frame fits. The UART only adds free places, and only the task in the call
takes them. From it `CharactersAreSafe`. Once accesses overlap, nothing but the types
is left, and characters can be lost.

`PrintsInOrder` is about a task alone: what is on the line, in the transmit FIFO, in its
frame and in its remaining pieces, joined in this order, is always what `uart_printf`
was given (`InOrder`). Each step moves characters across one of the joins.

`NumbersReadBack` and `NumbersInUsualForm` are about the recursive functions `Digits` and
`Accumulate`. The library's induction cannot be used, so a recursion is solved by the
least counterexample: if a measure of the argument decreases, there is a function that
satisfies the recursion up to any measure (`Approximation`), two such agree (`Agreement`),
and so there is one that satisfies it everywhere (`Recursion`); what holds at zero and is
inherited from the next argument holds for every argument (`Descent`). The digits of a
number are then characters, at least one, and their value is the number. The smallest
i32, whose negation is itself, is written with characters below '0', which are read back
to it nevertheless, modulo `M`.

### Rock-paper-scissors server

Two opponents run at their own speed, so neither their rounds nor their states
agree. `RpsInvariant` is built on what does: the number of rounds the server has
decided for each (`Decided`), since one step of the server decides for both. From that
follow that no one quits while the other has a round to play, and that a move found in
the table is of the same round. Theorems: `PlayersAnsweredOnce`, `PairsAreMutual`,
`RoundsJudgedAlike`, `OpponentsWait` and `ThreeChunksSuffice`, for any number of
players, at least one round and at least three chunks.

### Assumptions on constants

The named ASSUMEs of the modules, which TLC evaluates on every run: at least two task
slots, the first task's priority above the idle task's, rings and blocks for every
slot, at least one ring cell and one list node; the task lists of one pool are
priority queues and at most one plain list; the clock server has a chunk per client
(the code has 512 of them and 64 tasks) and arguments within the signed type; the name
server's clients have tids of their own, other than the first task's, and there is a
name; the interval is positive and less than half the comparator's range; in `K3` the
clients' priorities are a sequence of integers, only the timer is awaited, and payloads
are the program's messages; integers have an even number of values; in `Console` the
transmit FIFO and the buffer of `uart_puts` hold at least two characters (64 and 32 in
the code), and texts and formats are made of characters and of numbers of their types.

### Only model-checked

* Liveness (`RoundRobin`, `TimerWakes`, `EveryCallReturns`, `CallsReturn`,
  `EveryoneFinishes`, `TicksGoOn`, `ClientsFinish`, `PrintsFinish`): fairness is beyond
  the prover.
* `K3`: `MessagesReachServers` and `NotifierInTime` depend on the schedule of this
  program with its gap between interrupts, a finite case analysis that TLC does
  better; with no gap the first is false.
* `Console`: `PrintedAndReadBack`. What it takes together, that a lone print arrives in
  order and that numbers read back, is proved; that the tokenizer finds the number
  between its spaces, and the form of numbers by powers of the base, is checked for the
  formats of the run; a format whose strings contain spaces would shift the tokens, so
  this is not a theorem about all formats.

## Not modelled

* `printf.c`: a vendored formatting library; the one function the project added to
  it, `_putchar`, is `printf` of `Console`.
* Boot code, the GIC, the set-up of pins, bus and UART: device registers written
  once, in a straight line. What they leave is the initial states.
* Registers other than register 0, and the contents of messages beyond telling
  them apart.
* Code that nothing calls: the list at `task_scheduler.c:85-143`, `uart_getc`,
  `hash_table_remove`, `get_random_u32`, and the programs of earlier milestones and
  tests under `tasks/`, which `config.c` does not start.
* Prints inside tasks are left out of all modules but `Console`: they take time,
  which interleaving covers, and change nothing else.

## Plan

What is left: that `ClockServer` and `NameServer` use messages as `MessagePassing`
promises them, which `K3Proofs` shows for the reduced servers of the booted program.
