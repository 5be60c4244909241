# A TLA+ verification of Vamos OS

Vamos OS (the repository SoraOS) is a 32-bit x86 teaching kernel: one CPU, ring 0,
no paging, a 100 Hz timer that calls the scheduler, a keyboard, a text console and
a shell. This directory holds TLA+ models of its parts, the TLC runs that check
them on small instances, and theorems about them that TLAPS checks for all
instances. Paths below are relative to the repository (`src/pmm.c`,
`include/pmm.h`); `PROJECT.json` names the lines that each definition models.

## 1. The system

| Part | State | Operations | What makes it correct |
|---|---|---|---|
| Physical memory manager, `src/pmm.c` | bitmap, total and free counts | `pmm_init`, `pmm_alloc_page`, `pmm_free_page` | the count is exact; the kernel image and reserved memory are never handed out; no page is lost or has two owners |
| Scheduler, `src/scheduler.c`, `src/context_switch.asm` | PCB pool, run queue, `current_pcb`, `next_pid` | `create_process`, `schedule`, `process_exit`, `enqueue`, `dequeue` | each live slot has its own stack; the queue is the list of live slots; a READY slot runs |
| Timer and interrupts, `src/pit.c`, `src/idt.c`, `src/isr.asm`, `src/pic.c` | IDT, handler table, the registers of both 8259s, IF, frames on stacks, `tick_count` | IRQs, exceptions, EOI, `iret`, `sleep_ticks` | a handler that was left by a context switch is finished on the stack it began on; frames fit; every line is acknowledged and served; no IRQ is taken for an exception |
| Threads, `src/thread.c` | TCB pool, `next_tid` | `create_thread`, `thread_exit`, `thread_delete` | as for the scheduler |
| Mutex, `src/mutex.c` | lock word, wait list | `mutex_lock`, `mutex_unlock` | exclusion; the wait list is exact; no wakeup is lost |
| Keyboard, `src/keyboard.c` | ring buffer, `shift_held` | IRQ1 handler, `keyboard_getchar` | the ring is a queue; every accepted key is read |
| Console, `src/vga.c` | screen, cursor | `vga_putchar`, `vga_scroll`, `vga_clear`, status bar | the cursor stays on the screen; the status bar is kept |
| Shell, `src/shell.c` | `line[]`, `pos` | line editor, parser, commands | the screen shows what will be parsed; commands leave the kernel consistent |
| Boot, `src/boot.asm`, `src/kernel_main.c`; panic `src/kernel.c`, serial, GDT | how far the boot has come, `serial_ready` | initialisation in order, `kernel_panic`, `reboot`, `exit` | nothing is used before it is initialised; the machine stops only for a cause, and shows it |

How they interact. `kernel_main` initialises everything and then *is* the shell:
the shell runs on the boot stack, under the PCB of the "idle" process, whose own
entry function never runs. It is the only context that interrupts reach (section
4). Every 10 ms IRQ0 interrupts it, and `timer_handler` calls `schedule()` inside
the handler. A context started or resumed by `schedule()` keeps the CPU until it
calls `schedule()` (from `mutex_lock`, or directly) or exits; process_exit goes
back to the idle PCB, hence to the shell, in the middle of the handler it was
interrupted by. Commands of the shell change the run queue, the pools and the page
bitmap with interrupts enabled and without a lock, so that other contexts may run
between any two of their memory accesses. That is where most of the hard cases
are; `PROJECT.json` lists them under "hazards".

`create_thread`, `thread_delete`, `thread_exit`, the mutex and `sleep_ticks` have
no caller in the repository: `README.md` documents the shell commands `thread` and
`killthread`, and `command_table` lacks them. The runs with threads check these
functions as the API that the documentation offers, called from the shell and
from thread bodies. The run `shipped` has only what the command table has.

## 2. The modules

| Module | Models | Notes |
|---|---|---|
| `PageBitmap` | the bitmap of `pmm.c` as pure operators | a bitmap is the set of pages whose bit is 1; the words remain, because the allocator scans and writes back words |
| `PMM`, `MCPMM` | `pmm.c`, sequentially | `pmm_init` entry by entry; `uint32_t` sums modulo `Wrap`; `high` and `long` stand for a base or a length that does not fit 32 bits, of which the code looks at the first only; `owned` and `ret` are history |
| `PageAllocator` | what `pmm.c` promises: a pool of pages that are granted and released | refinement by INSTANCE in `PMM` |
| `Scheduler` | `schedule`, `dequeue`, `context_switch`, IRQ0 | EXTENDS PageBitmap |
| `Threads` | mutex, `process_exit`, thread bodies | EXTENDS Scheduler |
| `Shell` | the commands that change kernel state and the listings (`ps`, `threads`, `ls`), access by access | EXTENDS Threads |
| `Kernel` | the composition: Init, Next, fairness, properties | EXTENDS Shell; the runs on the kernel use it |
| `RoundRobin`, `KernelRefines` | what the scheduler promises, without pointers; that `Kernel` implements it | refinement by INSTANCE |
| `Interrupts` | `boot.asm`, `kernel_main`, IDT, stubs, PICs, PIT, panic, serial and GDT, as the boot context sees them | the 8259s and the CPU's own steps are external |
| `Keyboard`, `BoundedFifo` | `keyboard.c` and the wait loop of `shell_run`; the abstract queue it implements | refinement by INSTANCE |
| `Console`, `MCConsole` | `vga.c`, and the line editor and parser of `shell.c` | EXTENDS Numbers |
| `Numbers` | `sh_itoa`, the number that `killprocess` parses, `time`, the uptime in the status bar | pure operators |
| `PageBitmap_proof`, `PMM_proof` | theorems on the allocator | TLAPS |
| `Kernel_proof`, `KernelLists_proof` | theorems on the kernel: types, interrupts, exclusion, slots and stacks; then the lists, the wakeups and the pages | TLAPS; the second EXTENDS the first |
| `KernelRefines_proof` | that `Kernel` implements `RoundRobin` | TLAPS; EXTENDS KernelRefines, KernelLists_proof |
| `Keyboard_proof`, `Interrupts_proof` | theorems on the keyboard and its refinement, and on the machine below it | TLAPS |
| `Console_proof` | theorems on the screen, the line editor, the parser and the numbers | TLAPS |

Definitions keep the names of the code. Operators marked "Mutant" are wrong
versions of the definition after them; no specification uses them. Each is the
plausible mistake that shows the property named with it in `PROJECT.json` can fail.

### State and actions of the kernel model

* A slot is an entry of `pcb_pool` (1..NPcb) or `tcb_pool` (behind them); 0 is
  NULL. `state`, `pid`, `esp`, `stack_base`, `next`, `tid`, `wait_next` are the
  fields of the slots.
* A stack is the page it lives in, and an execution context is a stack. `pc[s]` is
  the place that the code on stack `s` has reached, `cpu` the stack that ESP
  points into, `isr[s]` says that an interrupt frame is on top of `s`. Page 0
  stands for the kernel image, which contains the boot stack. It is also the page
  that `pmm_free_page(NULL)` would free, as in the code.
* `TimerIrq` is the interrupt gate (IF cleared), the saved registers and the whole
  of `timer_handler` with `schedule()`. `IsrReturn` is EOI and `iret`, once the
  interrupted stack has the CPU again. `schedule` is the search, the change of the
  two states and `context_switch`, in one step: it always runs with interrupts
  disabled. The search is a walk of bounded length; `ScanEnds` says that the loop
  of the code ends, and without it the step cannot be taken.
* Thread bodies run with interrupts disabled, so that the interleaving comes from
  their own calls of `schedule()`. The mutex still is split into its accesses.
* The shell's commands are split at each access to shared state (`sh` holds the
  locals): choose a slot; scan the bitmap; store the word; give up if the page has
  the address NULL (`NullStack`), else fill the slot and start `enqueue`; one step
  per node of a walk; the link; for a deletion one step per node of the queue or
  entry of `tcb_pool` until the number fits, the store of DEAD (`mark_dead`, which
  does not look again), and for `dequeue` the comparison, the walk, the load of
  `next` and the store. The fields of a slot that is not
  linked are filled in one step, because nobody else looks at them. The listings
  print one row per step, and then follow `next`.
  `pmm_alloc_page` keeps the bitmap word in a register between its test and its
  store, as a compiled `|=` does.

### State and actions of the interrupt model

* `at` is the call of `kernel_main` that comes next (`BootOrder`), then the shell,
  a sleep, or "stopped"; each call is an action.
* `stack` is the sequence of words that the CPU, the stub and
  `common_isr_stub` have pushed on the boot stack, each with its name. What
  `common_isr_handler` reads as `int_no` is the word at its offset, whatever it
  is, and what `iret` pops is what is left. So a stub that pushes a
  word too many or too few shows.
* `pic` holds offset, mask, request and in-service registers of the two
  controllers. Lines are edges, have priorities, the slave is at line 2 of the
  master, and each controller may give a spurious line 7. Exceptions may
  happen at any time at which an instruction is executed; one that comes before
  the IDT is loaded resets the machine.
* `kbd.full` is the output buffer of the keyboard: it raises IRQ1 when it gets
  full, and no more until it is read. `kbd.missed` and `cause` are history.
* `timer_handler` counts and returns here. Where `schedule()` goes is in `Kernel`,
  and by `InterruptShield` it comes back to the boot context with the same frame.

## 3. The runs

Passing runs. All finish in about a minute or less; states are distinct states.

| Run | Instance | States | Shows |
|---|---|---|---|
| `pmm` | 6 pages of 2 bytes, words of 2 bits, 4-bit `uint32_t`; every map of up to 2 of 21 entries, some of which end at or beyond the end of the address space, one with a 64-bit length; three values of `mem_upper`, one of which wraps | 15087 | `TypeOK`, `FreeCountExact`, `KernelNeverHandedOut`, `OnlyAvailableHandedOut`, `MemoryPartition`, `ImplementsAllocator` |
| `shipped` | 4 PCBs, 4 pages, up to 5 pids, `ps`, `killprocess` 0..3 | 3774 | `PagesAccounted`, `QueueExact`, `ImplementsRoundRobin` with what the shell really offers |
| `threads_mutex` | 3 TCBs, 6 pages, 4 threads; lock, yield, exit; creations and listings | 88725 | `ContextsKept`, `StacksOwned`, `WalksEnd`, `RunningIsCurrent`, `MutualExclusion`, `WaitListExact`, `NoLostWakeup` |
| `everything` | 2 PCBs, 2 TCBs, 4 pages, all commands and bodies, `killprocess` and `killthread` of 0 and 1 | 193654 | `TypeOK`, `InterruptShield`, `MutualExclusion`, in racy interleavings too |
| `liveness` | 3 TCBs that lock and yield, creations and `ls` | 4001 | `ReadyRuns`, `CommandsFinish`, `HeadWaiterMoves`, `ImplementsRoundRobin` |
| `interrupts` | devices on lines 0, 1 and 8, exceptions 6 (no error code) and 21 (error code), a tick counter modulo 4, sleeps of 0 and 3 ticks | 22232 | `TypeOK`, `FrameFits`, `StopsForCause`, `NothingInService`, `SleepsLongEnough`, `IrqsServed`, `KeysRead`, `SleepEnds` |
| `keyboard` | ring of 3, five keys (one unmapped, both shifts), 6 scancodes | 93703 | `TypeOK`, `ShiftNeverStuck`, `ImplementsFifo`, `BufferDrains` |
| `console` | screen of 4 x 4, lines of 5, 2 arguments; numbers at the ends of digits and of `uint32_t` | 136216 | `TypeOK`, `StatusBarKept`, `ScreenShowsLine`, `ArgsAreWords`, `NumbersReadBack` |

Runs that find what a comment or a document says violated by the code (each is a
finding in `PROJECT.json`):

| Run | Property | What happens |
|---|---|---|
| `counter_runs` | `CounterNeverRuns` | a tick between `create_process` and the store of BLOCKED runs `counter_process`, which halts with IF = 0: the machine is frozen |
| `enqueue_race` | `ThreadsVisible` | the new thread is linked behind a thread that has left the queue |
| `preempted` | `Preempted` | a thread that does not call `schedule()` is never paused: it runs with IF = 0 and IRQ0 in service (section 4), so no tick comes, although the PIT is fair and the idle process is READY |
| `pmm_tail` | `NullMeansNoneFree` | allocation fails with pages free in the last, partial word |

The passing runs are chosen around these. `threads_mutex` has exits and no
deletion, because exits and deletions together corrupt the queue (below), and it
claims neither `QueueExact` (`enqueue_race`) nor `PagesAccounted`: a thread that
exits while `pmm_alloc_page` has the bitmap word in a register frees a page whose
bit the stale word sets again, and the page is lost. `everything` has all of them,
and states what holds even then. In `shipped`, `everything` and `counter_runs`
deadlock is not checked: the machine really stops when `counter_process` halts,
when a thread spins, or when `schedule()` does not end; nor is it in `preempted`,
where a thread spins.

More disagreements are in the models and have no run of their own:

* Ticks are lost while a thread runs, so that `tick_count` is not "the number of
  timer ticks since pit_init" (`pit.h`).
* `thread_delete` does not take a thread off the wait list of a mutex, so that
  an unlock later marks a DEAD slot READY.
* `killprocess 0`, or with an argument that is no number, deletes a thread, since
  threads have pid 0.
* While `killprocess` or `killthread` has found the predecessor of a slot, or has
  its `next` in a register, a thread may exit. The deleted slot stays on the
  queue, or a dead slot becomes its head; once that slot is used again it may
  follow itself, and then neither `schedule()` nor any listing ends. `WalksEnd`
  does not hold in the instance of `everything`.
* A thread may also exit after `killprocess` or `killthread` has found it and before
  DEAD is stored. Its stack is freed already, and the command frees
  `stack_base = NULL`: the bit of page 0 is cleared, and the next creation gets
  page 0, takes it for a failure, and leaves the bit set again. `PagesAccounted`
  does not hold in the instance of `everything`.
* A listing ends early if the thread at its cursor exits: `dequeue` clears the
  `next` that the listing is about to follow.
* The release of one of two shift keys clears `shift_held`. The opposite mistake,
  shift that stays on with no shift key held, does not happen (`ShiftNeverStuck`),
  as long as no scancode is lost.
* A key that is pressed before `pic_init` fills the keyboard's buffer; the reset of
  the controllers drops the request, and nothing reads the buffer afterwards, so
  that no IRQ1 ever comes again. `KeysRead` excepts this case (`kbd.missed`).
* `scheduler.h` says that `scheduler_init` enables interrupts; `kernel_main` does.
* `idt.c` says that it fills "all 256 IDT entries"; 48 vectors have a gate.
* The uptime in the status bar loses its last digits from 1000000 seconds on.

Why the bounds are enough. Two slots behind the idle process give a head, an
inner node and a tail; three threads give a holder and two waiters, the shortest
wait list with an order. Pools and memory are small enough to be exhausted
(`shipped` runs out of pages, `threads_mutex` out of TCBs) and there are more
threads than slots, so that slots and pages are reused. Words of two bits
put two stacks into one bitmap word. `MaxPid`, `MaxTid` and `MaxKeys` bound the
number of creations and keys. In `Console` a line is longer than a row and shorter
than the screen, as 255 characters are on 24 rows of 80 (`ConsoleAssumption`).
In `Interrupts` a master line, the keyboard's and a slave line without a handler
give each path of EOI, one exception has an error code and one has none, and a
sleep of 3 with a counter modulo 4 meets the wrap at every start.

## 4. Interrupts: what the scheduler relies on

`InterruptShield` states it: IF is set exactly when IRQ0 is not in service; IRQ0
is in service exactly when its frame lies on the boot stack; no other stack ever
has a frame; and whenever another stack has the CPU, IRQ0 is in service. So the
"preemptive" scheduler preempts the shell and nothing else, and
threads need no protection against ticks. It is also why `mutex_lock`, with
three separate accesses, works, and why no interrupt can nest. The key press in
`Keyboard` and the tick in `Kernel` are therefore considered for the shell only.
`Interrupts` shows what lies below: that the gates, stubs, masks and EOIs give
this behaviour from the boot loader on, for every line and for exceptions.

## 5. Fairness

`Kernel!Fairness`: weak fairness for the tick (the PIT interrupts whenever IF is
set and IRQ0 is not in service), for the return from the handler and for the
running thread (the CPU executes the context it is in), and strong fairness for
the steps of a command: ticks are 10 ms apart and a step is a few instructions, so
a command cannot be interrupted for ever between two of its steps. Nobody has to
type a command. `ReadyRuns` and `CommandsFinish` hold for threads that yield.
Waiters of the mutex are woken last in, first out, so liveness is stated of the
first one only (`HeadWaiterMoves`): it is woken or another goes in front of it.

`Keyboard!FairSpec`: the tick and the shell go on; keys need not be pressed.

`Interrupts!FairSpec`: weak fairness for the boot sequence, for the handlers and
for the pulses of the PIT; strong fairness for the acknowledgement of each line,
since the controller raises INTR again at each `iret`, and for a sleeper's look at the
counter, which takes less than a tick. Nobody has to press a key. A line
can be starved by those above it, so `IrqsServed` and `KeysRead` assume that again
and again IF is set and no line above is waiting.

## 6. Refinement

`KernelRefines!ImplementsRoundRobin` is `RoundRobin!RRSpec` under the mapping of the
linked list to the sequence that a walk from `run_queue` visits; a slot that is
not on the list is DEAD. In the abstract scheduler slots join at the end, leave,
block and wake in one step each, and the CPU goes to the READY slot whose turn it
is. In the code `enqueue` and `dequeue` are walks with ticks in between. It is
checked with the shipped commands (`shipped`) and with threads that lock and
yield (`liveness`), and it is proved (section 7) for any number of slots, where
`CarefulKills` and `NoExits` hold. It does not hold when threads exit (`process_exit` goes to idle
out of turn, and the races above), when the idle process is killed while threads
exist, or when a waiter of a mutex is deleted.

`Keyboard!ImplementsFifo` is `BoundedFifo!Spec` under the mapping
`queue <- Pending` (the slots from `kb_tail` to `kb_head`) and
`taken <- read`, with the character between an early store of `kb_tail` and the
late load of the character counted as taken. The code is C without barriers, so
the model lets the compiler put the two accesses in either order; the empty slot
that the full test leaves keeps the handler off the character being read.

`PMM!ImplementsAllocator` is `PageAllocator!Spec` under the mapping
`free <- AllPages \ pmm_used` once `pmm_init` has returned (nothing is free before),
`held <- owned` and `answer <- ret`. The abstract allocator grants any page of its
pool, and the pool never has page 0, whose address is NULL. It may refuse although
pages are free, which the comment in `pmm.h` rules out (`pmm_tail`), but only while
they are fewer than a bitmap word has bits: that is what the scan of whole words
leaves of the promise. It is checked in `pmm` and proved (section 7).

## 7. What is proved

For every value of the constants that satisfies the named ASSUMEs (there is at
least one PCB, there are two pages, a word has a bit, a page a byte; the page
sizes fit into `uint32_t`):

* `PageBitmap_proof!FirstFreeIsFree`: the scan returns a scanned page whose bit is
  clear. It rests on `LeastNatural`, that a set of naturals has a least element.
* `PMM_proof!FreeCountIsExact` and `PMMTypeOK`, from the inductive invariant
  `CountInv == TypeOK /\ FreeCountExact`. Each action adds or removes a set of
  pages of which the bitmap test has made sure that it is inside or outside; the
  count follows by the cardinality of disjoint unions. The test
  `pmm_free_pages > 0` in `pmm_init` turns out never to be false.
* `PMM_proof!KernelIsProtected`, from `OwnedInv`: after `pmm_init` the kernel's
  pages are in the bitmap, owned pages are behind them and tracked. It holds for
  every memory map, one whose sums wrap around included.
* `Kernel_proof!KernelTypeOK`, from `TypeInv == TypeOK /\ ShellLocals`. TypeOK is
  not inductive: a walk follows `next[sh.cur]`, so one has to know that the cursor
  is not NULL at the places where it is followed (`find_tid` leaves `tcb_pool` at its
  end, before `mark_dead`), and that only the boot stack is at a place of the shell. It holds in the racy interleavings too.
* `Kernel_proof!Shielded`, with `TypeInv` as the only help: `InterruptShield` is
  inductive.
* `Kernel_proof!MutexExcludes`, from `LockInv`: a context inside implies
  `lock = 1`, and no two are inside. The steps that matter are `test_and_set`, the
  unlock and the creation of a context on a reused stack.

* `PMM_proof!AvailableOnly` and `NothingLost`, from `AvailableInv` and
  `PartitionInv`: what the clear bits are at each stage of `pmm_init`, entry by
  entry. These need a hypothesis on the memory map, since the code adds in
  `uint32_t`. `BasesRoundUp`: no usable region begins inside the last page of the
  address space, where rounding up wraps. `RegionsFit`: moreover a region that
  reaches the end of the address space, or whose length `len_low` does not hold,
  begins behind the tracked memory. `MCPMM`
  assumes both of its maps (`MapsAssumption`), so TLC evaluates them in `pmm`.
* `PMM_proof!PMMIsAllocator`, the refinement of section 6, without a hypothesis on
  the map. It needs `OwnedInv` (page 0 is part of the kernel image, so it is not in
  the pool) and `ClearTracked`: no page behind the tracked memory ever becomes free,
  so that the free pages that a refused caller did not get all lie behind the last
  whole word, and there are fewer of them than `WordBits` (`TailIsShort`).
* `KernelLists_proof!StacksNeverShared`, `ContextsResumable`, `OneRunning` and
  `WaitersExact`, from `SlotInv` (the theorem `SlotsKept`). None is inductive by
  itself: a page must be known to be free of owners from the scan of the bitmap
  until it is in its slot, a place on a stack tells the state of the slot that owns
  the stack, and a dying thread keeps its page until the CPU has left it.
* `QueueIsExact`, from `QueueInv`: at each place of a command, which slots the list
  links (`Members`: a slot being linked is not on it yet, one being unlinked is
  still on it), and where the cursor is. `NoCycles` goes with it: `next` has no
  cycle even among the slots that are not linked.
* `WalksComeToAnEnd`, with `QueueInv` if threads do not exit, and with `LooseInv` if
  they do and nothing is killed: then the list links some set of slots, and a
  cursor that lost its slot to an exit stands on one that leads nowhere.
* `NoWakeupLost`, from `WakeInv`: the lock has a live holder; who goes to sleep
  does so while it is held; while threads sleep and the lock is free, another
  will wake or replace them.
* `PagesAreAccounted`, from `PagesInv`: the word that `pmm_alloc_page` has in a
  register is that of the bitmap.
* `KernelRefines_proof!KernelIsRoundRobin`, the refinement of section 6, under
  `CarefulKills` and `NoExits`. `ListInv` makes the linked list a sequence: links
  that enter each of their sets from outside lead over one sequence (`LinksList`)
  and over no other (`ListUnique`), so that the queue after a step is known as soon
  as one sequence that fits the new links is named. Then `enqueue` is an `Append`
  at the step that links the tail (`ListAppend`), `dequeue` takes one element out at
  the step that stores its successor (`ListRemove`), and every other step of their
  walks is unseen. `schedule()` meets the slots in the order of their turns
  (`ScanIsTurns`), and leaves its loop at the first READY one or back at its start
  (`ElectedIs`). `JoinInv` is needed besides: a slot off the queue leads nowhere (the
  search of a killed idle process that runs on has to start at the head), and a
  slot that a command is about to link is READY and cannot have run yet.
* `Keyboard_proof!KeyboardTypeOK` and `ShiftEnds`, from `KeyboardInv`: the locals
  of a reader in the middle of `keyboard_getchar` agree with the ring.
  `KeyboardIsFifo` is the refinement: each step of the handler is an `Append` or a
  stutter of `BoundedFifo`, each store of `kb_tail` takes the first character, for
  both orders of the reader's accesses. It needs the remainder of sums below
  twice the ring size, and that the slot being read is not the one written.
* `Interrupts_proof!InterruptsTypeOK`, `FrameAlwaysFits`, `StopIsExplained`,
  `LinesAcknowledged` and `NeverShortSleep`, from `MachineInv`: which calls of
  `kernel_main` are done tells which gates, masks and offsets are set
  (`BootFacts`); the stack is empty, one frame or two, word by word
  (`StackFacts`); the ticks a sleeper saw are at least the difference of the
  counter modulo its width (`TicksCounted`).
* `Console_proof!ConsoleTypeOK`, `BarStays`, `LineIsShown` and `ArgumentsAreWords`,
  from `ConsoleInv`. Its part about the screen (`ScreenInv`) says what stands before
  the cursor by the numbers of cells, counted row by row (`Shows`), and that all
  behind the cursor is blank (`ClearBehind`, which wrapping and scrolling need).
  Its part about the line (`LineInv`) is that `line[]` holds typed characters up to
  `pos`, whatever is left of longer lines behind it. The parser is shown right by
  counting: the number of words that begin up to the place a round has reached is
  the number of the round (`WordsCounted`). `ConsoleAssumption` says of the texts
  that are printed that '\b' is not in them.
* `Console_proof!NumbersRoundTrip`: for every number, every modulus and whatever
  stands behind the digits, the loop of `cmd_killprocess` reads what `sh_itoa` wrote.
  The text of a number is that of `n / 10` with one digit more (`NextDigit`), and the
  remainder of a number depends only on its last digit and the remainder of the rest
  (`ModStep`); the least number that would be read back wrong leads to a smaller one.
  `NumbersFit`: no `uint32_t` overruns `tmp[12]`, no uptime `tmp[8]`. `NumbersAreReadBack`
  is the property that the run checks on samples, and follows from these.

The hypotheses on commands are constants of `Kernel`. `CarefulKills`: where there
are threads nobody deletes a thread, also not by `killprocess 0`, nor the idle
process. `NoExits`: threads do not exit. `NoKills`: no slot is deleted. The shipped
shell starts no threads, so `CarefulKills` and `NoExits` hold in it and all
of the theorems apply (run `shipped`); `threads_mutex` satisfies `CarefulKills` and
`NoKills`, `liveness` all three. Each hypothesis is needed: section 3 says how
exits break `QueueExact` and `PagesAccounted`, and exits and deletions together
`WalksEnd`; section 6 says the same of the round robin.

That a walk of a list meets exactly a set of slots and ends is not an induction
over data here. A list is described without a walk (`Links`: no two members have
the same successor, nothing precedes the head, and each set of members without the
head is entered from outside it), and a statement about the n-th step of a walk
follows from the least n at which it fails (`PageBitmap_proof!LeastNatural`). In the
same way the loops of `vga_print`, `shell_parse` and `cmd_echo`, which are recursive
functions in `Console`, exist and are unique (`Console_proof!LoopExists`, `LoopIs`),
and so do the digits and the sums of `Numbers` (`DigitsExist`, `TargetsExist`).

Only model-checked: liveness (fairness is out of the prover's reach), and the
properties whose runs exist to show a disagreement.

## 8. What is not modelled

* Registers other than ESP. `context_switch` saves no other; `schedule()`, its
  caller, is a C function and keeps the registers of its own caller on the stack
  it returns on. `Kernel` assumes that calling convention, and has one mutex.
* Two contexts in one page. A dead slot that an unlock has made READY may have
  saved an ESP into a page that belongs to another thread by now. The code would
  run what is left of its old frames; in the model the context of a page is that
  of its last owner. It takes a deletion of a waiting thread or a corrupted queue
  (only `everything` has them).
* `mutex_lock` by a process that is not a thread (the code casts and writes behind
  the PCB), and a thread body that returns.
* The text of `help`, `about`, the banner and `meminfo` (an arbitrary output in
  `Console`; `meminfo` prints a constant total of 32768 pages, whatever `pmm_init`
  found), colours, the hardware cursor.
* The bytes on the serial line and the wait for its transmitter, the bit layout of
  GDT and IDT descriptors, the divisor of the PIT (ticks have no duration): port
  I/O and constants without control.
* Level-triggered and multi-byte (E0) behaviour of devices.

## 9. Plan

Done: the survey, the memory manager, the kernel core with its races, the
listings, the abstract round robin, the keyboard with its refinement, the console,
the line editor and numbers, boot, interrupts and panic; and as theorems every safety invariant that a run checks of
`PMM`, `Kernel`, `Keyboard`, `Interrupts` and `Console`, and the refinements of the
memory manager, the scheduler and the keyboard.

Left to model, if the code comes to use it: `mutex_lock` by processes.
