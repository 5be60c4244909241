------------------------------- MODULE Kernel -------------------------------
(***************************************************************************)
(* The running kernel: the shell on the boot stack, the threads it starts, *)
(* and the timer interrupt, on one CPU.                                    *)
(***************************************************************************)
EXTENDS Shell

kernelVars == <<schedVars, threadVars, sh>>

\* kernel_main has run: pmm_init, scheduler_init (idle_pcb has pid 1 and the
\* first free page; the boot context has become its context), then "sti".
Init ==
    /\ state = [x \in Slots |-> IF x = idle_pcb THEN "RUNNING" ELSE "DEAD"]
    /\ pid = [x \in Slots |-> IF x = idle_pcb THEN 1 ELSE 0]
    /\ esp = [x \in Slots |-> IF x = idle_pcb THEN 1 ELSE NULL]
    /\ stack_base = [x \in Slots |-> IF x = idle_pcb THEN 1 ELSE NULL]
    /\ next = [x \in Slots |-> NULL]
    /\ run_queue = idle_pcb
    /\ current_pcb = idle_pcb
    /\ next_pid = 1
    /\ pmm_used = {BootStack, 1}
    /\ pmm_free_pages = NPages - 2
    /\ cpu = BootStack
    /\ eflags_if = TRUE
    /\ irq0 = FALSE
    /\ isr = [s \in Pages |-> FALSE]
    /\ pc = [s \in Pages |-> IF s = BootStack THEN "prompt" ELSE "idle_task"]
    /\ tid = [t \in Tcbs |-> 0]
    /\ wait_next = [x \in Slots |-> NULL]
    /\ next_tid = 0
    /\ lock = 0
    /\ waiters = NULL
    /\ sh = NoLocals

Tick == TimerIrq /\ UNCHANGED <<threadVars, sh>>
Return == IsrReturn /\ UNCHANGED <<threadVars, sh>>
ThreadRuns == \E s \in Pages : ThreadStep(s) /\ UNCHANGED sh

Next == Tick \/ Return \/ ThreadRuns \/ StartCommand \/ CommandStep

Spec == Init /\ [][Next]_kernelVars

(***************************************************************************)
(* Fairness.  The PIT interrupts whenever it is allowed to; the CPU goes   *)
(* on executing the context it is in.  A tick may come between any two     *)
(* instructions of the shell, but ticks are 10 ms apart, so that a command *)
(* keeps advancing between them (hence strong fairness).  Nobody has to    *)
(* type a command.                                                         *)
(***************************************************************************)
Fairness ==
    /\ WF_kernelVars(Tick)
    /\ WF_kernelVars(Return)
    /\ WF_kernelVars(ThreadRuns)
    /\ SF_kernelVars(CommandStep)

FairSpec == Spec /\ Fairness
-----------------------------------------------------------------------------
ShellPlaces ==
    {"prompt", "alloc_slot", "alloc_page", "store_word", "fill", "find_tail",
     "link", "set_blocked", "find_pid", "find_tid", "mark_dead", "dequeue",
     "find_prev", "load_next", "unlink", "free_stack", "list", "list_next"}

ThreadPlaces ==
    {"idle_task", "counter_process", "client", "spin", "test_and_set", "block",
     "push", "reschedule", "wake", "rest", "exited"} \cup Critical

Pointers == Slots \cup {NULL}

Locals == [op : Ops, target : Nat, slot : Pointers, page : Pages,
           word : SUBSET Pages, cur : Pointers, succ : Pointers]

\* Pointers lead to slots of the pools, stacks to pages that are tracked, and
\* the code is at a known place (every index that schedule, enqueue, dequeue
\* and the page allocator use is in range); the lock is 0 or 1.
TypeOK ==
    /\ state \in [Slots -> States]
    /\ pid \in [Slots -> Nat]
    /\ esp \in [Slots -> Pages]
    /\ stack_base \in [Slots -> Pages]
    /\ next \in [Slots -> Pointers]
    /\ run_queue \in Pointers
    /\ current_pcb \in Slots
    /\ next_pid \in Nat
    /\ pmm_used \subseteq Pages
    /\ pmm_free_pages \in Int
    /\ cpu \in Pages
    /\ eflags_if \in BOOLEAN
    /\ irq0 \in BOOLEAN
    /\ isr \in [Pages -> BOOLEAN]
    /\ pc \in [Pages -> ShellPlaces \cup ThreadPlaces]
    /\ tid \in [Tcbs -> Nat]
    /\ wait_next \in [Slots -> Pointers]
    /\ next_tid \in Nat
    /\ lock \in {0, 1}
    /\ waiters \in Pointers
    /\ sh \in Locals

(***************************************************************************)
(* What a user may delete without harm where there are threads: processes  *)
(* by the numbers they have (0 is the number of each thread), and not the  *)
(* idle process, which a thread that gives the CPU up brings back to life. *)
(* Without threads, anything.                                              *)
(***************************************************************************)
CarefulKills ==
    "thread" \in ShellOps => "killthread" \notin ShellOps /\ KillTargets \cap {0, 1} = {}

\* No thread leaves the queue by itself; no command takes a slot out of it.
NoExits == "thread" \in ShellOps => "exit" \notin ThreadOps
NoKills == "killprocess" \notin ShellOps

AtPrompt == pc[BootStack] = "prompt"
Live(x)  == state[x] # "DEAD"

(***************************************************************************)
(* Interrupts.  schedule() leaves the timer handler before EOI and iret,   *)
(* and a new context starts with "ret": only the boot context ever runs    *)
(* with interrupts enabled, and while any other context runs the PIC still *)
(* holds IRQ0 in service, with its frame on the boot stack.                *)
(***************************************************************************)
InterruptShield ==
    /\ eflags_if = ~irq0
    /\ irq0 = isr[BootStack]
    /\ \A s \in Pages \ {BootStack} : ~isr[s]
    /\ cpu # BootStack => irq0

(***************************************************************************)
(* The CPU runs the context of current_pcb, and no context has two PCBs:   *)
(* each live slot other than the current one has saved its own stack, the  *)
(* slot of the boot context keeps the boot stack.                          *)
(***************************************************************************)
Exiting == Executes(cpu) /\ pc[cpu] = "exited"

ContextsKept ==
    /\ cpu = BootStack <=> current_pcb = idle_pcb
    /\ ~Exiting =>
          /\ cpu # BootStack => cpu = stack_base[current_pcb] /\ esp[idle_pcb] = BootStack
          /\ \A x \in Slots \ {idle_pcb, current_pcb} : Live(x) => esp[x] = stack_base[x]

(***************************************************************************)
(* Stacks.  The stack of a live slot is an allocated page that no other    *)
(* slot has and that is not part of the kernel image.                      *)
(***************************************************************************)
StacksOwned ==
    \A x \in Slots : Live(x) =>
        /\ stack_base[x] \in pmm_used \ {BootStack}
        /\ \A y \in Slots \ {x} : stack_base[y] # stack_base[x]

(***************************************************************************)
(* Memory.  The bits set are the kernel's page, the stacks, and the page   *)
(* that a command is about to put into a slot; the free count is exact.    *)
(***************************************************************************)
PagesAccounted ==
    /\ pmm_used = {stack_base[x] : x \in Slots} \cup {BootStack}
                    \cup (IF pc[BootStack] = "fill" THEN {sh.page} ELSE {})
    /\ pmm_free_pages = Cardinality(Pages \ pmm_used)

(***************************************************************************)
(* The run queue.  When no command runs, it is a list with an end that     *)
(* holds exactly the slots in use.                                         *)
(***************************************************************************)
QueueExact ==
    AtPrompt => QueueEnds /\ Queued = {x \in Slots : Live(x)}

\* What is left of the run queue from the shell's cursor on.
CursorWalk ==
    LET node[n \in 0 .. (NPcb + NTcb)] ==
            IF n = 0 THEN sh.cur
            ELSE IF node[n - 1] = NULL THEN NULL ELSE next[node[n - 1]]
    IN  node

(***************************************************************************)
(* Nothing but the NULL at its end stops a walk of the run queue, and each *)
(* command walks it while threads exit and take slots out of it.  Still    *)
(* each walk, wherever it is, has an end: no slot is met twice.  (Not so   *)
(* if a thread exits while killprocess or killthread has the "next" of the *)
(* slot it unlinks in a register: a slot may then follow itself.)          *)
(***************************************************************************)
WalksEnd == QueueEnds /\ CursorWalk[NPcb + NTcb] = NULL

\* At most one slot is RUNNING, and it is the current one.  (A killed or
\* BLOCKED idle_pcb may run on without the mark.)
RunningIsCurrent ==
    ~Exiting =>
        /\ \A x \in Slots : state[x] = "RUNNING" => x = current_pcb
        /\ Ready(current_pcb) => current_pcb = idle_pcb

-----------------------------------------------------------------------------
(***************************************************************************)
(* The mutex.                                                              *)
(***************************************************************************)
\* Two contexts are never between mutex_lock and mutex_unlock.
MutualExclusion ==
    \A s, t \in Pages : pc[s] \in Critical /\ pc[t] \in Critical => s = t

\* The wait list, followed from its head.
WaitWalk ==
    LET node[n \in 0 .. NTcb] ==
            IF n = 0 THEN waiters
            ELSE IF node[n - 1] = NULL THEN NULL ELSE wait_next[node[n - 1]]
    IN  node

Waiting == {WaitWalk[n] : n \in DOMAIN WaitWalk} \ {NULL}

Blocked == {t \in Tcbs : state[t] = "BLOCKED"}

\* mutex.h: the waiters are a "linked list of blocked threads": exactly the
\* BLOCKED ones, in a list that ends.
WaitListExact ==
    /\ WaitWalk[NTcb] = NULL
    /\ Waiting = Blocked \ (IF pc[cpu] = "push" THEN {current_pcb} ELSE {})

\* Nobody sleeps on a mutex that nobody will release: while a thread is
\* BLOCKED, some live thread holds the lock, is about to wake a waiter, or is
\* about to try the lock again.
NoLostWakeup ==
    Blocked # {} =>
        \E t \in Tcbs \ Blocked :
            /\ Live(t)
            /\ pc[stack_base[t]] \in Critical \cup {"wake", "test_and_set"}
-----------------------------------------------------------------------------
\* A READY slot on the run queue gets the CPU, if the threads use the mutex
\* and give the CPU up now and then: round robin, no slot is passed over.
ReadyRuns == \A x \in Slots : state[x] = "READY" ~> state[x] = "RUNNING"

\* A thread at the head of the wait list does not stay there for ever: it is
\* woken, or another one goes in front of it.  (The list is last in, first
\* out: nothing of the kind holds for the others.)
HeadWaiterMoves == \A t \in Tcbs : waiters = t ~> waiters # t

\* Every command that is given comes back to the prompt.
CommandsFinish == ~AtPrompt ~> AtPrompt
-----------------------------------------------------------------------------
\* What comments and documents say, and the code does not do.

\* src/shell.c: "This function body never actually runs since the process
\* stays BLOCKED".
CounterNeverRuns == pc[cpu] # "counter_process"

\* README.md: "Create a new kernel thread - visible in `ls`": ls walks the
\* run queue.
ThreadsVisible ==
    AtPrompt => \A t \in Tcbs : state[t] = "READY" => t \in Queued

\* README.md: "Every 10ms the CPU is interrupted, the current process is
\* paused, and the next one in the queue runs": no thread keeps the CPU,
\* whatever it computes, since the idle process is always READY behind it.
Preempted == \A s \in Pages \ {BootStack} : cpu = s ~> cpu # s
=============================================================================
