----------------------------- MODULE Scheduler -----------------------------
(***************************************************************************)
(* The scheduler core of src/scheduler.c, the context switch, and the      *)
(* timer interrupt that drives them (src/pit.c, src/idt.c, src/isr.asm).   *)
(*                                                                         *)
(* A slot is an entry of pcb_pool or tcb_pool; pointers are slots or NULL. *)
(* A stack is the page it lives in.  kernel_main, hence the shell, runs on *)
(* the boot stack, inside page 0 .. kernel_end, which page 0 stands for.   *)
(* An execution context is a stack with the place its code has reached.    *)
(***************************************************************************)
EXTENDS PageBitmap, Integers, FiniteSets

CONSTANTS
    NPcb,      \* MAX_PROCESSES
    NTcb,      \* MAX_THREADS
    NPages     \* pmm_total_pages

ASSUME SchedulerAssumption ==
    /\ NPcb \in Nat \ {0}
    /\ NTcb \in Nat
    /\ NPages \in Nat /\ NPages >= 2

NULL  == 0
Pcbs  == 1 .. NPcb
Tcbs  == (NPcb + 1) .. (NPcb + NTcb)
Slots == 1 .. (NPcb + NTcb)
idle_pcb == 1    \* the slot that scheduler_init takes first

Pages     == 0 .. (NPages - 1)
BootStack == 0   \* also the page that a NULL stack_base denotes

States == {"READY", "RUNNING", "BLOCKED", "DEAD"}

VARIABLES
    state, pid, esp, stack_base, next,   \* the fields of each pcb_t
    run_queue, current_pcb, next_pid,
    pmm_used, pmm_free_pages,            \* the page allocator (PMM.tla)
    cpu,     \* the stack that ESP points into
    eflags_if, \* EFLAGS.IF: maskable interrupts are accepted
    irq0,    \* the PIC has IRQ0 in service: no EOI for it yet
    isr,     \* isr[s]: an interrupt frame is on top of stack s
    pc       \* pc[s]: the place the code on stack s has reached

queueVars == <<next, run_queue>>
pcbVars   == <<state, pid, esp, stack_base>>
pmmVars   == <<pmm_used, pmm_free_pages>>
trapVars  == <<eflags_if, irq0, isr>>
schedVars == <<pcbVars, queueVars, current_pcb, next_pid, pmmVars, cpu, trapVars, pc>>
-----------------------------------------------------------------------------
\* pmm_free_page as its callers use it: stack_base is a page address, and
\* NULL is the address of page 0.
pmm_free_page(page) ==
    IF bitmap_test(pmm_used, page)
    THEN /\ pmm_used' = bitmap_clear(pmm_used, page)
         /\ pmm_free_pages' = pmm_free_pages + 1
    ELSE UNCHANGED pmmVars

\* The n-th node met when walking the run queue from its head.
QueueWalk ==
    LET node[n \in 0 .. (NPcb + NTcb)] ==
            IF n = 0 THEN run_queue
            ELSE IF node[n - 1] = NULL THEN NULL ELSE next[node[n - 1]]
    IN  node

Queued == {QueueWalk[n] : n \in DOMAIN QueueWalk} \ {NULL}

\* A walk of the run queue comes to its end.
QueueEnds == QueueWalk[NPcb + NTcb] = NULL

\* dequeue, where it runs to its end without being interrupted.
dequeue(slot) ==
    LET prevs == {x \in Queued : next[x] = slot}
    IN  \/ /\ run_queue = slot
           /\ run_queue' = next[slot]
           /\ next' = [next EXCEPT ![slot] = NULL]
        \/ /\ run_queue # slot
           /\ run_queue' = run_queue
           /\ next' = [x \in Slots |-> IF x \in prevs THEN next[slot]
                                       ELSE IF x = slot /\ prevs # {} THEN NULL
                                       ELSE next[x]]
-----------------------------------------------------------------------------
\* schedule() looks for a READY slot behind the current one, wraps around
\* at the end of the queue and stops when it is back where it started.
OrHead(x) == IF x = NULL THEN run_queue ELSE x

ScanWalk ==
    LET node[n \in 0 .. (NPcb + NTcb)] ==
            IF n = 0 THEN OrHead(next[current_pcb])
            ELSE IF node[n - 1] = NULL THEN NULL ELSE OrHead(next[node[n - 1]])
    IN  node

Ready(x) == x # NULL /\ state[x] = "READY"

\* The loop leaves the queue walk at its n-th node, which is READY.
StopsAt(walk, n) ==
    /\ Ready(walk[n])
    /\ \A m \in 0 .. (n - 1) : ~Ready(walk[m])
    /\ \A m \in 1 .. n : walk[m] # walk[0]

\* The loop of schedule() ends: it meets a READY slot, or its start again.
ScanEnds ==
    LET walk == ScanWalk
    IN  \/ walk[0] = NULL
        \/ \E n \in DOMAIN walk : Ready(walk[n]) \/ (n > 0 /\ walk[n] = walk[0])

\* Mutant: the search starts at the head of the queue, not behind current.
ScheduledNextFromHead ==
    LET walk == QueueWalk
        found == {x \in Slots : \E n \in DOMAIN walk :
                     /\ walk[n] = x /\ Ready(x)
                     /\ \A m \in 0 .. (n - 1) : ~Ready(walk[m])}
    IN  IF found # {} THEN CHOOSE x \in found : TRUE ELSE idle_pcb

\* The slot that schedule() runs next: idle_pcb if nothing is READY.
ScheduledNext ==
    LET walk == ScanWalk
        found == {x \in Slots : \E n \in DOMAIN walk : walk[n] = x /\ StopsAt(walk, n)}
    IN  IF found # {} THEN CHOOSE x \in found : TRUE ELSE idle_pcb

\* context_switch.asm saves and loads nothing but ESP; what else a context
\* needs is in the frames on its stack: schedule(), a C function, keeps the
\* registers of its caller there.  The stack is known by its page: if two
\* slots have saved an ESP into one page (a dead slot that is woken after its
\* page was given away), they are one context here, that of the page's last
\* owner.
context_switch(old, new) ==
    /\ esp' = [esp EXCEPT ![old] = cpu]
    /\ cpu' = esp[new]

\* Mutant: the interrupted process stays RUNNING.
schedule_keeps_running ==
    LET new == ScheduledNext
    IN  /\ ScanEnds
        /\ \/ /\ new = current_pcb
              /\ UNCHANGED <<state, esp, cpu, current_pcb>>
           \/ /\ new # current_pcb
              /\ state' = [state EXCEPT ![new] = "RUNNING"]
              /\ current_pcb' = new
              /\ context_switch(current_pcb, new)

\* If the current slot is the only READY one, or if nothing is READY and
\* idle_pcb is current, schedule() returns to its caller.
schedule ==
    LET new == ScheduledNext
        old == IF state[current_pcb] = "RUNNING" THEN "READY" ELSE state[current_pcb]
    IN  /\ ScanEnds
        /\ \/ /\ new = current_pcb
              /\ UNCHANGED <<state, esp, cpu, current_pcb>>
           \/ /\ new # current_pcb
              /\ state' = [state EXCEPT ![current_pcb] = old, ![new] = "RUNNING"]
              /\ current_pcb' = new
              /\ context_switch(current_pcb, new)
-----------------------------------------------------------------------------
\* The context on stack s executes: no interrupt frame lies on top of it.
Executes(s) == cpu = s /\ ~isr[s]

\* Mutant: IRQ0 is acknowledged before the handler runs.
TimerIrqEarlyEoi ==
    /\ eflags_if /\ ~irq0
    /\ eflags_if' = FALSE
    /\ irq0' = FALSE
    /\ isr' = [isr EXCEPT ![cpu] = TRUE]
    /\ schedule
    /\ UNCHANGED <<pid, stack_base, queueVars, next_pid, pmmVars, pc>>

\* A tick: the interrupt gate clears IF, isr.asm saves the registers on the
\* stack that was interrupted, and timer_handler calls schedule(), which may
\* leave the handler unfinished on that stack.
TimerIrq ==
    /\ eflags_if /\ ~irq0
    /\ eflags_if' = FALSE
    /\ irq0' = TRUE
    /\ isr' = [isr EXCEPT ![cpu] = TRUE]
    /\ schedule
    /\ UNCHANGED <<pid, stack_base, queueVars, next_pid, pmmVars, pc>>

\* timer_handler returns on the stack it started on: pic_send_eoi, then iret
\* restores the EFLAGS of the interrupted code, which had IF set.
IsrReturn ==
    /\ isr[cpu]
    /\ isr' = [isr EXCEPT ![cpu] = FALSE]
    /\ irq0' = FALSE
    /\ eflags_if' = TRUE
    /\ UNCHANGED <<pcbVars, queueVars, current_pcb, next_pid, pmmVars, cpu, pc>>
=============================================================================
