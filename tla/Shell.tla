------------------------------- MODULE Shell -------------------------------
(***************************************************************************)
(* The shell commands that change kernel state, on the boot stack, where   *)
(* interrupts are enabled: a tick may come between any two steps below.    *)
(*   newprocess   cmd_newprocess, create_process (src/shell.c, scheduler.c)*)
(*   killprocess  cmd_killprocess, for each argument in KillTargets        *)
(*   thread       create_thread                  (src/thread.c)            *)
(*   killthread   thread_delete                                            *)
(*   ps, threads, ls   cmd_ps, cmd_threads, cmd_ls, which print a row for  *)
(*                each slot they meet on the run queue                     *)
(* The README lists thread and killthread; command_table has no entry for  *)
(* them.  A step is a stretch of code that reads or writes shared state    *)
(* once, as the build orders those accesses.                               *)
(***************************************************************************)
EXTENDS Threads

CONSTANTS
    ShellOps,      \* the commands that are given
    KillTargets,   \* the numbers that follow killprocess and killthread
    MaxPid, MaxTid \* bounds on next_pid and next_tid

ASSUME ShellAssumption ==
    /\ ShellOps \subseteq {"newprocess", "killprocess", "thread", "killthread",
                           "ps", "threads", "ls"}
    /\ KillTargets \subseteq Nat
    /\ MaxPid \in Nat /\ MaxTid \in Nat

VARIABLE sh    \* the local variables of the command that runs

Listings == {"ps", "threads", "ls"}

Ops == {"none", "newprocess", "killprocess", "thread", "killthread"} \cup Listings

\* slot, page: what is being created or deleted; word: the bitmap word in a
\* register; cur: the list cursor; succ: the "next" in a register.
NoLocals == [op |-> "none", target |-> 0, slot |-> NULL, page |-> 0,
             word |-> {}, cur |-> NULL, succ |-> NULL]

ShellGoto(from, to) == Goto(BootStack, from, to)

\* A step of the shell touches neither the CPU nor current_pcb.
hostVars == <<current_pcb, cpu, trapVars, lock, waiters>>
heapVars == <<pcbVars, queueVars, next_pid, pmmVars, tid, next_tid, wait_next>>
-----------------------------------------------------------------------------
\* shell_dispatch: create_process and create_thread start alike.
StartCreate(op) ==
    /\ op \in ShellOps
    /\ IF op = "newprocess" THEN next_pid < MaxPid ELSE next_tid < MaxTid
    /\ ShellGoto("prompt", "alloc_slot")
    /\ sh' = [NoLocals EXCEPT !.op = op]
    /\ UNCHANGED <<hostVars, heapVars>>

\* alloc_pcb prefers a slot whose pid is 0; alloc_tcb takes the first.
FreeSlots(op) ==
    LET dead == {x \in IF op = "newprocess" THEN Pcbs ELSE Tcbs : state[x] = "DEAD"}
        new  == {x \in dead : pid[x] = 0}
    IN  IF op = "newprocess" /\ new # {} THEN new ELSE dead

alloc_slot ==
    LET free == FreeSlots(sh.op)
    IN  /\ \/ /\ free # {}
              /\ ShellGoto("alloc_slot", "alloc_page")
              /\ sh' = [sh EXCEPT !.slot = CHOOSE x \in free : \A y \in free : x <= y]
           \/ /\ free = {}
              /\ ShellGoto("alloc_slot", "prompt")
              /\ sh' = NoLocals
        /\ UNCHANGED <<hostVars, heapVars>>

\* pmm_alloc_page: the scan, which leaves the bitmap word in a register.
pmm_alloc_scan ==
    /\ \/ LET page == FirstFree(pmm_used, NPages)
          IN  /\ Allocatable(pmm_used, NPages) # {}
              /\ ShellGoto("alloc_page", "store_word")
              /\ sh' = [sh EXCEPT !.page = page, !.word = pmm_used \cap WordOf(page)]
       \/ /\ Allocatable(pmm_used, NPages) = {}
          /\ ShellGoto("alloc_page", "prompt")
          /\ sh' = NoLocals
    /\ UNCHANGED <<hostVars, heapVars>>

\* Mutant: the page is not marked.
pmm_alloc_store_unmarked ==
    /\ ShellGoto("store_word", "fill")
    /\ pmm_used' = (pmm_used \ WordOf(sh.page)) \cup sh.word
    /\ pmm_free_pages' = pmm_free_pages - 1
    /\ UNCHANGED <<hostVars, pcbVars, queueVars, next_pid, tid, next_tid, wait_next, sh>>

\* pmm_alloc_page: the word is written back with the page's bit set.
pmm_alloc_store ==
    /\ ShellGoto("store_word", "fill")
    /\ pmm_used' = StoreWord(pmm_used, sh.page, sh.word)
    /\ pmm_free_pages' = pmm_free_pages - 1
    /\ UNCHANGED <<hostVars, pcbVars, queueVars, next_pid, tid, next_tid, wait_next, sh>>

\* create_process, create_thread: "if (!stack) return NULL".  Once something
\* has freed page 0, the page that was taken may be the one at address NULL.
NullStack ==
    /\ sh.page = BootStack
    /\ ShellGoto("fill", "prompt")
    /\ sh' = NoLocals
    /\ UNCHANGED <<hostVars, heapVars>>

\* create_process, create_thread: the new stack starts at the entry function,
\* the slot is filled in, and enqueue() begins.
FillSlot ==
    LET slot   == sh.slot
        thread == sh.op = "thread"
        after  == IF sh.op = "newprocess" THEN "set_blocked" ELSE "prompt"
    IN  /\ Executes(BootStack) /\ pc[BootStack] = "fill"
        /\ sh.page # BootStack
        /\ pc' = [pc EXCEPT ![sh.page] = IF thread THEN "client" ELSE "counter_process",
                            ![BootStack] = IF run_queue = NULL THEN after ELSE "find_tail"]
        /\ state' = [state EXCEPT ![slot] = "READY"]
        /\ esp' = [esp EXCEPT ![slot] = sh.page]
        /\ stack_base' = [stack_base EXCEPT ![slot] = sh.page]
        /\ pid' = [pid EXCEPT ![slot] = IF thread THEN 0 ELSE next_pid + 1]
        /\ next_pid' = IF thread THEN next_pid ELSE next_pid + 1
        /\ tid' = IF thread THEN [tid EXCEPT ![slot] = next_tid + 1] ELSE tid
        /\ next_tid' = IF thread THEN next_tid + 1 ELSE next_tid
        /\ wait_next' = IF thread THEN [wait_next EXCEPT ![slot] = NULL] ELSE wait_next
        /\ next' = [next EXCEPT ![slot] = NULL]
        /\ run_queue' = IF run_queue = NULL THEN slot ELSE run_queue
        /\ sh' = IF run_queue = NULL /\ thread THEN NoLocals
                 ELSE [sh EXCEPT !.cur = run_queue]
        /\ UNCHANGED <<hostVars, pmmVars>>

\* enqueue: one step of the walk to the tail.
enqueue_walk ==
    /\ ShellGoto("find_tail", IF next[sh.cur] = NULL THEN "link" ELSE "find_tail")
    /\ sh' = [sh EXCEPT !.cur = IF next[sh.cur] = NULL THEN sh.cur ELSE next[sh.cur]]
    /\ UNCHANGED <<hostVars, heapVars>>

\* Mutant: the run queue really is circular, as a comment calls it.
enqueue_link_circular ==
    LET again == sh.op = "newprocess"
    IN  /\ ShellGoto("link", IF again THEN "set_blocked" ELSE "prompt")
        /\ next' = [next EXCEPT ![sh.cur] = sh.slot, ![sh.slot] = run_queue]
        /\ sh' = IF again THEN sh ELSE NoLocals
        /\ UNCHANGED <<hostVars, pcbVars, run_queue, next_pid, pmmVars, tid, next_tid, wait_next>>

\* enqueue: tail->next = pcb.
enqueue_link ==
    LET again == sh.op = "newprocess"
    IN  /\ ShellGoto("link", IF again THEN "set_blocked" ELSE "prompt")
        /\ next' = [next EXCEPT ![sh.cur] = sh.slot]
        /\ sh' = IF again THEN sh ELSE NoLocals
        /\ UNCHANGED <<hostVars, pcbVars, run_queue, next_pid, pmmVars, tid, next_tid, wait_next>>

\* cmd_newprocess: "Mark BLOCKED immediately so scheduler never switches".
set_blocked ==
    /\ ShellGoto("set_blocked", "prompt")
    /\ state' = [state EXCEPT ![sh.slot] = "BLOCKED"]
    /\ sh' = NoLocals
    /\ UNCHANGED <<hostVars, pid, esp, stack_base, queueVars, next_pid, pmmVars,
                   tid, next_tid, wait_next>>
-----------------------------------------------------------------------------
\* cmd_killprocess: the walk of the run queue for the pid begins.
StartKillProcess(target) ==
    /\ "killprocess" \in ShellOps
    /\ ShellGoto("prompt", "find_pid")
    /\ sh' = [NoLocals EXCEPT !.op = "killprocess", !.target = target, !.cur = run_queue]
    /\ UNCHANGED <<hostVars, heapVars>>

\* cmd_killprocess: one node of the queue, and the test of its pid.
find_pid ==
    LET p == sh.cur
    IN  /\ \/ /\ p = NULL
              /\ ShellGoto("find_pid", "prompt")
              /\ sh' = NoLocals
           \/ /\ p # NULL /\ pid[p] = sh.target
              /\ ShellGoto("find_pid", "mark_dead")
              /\ sh' = [sh EXCEPT !.slot = p, !.cur = NULL]
           \/ /\ p # NULL /\ pid[p] # sh.target
              /\ ShellGoto("find_pid", "find_pid")
              /\ sh' = [sh EXCEPT !.cur = next[p]]
        /\ UNCHANGED <<hostVars, heapVars>>

\* The entry of tcb_pool behind x, if there is one.
TcbAfter(x) == IF x < NPcb + NTcb THEN x + 1 ELSE NULL

\* thread_delete: the loop over tcb_pool begins.
StartKillThread(target) ==
    /\ "killthread" \in ShellOps
    /\ ShellGoto("prompt", "find_tid")
    /\ sh' = [NoLocals EXCEPT !.op = "killthread", !.target = target,
                              !.slot = TcbAfter(NPcb)]
    /\ UNCHANGED <<hostVars, heapVars>>

\* thread_delete: one entry, and the test of its tid and its state.
find_tid ==
    LET t     == sh.slot
        found == tid[t] = sh.target /\ state[t] # "DEAD"
    IN  /\ \/ /\ ShellGoto("find_tid", "prompt")
              /\ t = NULL
              /\ sh' = NoLocals
           \/ /\ ShellGoto("find_tid", "mark_dead")
              /\ t # NULL /\ found
              /\ UNCHANGED sh
           \/ /\ ShellGoto("find_tid", "find_tid")
              /\ t # NULL /\ ~found
              /\ sh' = [sh EXCEPT !.slot = TcbAfter(t)]
        /\ UNCHANGED <<hostVars, heapVars>>

\* cmd_killprocess, thread_delete: the slot becomes DEAD, whatever it has
\* become since it was found.
mark_dead ==
    /\ ShellGoto("mark_dead", "dequeue")
    /\ state' = [state EXCEPT ![sh.slot] = "DEAD"]
    /\ UNCHANGED <<hostVars, pid, esp, stack_base, queueVars, next_pid, pmmVars,
                   tid, next_tid, wait_next, sh>>

\* Mutant: dequeue does not treat the head of the queue specially.
dequeue_start_headless ==
    /\ ShellGoto("dequeue", "find_prev")
    /\ sh' = [sh EXCEPT !.cur = run_queue]
    /\ UNCHANGED <<hostVars, heapVars>>

\* dequeue: the head is unlinked at once (cur = NULL), else prev is searched.
dequeue_start ==
    /\ \/ /\ run_queue = sh.slot
          /\ ShellGoto("dequeue", "unlink")
          /\ sh' = [sh EXCEPT !.cur = NULL, !.succ = next[sh.slot]]
       \/ /\ run_queue # sh.slot
          /\ ShellGoto("dequeue", "find_prev")
          /\ sh' = [sh EXCEPT !.cur = run_queue]
    /\ UNCHANGED <<hostVars, heapVars>>

\* dequeue: one step of the search; without a predecessor nothing happens.
dequeue_find_prev ==
    LET prev == sh.cur
    IN  /\ \/ /\ prev = NULL
              /\ ShellGoto("find_prev", "free_stack")
              /\ UNCHANGED sh
           \/ /\ prev # NULL /\ next[prev] = sh.slot
              /\ ShellGoto("find_prev", "load_next")
              /\ UNCHANGED sh
           \/ /\ prev # NULL /\ next[prev] # sh.slot
              /\ ShellGoto("find_prev", "find_prev")
              /\ sh' = [sh EXCEPT !.cur = next[prev]]
        /\ UNCHANGED <<hostVars, heapVars>>

dequeue_load_next ==
    /\ ShellGoto("load_next", "unlink")
    /\ sh' = [sh EXCEPT !.succ = next[sh.slot]]
    /\ UNCHANGED <<hostVars, heapVars>>

\* dequeue: the store through run_queue or prev, and pcb->next = NULL.
dequeue_unlink ==
    /\ ShellGoto("unlink", "free_stack")
    /\ run_queue' = IF sh.cur = NULL THEN sh.succ ELSE run_queue
    /\ next' = [x \in Slots |-> IF x = sh.slot THEN NULL
                                ELSE IF x = sh.cur THEN sh.succ ELSE next[x]]
    /\ UNCHANGED <<hostVars, pcbVars, next_pid, pmmVars, tid, next_tid, wait_next, sh>>

\* Mutant: the slot forgets its stack before the page is freed.
FreeStackForgotten ==
    /\ ShellGoto("free_stack", "prompt")
    /\ pmm_free_page(BootStack)
    /\ stack_base' = [stack_base EXCEPT ![sh.slot] = NULL]
    /\ pid' = IF sh.op = "killprocess" THEN [pid EXCEPT ![sh.slot] = 0] ELSE pid
    /\ tid' = IF sh.op = "killthread" THEN [tid EXCEPT ![sh.slot] = 0] ELSE tid
    /\ sh' = NoLocals
    /\ UNCHANGED <<hostVars, state, esp, queueVars, next_pid, next_tid, wait_next>>

\* The end of cmd_killprocess and thread_delete.
FreeStack ==
    /\ ShellGoto("free_stack", "prompt")
    /\ pmm_free_page(stack_base[sh.slot])
    /\ stack_base' = [stack_base EXCEPT ![sh.slot] = NULL]
    /\ pid' = IF sh.op = "killprocess" THEN [pid EXCEPT ![sh.slot] = 0] ELSE pid
    /\ tid' = IF sh.op = "killthread" THEN [tid EXCEPT ![sh.slot] = 0] ELSE tid
    /\ sh' = NoLocals
    /\ UNCHANGED <<hostVars, state, esp, queueVars, next_pid, next_tid, wait_next>>
-----------------------------------------------------------------------------
\* cmd_ps, cmd_threads, cmd_ls: the walk of the run queue begins.
StartList(op) ==
    /\ op \in ShellOps
    /\ ShellGoto("prompt", "list")
    /\ sh' = [NoLocals EXCEPT !.op = op, !.cur = run_queue]
    /\ UNCHANGED <<hostVars, heapVars>>

\* One slot: its row is printed, if it is of the kind that is listed.  At the
\* end of the queue ls goes over it again, for the threads.
list_row ==
    /\ \/ /\ sh.cur # NULL
          /\ ShellGoto("list", "list_next")
          /\ UNCHANGED sh
       \/ /\ sh.cur = NULL /\ sh.op = "ls"
          /\ ShellGoto("list", "list")
          /\ sh' = [sh EXCEPT !.op = "threads", !.cur = run_queue]
       \/ /\ sh.cur = NULL /\ sh.op # "ls"
          /\ ShellGoto("list", "prompt")
          /\ sh' = NoLocals
    /\ UNCHANGED <<hostVars, heapVars>>

\* p = p->next, after all the printing: the slot may have left the queue.
list_next ==
    /\ ShellGoto("list_next", "list")
    /\ sh' = [sh EXCEPT !.cur = next[sh.cur]]
    /\ UNCHANGED <<hostVars, heapVars>>
-----------------------------------------------------------------------------
\* A command is given at the prompt ...
StartCommand ==
    \/ \E op \in Listings : StartList(op)
    \/ \E op \in {"newprocess", "thread"} : StartCreate(op)
    \/ \E target \in KillTargets : StartKillProcess(target) \/ StartKillThread(target)

\* ... and runs step by step.
CommandStep ==
    \/ alloc_slot \/ pmm_alloc_scan \/ pmm_alloc_store \/ NullStack \/ FillSlot
    \/ enqueue_walk \/ enqueue_link \/ set_blocked
    \/ find_pid \/ find_tid \/ mark_dead
    \/ dequeue_start \/ dequeue_find_prev \/ dequeue_load_next \/ dequeue_unlink
    \/ FreeStack
    \/ list_row \/ list_next
=============================================================================
