---------------------------- MODULE Kernel_proof ----------------------------
(***************************************************************************)
(* Theorems about Kernel, for any number of processes, threads and pages,  *)
(* any word width and any choice of commands and thread bodies.            *)
(***************************************************************************)
EXTENDS Kernel, PageBitmap_proof

USE DEF kernelVars, schedVars, threadVars, pcbVars, queueVars, pmmVars, trapVars,
        mutexVars, frameVars, hostVars, heapVars

\* The constants give slots and pages the shape that the proofs use.
LEMMA ConstantFacts ==
    /\ NPcb \in Nat /\ NPcb > 0 /\ NTcb \in Nat
    /\ NPages \in Nat /\ NPages >= 2
    /\ idle_pcb \in Slots
    /\ Tcbs \subseteq Slots /\ Pcbs \subseteq Slots
    /\ BootStack \in Pages /\ 1 \in Pages /\ NULL \in Pages
    /\ NULL \notin Slots
  BY SchedulerAssumption DEF idle_pcb, Slots, Tcbs, Pcbs, BootStack, Pages, NULL

\* schedule() always chooses a slot.
LEMMA ScheduledNextType == ScheduledNext \in Slots
  BY ConstantFacts DEF ScheduledNext

\* What schedule() does to the state, whatever it chooses.
LEMMA ScheduleType ==
    ASSUME TypeOK, schedule
    PROVE  /\ state' \in [Slots -> States]
           /\ esp' \in [Slots -> Pages]
           /\ cpu' \in Pages
           /\ current_pcb' \in Slots
<1> DEFINE new == ScheduledNext
<1>1. new \in Slots
  BY ScheduledNextType
<1> HIDE DEF new
<1>2. CASE new = current_pcb /\ UNCHANGED <<state, esp, cpu, current_pcb>>
  BY <1>2 DEF TypeOK
<1>3. CASE /\ new # current_pcb
           /\ state' = [state EXCEPT ![current_pcb] =
                            IF state[current_pcb] = "RUNNING" THEN "READY"
                            ELSE state[current_pcb],
                        ![new] = "RUNNING"]
           /\ current_pcb' = new
           /\ context_switch(current_pcb, new)
  <2>1. state' \in [Slots -> States]
    BY <1>1, <1>3 DEF TypeOK, States
  <2> QED BY <1>1, <1>3, <2>1 DEF TypeOK, context_switch
<1> QED BY <1>2, <1>3 DEF schedule, new

\* pmm_free_page keeps the bitmap within the pages.
LEMMA FreePageType ==
    ASSUME TypeOK, NEW page \in Pages, pmm_free_page(page)
    PROVE  pmm_used' \in SUBSET Pages /\ pmm_free_pages' \in Int
  BY DEF TypeOK, pmm_free_page, bitmap_test, bitmap_clear

\* dequeue() keeps the links of the run queue within the slots.
LEMMA DequeueType ==
    ASSUME TypeOK, NEW slot \in Slots, dequeue(slot)
    PROVE  next' \in [Slots -> Pointers] /\ run_queue' \in Pointers
  BY DEF TypeOK, dequeue, Pointers

(***************************************************************************)
(* TypeOK is not inductive: a command follows its cursor without looking   *)
(* whether it is NULL.  It may do so because of where its code stands.     *)
(***************************************************************************)
ShellLocals ==
    /\ pc[BootStack] \in ShellPlaces
    /\ pc[BootStack] \in {"find_tail", "link", "list_next"} => sh.cur \in Slots
    /\ pc[BootStack] \in {"mark_dead", "dequeue", "find_prev", "load_next", "unlink", "free_stack"} =>
          sh.slot \in Slots
    /\ pc[BootStack] = "find_tid" => sh.slot \in Tcbs \cup {NULL}

TypeInv == TypeOK /\ ShellLocals

\* A step of a thread keeps the types.
LEMMA ThreadStepType ==
    ASSUME TypeOK, NEW s \in Pages, ThreadStep(s), UNCHANGED sh
    PROVE  TypeOK'
<1> USE ConstantFacts
<1>1. CASE StartLock(s)
  BY <1>1 DEF TypeOK, StartLock, Goto, ThreadPlaces, Critical, Pointers
<1>2. CASE StartSpin(s)
  BY <1>2 DEF TypeOK, StartSpin, Goto, ThreadPlaces, Critical, Pointers
<1>3. CASE YieldInside(s)
  <2>1. schedule
    BY <1>3 DEF YieldInside
  <2> QED BY <1>3, <2>1, ScheduleType DEF TypeOK, YieldInside, Goto, ThreadPlaces, Critical
<1>4. CASE YieldOutside(s)
  <2>1. schedule
    BY <1>4 DEF YieldOutside
  <2> QED BY <1>4, <2>1, ScheduleType DEF TypeOK, YieldOutside, Goto, ThreadPlaces, Critical
<1>5. CASE test_and_set(s)
  BY <1>5 DEF TypeOK, test_and_set, Goto, ThreadPlaces, Critical, Pointers
<1>6. CASE mutex_lock_block(s)
  BY <1>6 DEF TypeOK, mutex_lock_block, Goto, ThreadPlaces, Critical, Pointers, States
<1>7. CASE mutex_lock_push(s)
  BY <1>7 DEF TypeOK, mutex_lock_push, Goto, ThreadPlaces, Critical, Pointers
<1>8. CASE mutex_lock_reschedule(s)
  <2>1. schedule
    BY <1>8 DEF mutex_lock_reschedule
  <2> QED BY <1>8, <2>1, ScheduleType DEF TypeOK, mutex_lock_reschedule, Goto, ThreadPlaces, Critical
<1>9. CASE mutex_unlock(s)
  BY <1>9 DEF TypeOK, mutex_unlock, Goto, ThreadPlaces, Critical, Pointers
<1>10. CASE mutex_unlock_wake(s)
  BY <1>10 DEF TypeOK, mutex_unlock_wake, Goto, ThreadPlaces, Critical, Pointers, States
<1>11. CASE process_exit(s)
  <2>1. pmm_used' \in SUBSET Pages /\ pmm_free_pages' \in Int
    BY <1>11, FreePageType DEF TypeOK, process_exit
  <2>2. next' \in [Slots -> Pointers] /\ run_queue' \in Pointers
    BY <1>11, DequeueType DEF TypeOK, process_exit
  <2> QED BY <1>11, <2>1, <2>2 DEF TypeOK, process_exit, Goto, States, ThreadPlaces
<1>12. CASE process_exit_switch(s)
  BY <1>12 DEF TypeOK, process_exit_switch, ThreadPlaces, Critical, Pointers, States, context_switch
<1> QED BY <1>1, <1>2, <1>3, <1>4, <1>5, <1>6, <1>7, <1>8, <1>9, <1>10, <1>11, <1>12 DEF ThreadStep

\* Only the boot context is ever at a place of the shell's code, and threads
\* leave the locals of the shell alone.
LEMMA ThreadStepLocals ==
    ASSUME TypeInv, NEW s \in Pages, ThreadStep(s), UNCHANGED sh
    PROVE  ShellLocals'
<1>1. pc[s] \notin ShellPlaces
  BY DEF ThreadStep, StartLock, StartSpin, YieldInside, YieldOutside, test_and_set,
         mutex_lock_block, mutex_lock_push, mutex_lock_reschedule, mutex_unlock,
         mutex_unlock_wake, process_exit, process_exit_switch, Goto, Critical, ShellPlaces
<1>2. s # BootStack
  BY <1>1 DEF TypeInv, ShellLocals
<1>3. pc'[BootStack] = pc[BootStack]
  BY <1>2, ConstantFacts
     DEF TypeInv, TypeOK, ThreadStep, StartLock, StartSpin, YieldInside, YieldOutside,
         test_and_set, mutex_lock_block, mutex_lock_push, mutex_lock_reschedule,
         mutex_unlock, mutex_unlock_wake, process_exit, process_exit_switch, Goto
<1> QED BY <1>3 DEF TypeInv, ShellLocals

\* The slot that a command picks among those that fit is one of them.
LEMMA LowestSlot ==
    ASSUME NEW S \in SUBSET Slots, S # {}
    PROVE  (CHOOSE x \in S : \A y \in S : x <= y) \in S
<1>1. S \in SUBSET Nat
  BY DEF Slots
<1>2. \E x \in S : \A y \in S : x <= y
  BY <1>1, LeastNatural
<1> QED BY <1>2

\* At the prompt the shell's locals are well typed too.
LEMMA NoLocalsType == NoLocals \in Locals
  BY ConstantFacts DEF NoLocals, Locals, Ops, Listings, Pointers, NULL

\* thread_delete goes through the entries of tcb_pool.
LEMMA TcbAfterType ==
    ASSUME NEW x \in Tcbs \cup {NPcb}
    PROVE  TcbAfter(x) \in Tcbs \cup {NULL}
  BY SchedulerAssumption DEF TcbAfter, Tcbs

\* A step of a command keeps the types, and its locals fit its place.
LEMMA CommandStepType ==
    ASSUME TypeInv, CommandStep
    PROVE  TypeInv'
<1> USE ConstantFacts
<1>1. CASE alloc_slot
  <2>1. FreeSlots(sh.op) \in SUBSET Slots
    BY DEF FreeSlots
  <2>2. FreeSlots(sh.op) # {} =>
            (CHOOSE x \in FreeSlots(sh.op) : \A y \in FreeSlots(sh.op) : x <= y) \in Slots
    BY <2>1, LowestSlot
  <2>3. sh' \in Locals
    BY <1>1, <2>2, NoLocalsType DEF alloc_slot, TypeInv, TypeOK, Locals, Pointers
  <2> QED BY <1>1, <2>3 DEF alloc_slot, TypeInv, TypeOK, ShellLocals, ShellGoto, Goto, ShellPlaces
<1>2. CASE pmm_alloc_scan
  <2>1. Allocatable(pmm_used, NPages) # {} => FirstFree(pmm_used, NPages) \in Pages
    BY FirstFreeIsFree DEF Pages
  <2>2. sh' \in Locals
    <3>1. CASE sh' = NoLocals
      BY <3>1, NoLocalsType
    <3>2. CASE /\ Allocatable(pmm_used, NPages) # {}
               /\ sh' = [sh EXCEPT !.page = FirstFree(pmm_used, NPages),
                                   !.word = pmm_used \cap WordOf(FirstFree(pmm_used, NPages))]
      <4>1. pmm_used \cap WordOf(FirstFree(pmm_used, NPages)) \in SUBSET Pages
        BY DEF TypeInv, TypeOK
      <4> QED BY <2>1, <3>2, <4>1 DEF TypeInv, TypeOK, Locals
    <3> QED BY <1>2, <3>1, <3>2 DEF pmm_alloc_scan
  <2> QED BY <1>2, <2>2 DEF pmm_alloc_scan, TypeInv, TypeOK, ShellLocals, ShellGoto, Goto, ShellPlaces
<1>3. CASE pmm_alloc_store
  <2>1. pmm_used' \in SUBSET Pages
    BY <1>3 DEF pmm_alloc_store, StoreWord, TypeInv, TypeOK, Locals
  <2> QED BY <1>3, <2>1 DEF pmm_alloc_store, TypeInv, TypeOK, ShellLocals, ShellGoto, Goto, ShellPlaces
<1>4. CASE FillSlot
  <2>1. sh' \in Locals
    BY <1>4, NoLocalsType DEF FillSlot, TypeInv, TypeOK, Locals, Pointers
  <2>2. pc' \in [Pages -> ShellPlaces \cup ThreadPlaces] /\ pc'[BootStack] \in {"prompt", "set_blocked", "find_tail"}
    BY <1>4 DEF FillSlot, TypeInv, TypeOK, ShellPlaces, ThreadPlaces
  <2>3. pc'[BootStack] = "find_tail" => sh'.cur \in Slots
    BY <1>4 DEF FillSlot, TypeInv, TypeOK, Pointers
  <2>4. /\ state' \in [Slots -> States]
        /\ esp' \in [Slots -> Pages] /\ stack_base' \in [Slots -> Pages]
        /\ next' \in [Slots -> Pointers] /\ run_queue' \in Pointers
    BY <1>4 DEF FillSlot, TypeInv, TypeOK, Pointers, States, Locals
  <2>6. pid' \in [Slots -> Nat] /\ next_pid' \in Nat
    <3>1. next_pid + 1 \in Nat /\ pid \in [Slots -> Nat]
      BY DEF TypeInv, TypeOK
    <3>2. /\ pid' = [pid EXCEPT ![sh.slot] = IF sh.op = "thread" THEN 0 ELSE next_pid + 1]
          /\ next_pid' = IF sh.op = "thread" THEN next_pid ELSE next_pid + 1
      BY <1>4 DEF FillSlot
    <3> QED BY <3>1, <3>2 DEF TypeInv, TypeOK
  <2>7. tid' \in [Tcbs -> Nat] /\ next_tid' \in Nat
    <3>1. next_tid + 1 \in Nat /\ tid \in [Tcbs -> Nat]
      BY DEF TypeInv, TypeOK
    <3>2. /\ tid' = IF sh.op = "thread" THEN [tid EXCEPT ![sh.slot] = next_tid + 1] ELSE tid
          /\ next_tid' = IF sh.op = "thread" THEN next_tid + 1 ELSE next_tid
      BY <1>4 DEF FillSlot
    <3> QED BY <3>1, <3>2 DEF TypeInv, TypeOK
  <2>8. wait_next' \in [Slots -> Pointers]
    BY <1>4 DEF FillSlot, TypeInv, TypeOK, Pointers
  <2>5. ShellLocals'
    BY <2>2, <2>3 DEF ShellLocals, ShellPlaces
  <2> QED BY <1>4, <2>1, <2>2, <2>4, <2>5, <2>6, <2>7, <2>8 DEF FillSlot, TypeInv, TypeOK
<1>5. CASE enqueue_walk
  <2>1. sh' \in Locals
    BY <1>5, NoLocalsType DEF enqueue_walk, TypeInv, TypeOK, ShellLocals, ShellGoto, Goto, Locals, Pointers
  <2>2. ShellLocals'
    BY <1>5 DEF enqueue_walk, TypeInv, TypeOK, ShellLocals, ShellGoto, Goto, ShellPlaces, Pointers, Locals
  <2> QED BY <1>5, <2>1, <2>2 DEF enqueue_walk, TypeInv, TypeOK, ShellLocals, ShellGoto, Goto, ShellPlaces, Pointers, States
<1>6. CASE enqueue_link
  <2>1. sh' \in Locals
    BY <1>6, NoLocalsType DEF enqueue_link, TypeInv, TypeOK, ShellLocals, ShellGoto, Goto, Locals, Pointers
  <2>2. ShellLocals'
    BY <1>6 DEF enqueue_link, TypeInv, TypeOK, ShellLocals, ShellGoto, Goto, ShellPlaces, Pointers, Locals
  <2> QED BY <1>6, <2>1, <2>2 DEF enqueue_link, TypeInv, TypeOK, ShellLocals, ShellGoto, Goto, ShellPlaces, Pointers, Locals
<1>7. CASE set_blocked
  <2>1. sh' \in Locals
    BY <1>7, NoLocalsType DEF set_blocked, TypeInv, TypeOK, ShellLocals, ShellGoto, Goto, Locals, Pointers
  <2>2. ShellLocals'
    BY <1>7 DEF set_blocked, TypeInv, TypeOK, ShellLocals, ShellGoto, Goto, ShellPlaces, Pointers, Locals
  <2> QED BY <1>7, <2>1, <2>2 DEF set_blocked, TypeInv, TypeOK, ShellLocals, ShellGoto, Goto, ShellPlaces, Pointers, States
<1>8. CASE find_pid
  <2>1. sh' \in Locals
    BY <1>8, NoLocalsType DEF find_pid, TypeInv, TypeOK, ShellLocals, ShellGoto, Goto, Locals, Pointers
  <2>2. ShellLocals'
    BY <1>8 DEF find_pid, TypeInv, TypeOK, ShellLocals, ShellGoto, Goto, ShellPlaces, Pointers, Locals
  <2> QED BY <1>8, <2>1, <2>2 DEF find_pid, TypeInv, TypeOK, ShellLocals, ShellGoto, Goto, ShellPlaces, Pointers, States
<1>9. CASE dequeue_start
  <2>0. sh.slot \in Slots /\ next[sh.slot] \in Pointers /\ run_queue \in Pointers
    BY <1>9 DEF dequeue_start, TypeInv, TypeOK, ShellLocals, ShellGoto, Goto
  <2>1. sh' \in Locals
    BY <1>9, <2>0 DEF dequeue_start, TypeInv, TypeOK, Locals, Pointers
  <2>2. ShellLocals'
    BY <1>9 DEF dequeue_start, TypeInv, TypeOK, ShellLocals, ShellGoto, Goto, ShellPlaces, Pointers, Locals
  <2> QED BY <1>9, <2>1, <2>2 DEF dequeue_start, TypeInv, TypeOK, ShellLocals, ShellGoto, Goto, ShellPlaces, Pointers, States
<1>10. CASE dequeue_find_prev
  <2>1. sh' \in Locals
    BY <1>10, NoLocalsType DEF dequeue_find_prev, TypeInv, TypeOK, ShellLocals, ShellGoto, Goto, Locals, Pointers
  <2>2. ShellLocals'
    BY <1>10 DEF dequeue_find_prev, TypeInv, TypeOK, ShellLocals, ShellGoto, Goto, ShellPlaces, Pointers, Locals
  <2> QED BY <1>10, <2>1, <2>2 DEF dequeue_find_prev, TypeInv, TypeOK, ShellLocals, ShellGoto, Goto, ShellPlaces, Pointers, States
<1>11. CASE dequeue_load_next
  <2>1. sh' \in Locals
    BY <1>11, NoLocalsType DEF dequeue_load_next, TypeInv, TypeOK, ShellLocals, ShellGoto, Goto, Locals, Pointers
  <2>2. ShellLocals'
    BY <1>11 DEF dequeue_load_next, TypeInv, TypeOK, ShellLocals, ShellGoto, Goto, ShellPlaces, Pointers, Locals
  <2> QED BY <1>11, <2>1, <2>2 DEF dequeue_load_next, TypeInv, TypeOK, ShellLocals, ShellGoto, Goto, ShellPlaces, Pointers, States
<1>12. CASE dequeue_unlink
  <2>1. sh' \in Locals
    BY <1>12, NoLocalsType DEF dequeue_unlink, TypeInv, TypeOK, ShellLocals, ShellGoto, Goto, Locals, Pointers
  <2>2. ShellLocals'
    BY <1>12 DEF dequeue_unlink, TypeInv, TypeOK, ShellLocals, ShellGoto, Goto, ShellPlaces, Pointers, Locals
  <2> QED BY <1>12, <2>1, <2>2 DEF dequeue_unlink, TypeInv, TypeOK, ShellLocals, ShellGoto, Goto, ShellPlaces, Pointers, Locals
<1>13. CASE FreeStack
  <2>1. sh.slot \in Slots
    BY <1>13 DEF FreeStack, TypeInv, ShellLocals, ShellGoto, Goto
  <2>2. pmm_used' \in SUBSET Pages /\ pmm_free_pages' \in Int
    BY <1>13, <2>1, FreePageType DEF FreeStack, TypeInv, TypeOK
  <2> QED BY <1>13, <2>1, <2>2, NoLocalsType DEF FreeStack, TypeInv, TypeOK, ShellLocals, ShellGoto, Goto,
                               ShellPlaces, Locals, Pointers
<1>14. CASE list_row
  <2>1. sh' \in Locals
    BY <1>14, NoLocalsType DEF list_row, TypeInv, TypeOK, Locals, Ops, Listings, Pointers
  <2>2. ShellLocals'
    BY <1>14 DEF list_row, TypeInv, TypeOK, ShellLocals, ShellGoto, Goto, ShellPlaces, Pointers, Locals
  <2> QED BY <1>14, <2>1, <2>2 DEF list_row, TypeInv, TypeOK, ShellGoto, Goto, ShellPlaces
<1>15. CASE list_next
  <2>1. sh' \in Locals
    BY <1>15 DEF list_next, TypeInv, TypeOK, ShellLocals, ShellGoto, Goto, Locals, Pointers
  <2>2. ShellLocals'
    BY <1>15 DEF list_next, TypeInv, TypeOK, ShellLocals, ShellGoto, Goto, ShellPlaces
  <2> QED BY <1>15, <2>1, <2>2 DEF list_next, TypeInv, TypeOK, ShellGoto, Goto, ShellPlaces
<1>16. CASE NullStack
  BY <1>16, NoLocalsType DEF NullStack, TypeInv, TypeOK, ShellLocals, ShellGoto, Goto, ShellPlaces
<1>17. CASE find_tid
  <2>0. sh.slot \in Tcbs \cup {NULL} /\ sh \in Locals
    BY <1>17 DEF find_tid, TypeInv, TypeOK, ShellLocals, ShellGoto, Goto
  <2>1. sh.slot # NULL => TcbAfter(sh.slot) \in Tcbs \cup {NULL}
    BY <2>0, TcbAfterType
  <2>2. sh' \in Locals /\ (sh' = NoLocals \/ sh'.slot \in Tcbs \cup {NULL})
    <3>1. CASE sh' = NoLocals
      BY <3>1, NoLocalsType
    <3>2. CASE sh' = sh
      BY <2>0, <3>2
    <3>3. CASE sh.slot # NULL /\ sh' = [sh EXCEPT !.slot = TcbAfter(sh.slot)]
      BY <2>0, <2>1, <3>3 DEF Locals, Pointers
    <3> QED BY <1>17, <3>1, <3>2, <3>3 DEF find_tid
  <2>3. /\ pc' \in [Pages -> ShellPlaces \cup ThreadPlaces]
        /\ \/ pc'[BootStack] = "prompt"
           \/ pc'[BootStack] = "mark_dead" /\ sh.slot # NULL /\ sh' = sh
           \/ pc'[BootStack] = "find_tid" /\ sh.slot # NULL /\ sh' = [sh EXCEPT !.slot = TcbAfter(sh.slot)]
    BY <1>17 DEF find_tid, TypeInv, TypeOK, ShellGoto, Goto, ShellPlaces
  <2>4. ShellLocals'
    <3>1. pc'[BootStack] = "find_tid" => sh'.slot \in Tcbs \cup {NULL}
      BY <2>0, <2>1, <2>3 DEF Locals
    <3>2. pc'[BootStack] = "mark_dead" => sh'.slot \in Slots
      BY <2>0, <2>3
    <3> QED BY <2>3, <3>1, <3>2 DEF ShellLocals, ShellPlaces
  <2> QED BY <1>17, <2>2, <2>3, <2>4 DEF find_tid, TypeInv, TypeOK
<1>18. CASE mark_dead
  BY <1>18 DEF mark_dead, TypeInv, TypeOK, ShellLocals, ShellGoto, Goto, ShellPlaces, States
<1> QED BY <1>1, <1>2, <1>3, <1>4, <1>5, <1>6, <1>7, <1>8, <1>9, <1>10, <1>11, <1>12, <1>13, <1>14, <1>15,
           <1>16, <1>17, <1>18 DEF CommandStep

\* Giving a command keeps the types.
LEMMA StartCommandType ==
    ASSUME TypeInv, StartCommand
    PROVE  TypeInv'
<1> USE ConstantFacts
<1>1. ASSUME NEW op \in {"newprocess", "thread"}, StartCreate(op)
      PROVE  TypeInv'
  <2>1. sh' \in Locals
    BY <1>1, NoLocalsType DEF StartCreate, Locals, Ops
  <2> QED BY <1>1, <2>1 DEF StartCreate, TypeInv, TypeOK, ShellLocals, ShellGoto, Goto, ShellPlaces
<1>2. ASSUME NEW target \in KillTargets, StartKillProcess(target)
      PROVE  TypeInv'
  <2>1. sh' \in Locals
    BY <1>2, NoLocalsType, ShellAssumption DEF StartKillProcess, TypeInv, TypeOK, Locals, Ops
  <2> QED BY <1>2, <2>1 DEF StartKillProcess, TypeInv, TypeOK, ShellLocals, ShellGoto, Goto,
                            ShellPlaces
<1>3. ASSUME NEW target \in KillTargets, StartKillThread(target)
      PROVE  TypeInv'
  <2>1. PICK t : t = TcbAfter(NPcb)
    OBVIOUS
  <2>2. t \in Tcbs \cup {NULL} /\ t \in Pointers
    BY <2>1, TcbAfterType DEF Pointers
  <2>3. sh' = [NoLocals EXCEPT !.op = "killthread", !.target = target, !.slot = t]
    BY <1>3, <2>1 DEF StartKillThread
  <2>4. sh' \in Locals /\ sh'.slot = t
    BY <2>2, <2>3, NoLocalsType, ShellAssumption DEF Locals, Ops, NoLocals
  <2> QED BY <1>3, <2>2, <2>4 DEF StartKillThread, TypeInv, TypeOK, ShellLocals, ShellGoto, Goto, ShellPlaces
<1>4. ASSUME NEW op \in Listings, StartList(op)
      PROVE  TypeInv'
  <2>1. sh' \in Locals
    BY <1>4, NoLocalsType DEF StartList, TypeInv, TypeOK, Locals, Ops
  <2> QED BY <1>4, <2>1 DEF StartList, TypeInv, TypeOK, ShellLocals, ShellGoto, Goto, ShellPlaces
<1> QED BY <1>1, <1>2, <1>3, <1>4 DEF StartCommand

\* Every step of the kernel keeps the types.
LEMMA StepType ==
    ASSUME TypeInv, [Next]_kernelVars
    PROVE  TypeInv'
<1> USE ConstantFacts
<1>1. CASE Tick
  <2>1. schedule
    BY <1>1 DEF Tick, TimerIrq
  <2> QED BY <1>1, <2>1, ScheduleType DEF Tick, TimerIrq, TypeInv, TypeOK, ShellLocals
<1>2. CASE Return
  BY <1>2 DEF Return, IsrReturn, TypeInv, TypeOK, ShellLocals
<1>3. CASE ThreadRuns
  BY <1>3, ThreadStepType, ThreadStepLocals DEF ThreadRuns, TypeInv
<1>4. CASE StartCommand
  BY <1>4, StartCommandType
<1>5. CASE CommandStep
  BY <1>5, CommandStepType
<1>6. CASE UNCHANGED kernelVars
  BY <1>6 DEF TypeInv, TypeOK, ShellLocals
<1> QED BY <1>1, <1>2, <1>3, <1>4, <1>5, <1>6 DEF Next

\* kernel_main leaves a well-typed state behind.
LEMMA InitType == Init => TypeInv
<1> USE ConstantFacts
<1> SUFFICES ASSUME Init PROVE TypeInv
  OBVIOUS
<1>1. /\ state \in [Slots -> States] /\ pid \in [Slots -> Nat]
      /\ esp \in [Slots -> Pages] /\ stack_base \in [Slots -> Pages]
      /\ next \in [Slots -> Pointers] /\ wait_next \in [Slots -> Pointers]
      /\ tid \in [Tcbs -> Nat]
  BY DEF Init, States, Pointers
<1>2. /\ pc \in [Pages -> ShellPlaces \cup ThreadPlaces]
      /\ pc[BootStack] = "prompt"
  BY DEF Init, ShellPlaces, ThreadPlaces
<1>3. /\ run_queue \in Pointers /\ current_pcb \in Slots /\ waiters \in Pointers
      /\ pmm_used \subseteq Pages /\ pmm_free_pages \in Int /\ cpu \in Pages
      /\ next_pid \in Nat /\ next_tid \in Nat /\ lock \in {0, 1}
  BY DEF Init, Pointers
<1>4. eflags_if \in BOOLEAN /\ irq0 \in BOOLEAN /\ isr \in [Pages -> BOOLEAN]
  BY DEF Init
<1>5. sh \in Locals
  BY NoLocalsType DEF Init
<1>6. ShellLocals
  BY <1>2 DEF ShellLocals, ShellPlaces
<1> QED BY <1>1, <1>2, <1>3, <1>4, <1>5, <1>6 DEF TypeInv, TypeOK

(***************************************************************************)
(* Type correctness, and that a command never follows a NULL cursor.       *)
(***************************************************************************)
THEOREM TypeCorrect == Spec => []TypeInv
<1>1. Init => TypeInv
  BY InitType
<1>2. TypeInv /\ [Next]_kernelVars => TypeInv'
  BY StepType
<1> QED BY <1>1, <1>2, PTL DEF Spec

\* The type invariant that the runs check: every pointer of the scheduler,
\* of the wait list and of a command leads to a slot or is NULL.
THEOREM KernelTypeOK == Spec => []TypeOK
  BY TypeCorrect, PTL DEF TypeInv
-----------------------------------------------------------------------------
\* Threads, and commands, touch neither the interrupt flag nor the PIC.
LEMMA OthersKeepTraps ==
    ASSUME StartCommand \/ CommandStep \/ (\E s \in Pages : ThreadStep(s))
    PROVE  UNCHANGED trapVars
  BY DEF StartCommand, StartCreate, StartKillProcess, StartKillThread, StartList, CommandStep,
         list_row, list_next, alloc_slot, pmm_alloc_scan, pmm_alloc_store, NullStack, FillSlot, enqueue_walk, enqueue_link,
         set_blocked, find_pid, find_tid, mark_dead, dequeue_start, dequeue_find_prev, dequeue_load_next,
         dequeue_unlink, FreeStack,
         ThreadStep, StartLock, StartSpin, YieldInside, YieldOutside, test_and_set,
         mutex_lock_block, mutex_lock_push, mutex_lock_reschedule, mutex_unlock,
         mutex_unlock_wake, process_exit, process_exit_switch

\* A thread runs on a stack other than the boot stack; a command on it.
LEMMA ThreadsOffBootStack ==
    ASSUME TypeInv, NEW s \in Pages, ThreadStep(s)
    PROVE  cpu # BootStack
<1>1. pc[s] \notin ShellPlaces /\ cpu = s
  BY DEF ThreadStep, StartLock, StartSpin, YieldInside, YieldOutside, test_and_set,
         mutex_lock_block, mutex_lock_push, mutex_lock_reschedule, mutex_unlock,
         mutex_unlock_wake, process_exit, process_exit_switch, Goto, Executes,
         Critical, ShellPlaces
<1> QED BY <1>1 DEF TypeInv, ShellLocals

\* A command runs on the boot stack, and does not change the CPU's stack.
LEMMA CommandsKeepCpu ==
    ASSUME StartCommand \/ CommandStep
    PROVE  UNCHANGED cpu
  BY DEF StartCommand, StartCreate, StartKillProcess, StartKillThread, StartList, CommandStep,
         list_row, list_next, alloc_slot, pmm_alloc_scan, pmm_alloc_store, NullStack, FillSlot, enqueue_walk, enqueue_link,
         set_blocked, find_pid, find_tid, mark_dead, dequeue_start, dequeue_find_prev, dequeue_load_next,
         dequeue_unlink, FreeStack

(***************************************************************************)
(* Outside the boot context interrupts are off and IRQ0 is in service, so  *)
(* that no thread is ever interrupted: what README.md calls preemptive     *)
(* scheduling preempts the shell alone.                                    *)
(***************************************************************************)
THEOREM Shielded == Spec => []InterruptShield
<1> USE ConstantFacts
<1>1. Init => InterruptShield
  BY DEF Init, InterruptShield
<1>2. TypeInv /\ InterruptShield /\ [Next]_kernelVars => InterruptShield'
  <2> SUFFICES ASSUME TypeInv, InterruptShield, [Next]_kernelVars
               PROVE  InterruptShield'
    OBVIOUS
  <2>1. CASE Tick
    <3>1. cpu = BootStack /\ isr \in [Pages -> BOOLEAN]
      BY <2>1 DEF Tick, TimerIrq, InterruptShield, TypeInv, TypeOK
    <3> QED BY <2>1, <3>1 DEF Tick, TimerIrq, InterruptShield
  <2>2. CASE Return
    <3>1. cpu = BootStack /\ isr \in [Pages -> BOOLEAN]
      BY <2>2 DEF Return, IsrReturn, InterruptShield, TypeInv, TypeOK
    <3> QED BY <2>2, <3>1 DEF Return, IsrReturn, InterruptShield
  <2>3. CASE ThreadRuns
    <3>1. PICK s \in Pages : ThreadStep(s)
      BY <2>3 DEF ThreadRuns
    <3>2. cpu # BootStack /\ UNCHANGED trapVars
      BY <3>1, ThreadsOffBootStack, OthersKeepTraps
    <3> QED BY <3>2 DEF InterruptShield
  <2>4. CASE StartCommand \/ CommandStep
    <3>1. UNCHANGED trapVars /\ UNCHANGED cpu
      BY <2>4, OthersKeepTraps, CommandsKeepCpu
    <3> QED BY <3>1 DEF InterruptShield
  <2>5. CASE UNCHANGED kernelVars
    BY <2>5 DEF InterruptShield
  <2> QED BY <2>1, <2>2, <2>3, <2>4, <2>5 DEF Next
<1> QED BY <1>1, <1>2, TypeCorrect, PTL DEF Spec
-----------------------------------------------------------------------------
(***************************************************************************)
(* Mutual exclusion needs that a held lock is 1 for as long as a context   *)
(* is between mutex_lock and mutex_unlock, even if its thread is deleted.  *)
(***************************************************************************)
HolderKeepsLock == \A s \in Pages : pc[s] \in Critical => lock = 1

LockInv == HolderKeepsLock /\ MutualExclusion

\* A step that brings no context into the critical section, and does not
\* touch the lock, keeps the invariant.
LEMMA NoEntry ==
    ASSUME LockInv, UNCHANGED lock,
           \A s \in Pages : pc'[s] \in Critical => pc[s] \in Critical
    PROVE  LockInv'
  BY DEF LockInv, HolderKeepsLock, MutualExclusion

\* The places of the shell are outside.
LEMMA CommandsOutside ==
    ASSUME TypeInv, StartCommand \/ CommandStep
    PROVE  /\ UNCHANGED lock
           /\ \A s \in Pages : pc'[s] \in Critical => pc[s] \in Critical
<1> USE ConstantFacts DEF TypeInv, TypeOK, ShellGoto, Goto, Critical
<1>1. CASE StartCommand
  BY <1>1 DEF StartCommand, StartCreate, StartKillProcess, StartKillThread, StartList
<1>2. CASE FillSlot
  BY <1>2 DEF FillSlot
<1>3. CASE alloc_slot \/ pmm_alloc_scan \/ pmm_alloc_store \/ NullStack
  BY <1>3 DEF alloc_slot, pmm_alloc_scan, pmm_alloc_store, NullStack
<1>4. CASE enqueue_walk \/ enqueue_link \/ set_blocked \/ find_pid \/ find_tid \/ mark_dead
  BY <1>4 DEF enqueue_walk, enqueue_link, set_blocked, find_pid, find_tid, mark_dead
<1>5. CASE dequeue_start \/ dequeue_find_prev \/ dequeue_load_next \/ dequeue_unlink
           \/ FreeStack
  BY <1>5 DEF dequeue_start, dequeue_find_prev, dequeue_load_next, dequeue_unlink, FreeStack
<1>6. CASE list_row \/ list_next
  BY <1>6 DEF list_row, list_next
<1> QED BY <1>1, <1>2, <1>3, <1>4, <1>5, <1>6 DEF CommandStep

\* One step of a thread, by what it does to the lock.
LEMMA ThreadStepLock ==
    ASSUME TypeInv, LockInv, NEW s \in Pages, ThreadStep(s)
    PROVE  LockInv'
<1> USE DEF TypeInv, TypeOK, Goto, Critical
<1>1. CASE test_and_set(s)
  <2>1. CASE lock = 0
    <3>1. \A t \in Pages : pc[t] \notin Critical
      BY <2>1 DEF LockInv, HolderKeepsLock
    <3> QED BY <1>1, <2>1, <3>1 DEF test_and_set, LockInv, HolderKeepsLock, MutualExclusion
  <2>2. CASE lock # 0
    <3>1. UNCHANGED lock /\ \A t \in Pages : pc'[t] \in Critical => pc[t] \in Critical
      BY <1>1, <2>2 DEF test_and_set
    <3> QED BY <3>1, NoEntry
  <2> QED BY <2>1, <2>2
<1>2. CASE mutex_unlock(s)
  <2>1. pc[s] \in Critical /\ pc' = [pc EXCEPT ![s] = "wake"]
    BY <1>2 DEF mutex_unlock
  <2>2. \A t \in Pages : pc'[t] \notin Critical
    BY <2>1 DEF LockInv, MutualExclusion
  <2> QED BY <2>2 DEF LockInv, HolderKeepsLock, MutualExclusion
<1>3. CASE StartLock(s) \/ StartSpin(s) \/ YieldInside(s) \/ YieldOutside(s)
           \/ mutex_lock_block(s) \/ mutex_lock_push(s) \/ mutex_lock_reschedule(s)
           \/ mutex_unlock_wake(s) \/ process_exit(s) \/ process_exit_switch(s)
  <2>1. UNCHANGED lock /\ \A t \in Pages : pc'[t] \in Critical => pc[t] \in Critical
    BY <1>3 DEF StartLock, StartSpin, YieldInside, YieldOutside, mutex_lock_block,
                mutex_lock_push, mutex_lock_reschedule, mutex_unlock_wake, process_exit,
                process_exit_switch
  <2> QED BY <2>1, NoEntry
<1> QED BY <1>1, <1>2, <1>3 DEF ThreadStep

(***************************************************************************)
(* mutex_lock and mutex_unlock exclude each other, for any number of       *)
(* threads, whatever is created, deleted or exits in the meantime.         *)
(***************************************************************************)
THEOREM MutexExcludes == Spec => []MutualExclusion
<1>1. Init => LockInv
  BY DEF Init, LockInv, HolderKeepsLock, MutualExclusion, Critical
<1>2. TypeInv /\ LockInv /\ [Next]_kernelVars => LockInv'
  <2> SUFFICES ASSUME TypeInv, LockInv, [Next]_kernelVars
               PROVE  LockInv'
    OBVIOUS
  <2>1. CASE Tick
    BY <2>1, NoEntry DEF Tick, TimerIrq
  <2>2. CASE Return
    BY <2>2, NoEntry DEF Return, IsrReturn
  <2>3. CASE ThreadRuns
    BY <2>3, ThreadStepLock DEF ThreadRuns
  <2>4. CASE StartCommand \/ CommandStep
    BY <2>4, CommandsOutside, NoEntry
  <2>5. CASE UNCHANGED kernelVars
    BY <2>5, NoEntry
  <2> QED BY <2>1, <2>2, <2>3, <2>4, <2>5 DEF Next
<1>3. LockInv => MutualExclusion
  BY DEF LockInv
<1> QED BY <1>1, <1>2, <1>3, TypeCorrect, PTL DEF Spec
-----------------------------------------------------------------------------
(***************************************************************************)
(* Stacks and contexts: each live slot has a stack of its own, the CPU     *)
(* runs the context of current_pcb, and no slot that is gone comes back.   *)
(* For any number of slots, threads and pages; threads lock, yield, spin   *)
(* and exit while commands run.                                            *)
(***************************************************************************)

\* Where a command stands: a slot is chosen, filled in, or being deleted.
Creating == {"alloc_page", "store_word", "fill"}
Filling  == {"find_tail", "link", "set_blocked"}
Killing  == {"dequeue", "find_prev", "load_next", "unlink", "free_stack"}

NoThreads == "thread" \notin ShellOps

ThreadCode == {"client", "spin", "test_and_set", "block", "push", "reschedule", "wake", "rest",
               "exited", "critical", "resumed"}
ProcessCode == {"idle_task", "counter_process"}

\* A stack is a page in use, and it is the stack of one slot.
Stacks ==
    /\ BootStack \in pmm_used
    /\ \A x \in Slots : stack_base[x] # NULL => stack_base[x] \in pmm_used
    /\ \A x, y \in Slots : x # y /\ stack_base[x] # NULL => stack_base[y] # stack_base[x]
    /\ \A x \in Slots : Live(x) => stack_base[x] # NULL
    /\ \A x \in Slots : pid[x] # 0 => x \in Pcbs /\ stack_base[x] # NULL
    /\ \A x \in Pcbs : Live(x) => pid[x] # 0

\* What a command that is at a place, with locals c, knows about the slot and
\* the page that it holds.
CommandAt(at, c) ==
    /\ \A x \in Slots : ~Live(x) /\ stack_base[x] # NULL => at \in Killing /\ x = c.slot
    /\ at \in Creating => c.slot \in Slots /\ ~Live(c.slot)
    /\ at \in Creating \cup Filling =>
          \/ c.op = "newprocess" /\ c.slot \in Pcbs
          \/ c.op = "thread" /\ c.slot \in Tcbs
    /\ at \in {"store_word", "fill"} => c.page # BootStack /\ \A x \in Slots : stack_base[x] # c.page
    /\ at = "store_word" => pmm_used \cap WordOf(c.page) \subseteq c.word
    /\ at = "fill" => c.page \in pmm_used
    /\ at \in Killing => ~Live(c.slot) /\ stack_base[c.slot] # NULL
    /\ at \in Killing => c.op = "killprocess" /\ c.slot \in Pcbs
    /\ at = "set_blocked" => c.op = "newprocess"
    /\ at \in Filling /\ c.op = "newprocess" => Live(c.slot)
    /\ at = "find_pid" => c.target \in KillTargets /\ c.op = "killprocess"
    /\ at = "mark_dead" =>
          /\ c.op = "killprocess" /\ c.target \in KillTargets /\ c.target # 0
          /\ c.slot \in Pcbs /\ pid[c.slot] = c.target
    /\ at = "find_tid" => NoThreads
    /\ at = "alloc_slot" => c.op \in {"newprocess", "thread"}
    /\ NoThreads => c.op # "thread"

Commands == CommandAt(pc[BootStack], sh)

\* Without threads nothing switches back to idle_pcb; with them it lives.
IdleStays ==
    /\ NoThreads => /\ \A s \in Pages \ {BootStack} : pc[s] \in ProcessCode
                    /\ \A t \in Tcbs : ~Live(t)
    /\ ~NoThreads => Live(idle_pcb) /\ pid[idle_pcb] = 1
    /\ next_pid >= 1

\* The code that runs on the stack of a slot.
Code ==
    /\ \A x \in Pcbs : stack_base[x] # NULL => pc[stack_base[x]] \in ProcessCode
    /\ \A t \in Tcbs : Live(t) => pc[stack_base[t]] \in ThreadCode \ {"exited"}
    /\ \A t \in Tcbs \ {current_pcb} : Live(t) =>
          pc[stack_base[t]] \in {"client", "test_and_set", "resumed"}

\* The context on the CPU is that of current_pcb; the others are saved.
Contexts ==
    /\ cpu = BootStack <=> current_pcb = idle_pcb
    /\ cpu # BootStack =>
          /\ esp[idle_pcb] = BootStack
          /\ pc[cpu] # "exited" => cpu = stack_base[current_pcb]
          /\ current_pcb \in Pcbs => pc[cpu] \in ProcessCode
          /\ current_pcb \in Tcbs => pc[cpu] \in ThreadCode
          /\ pc[cpu] = "exited" => state[current_pcb] = "DEAD"
          /\ pc[cpu] \in {"push", "reschedule"} => state[current_pcb] = "BLOCKED"
          /\ pc[cpu] \notin {"push", "reschedule", "exited"} => state[current_pcb] = "RUNNING"
    /\ \A x \in Slots \ {idle_pcb, current_pcb} : Live(x) => esp[x] = stack_base[x]
    /\ \A x \in Slots : state[x] = "RUNNING" => x = current_pcb

\* The threads on the wait list.
Parked == {t \in Tcbs : state[t] = "BLOCKED" /\ ~(t = current_pcb /\ pc[cpu] = "push")}

\* From head on, the successors link the members of P, each of them once: no
\* two have the same successor, and no part of P is left aside.
Links(P, head, succ) ==
    /\ head # NULL => head \in P
    /\ \A x \in P : succ[x] # NULL => succ[x] \in P
    /\ \A x \in P : head # NULL => succ[x] # head
    /\ \A x, y \in P : x # y /\ succ[x] # NULL => succ[y] # succ[x]
    /\ \A S \in SUBSET P : S # {} /\ head \notin S => \E x \in P \ S : succ[x] \in S

\* The wait list links BLOCKED threads, so that mutex_unlock wakes a thread
\* that is alive.
WaitLinks == Links(Parked, waiters, wait_next)

SlotInv == Stacks /\ Commands /\ IdleStays /\ Code /\ Contexts /\ WaitLinks
KernelInv == TypeInv /\ InterruptShield /\ SlotInv
-----------------------------------------------------------------------------
\* Slots are processes and threads, and NULL denotes the boot stack's page.
LEMMA SlotFacts ==
    /\ Slots = Pcbs \cup Tcbs /\ Pcbs \cap Tcbs = {}
    /\ idle_pcb \in Pcbs /\ NULL = BootStack
    /\ ShellPlaces \cap (ThreadCode \cup ProcessCode) = {} /\ ThreadCode \cap ProcessCode = {}
  BY SchedulerAssumption
  DEF Slots, Pcbs, Tcbs, idle_pcb, NULL, BootStack, ShellPlaces, ThreadCode, ProcessCode

\* kernel_main leaves idle_pcb alone in the pools.
LEMMA InitSlots == Init => SlotInv
<1> SUFFICES ASSUME Init PROVE SlotInv
  OBVIOUS
<1> USE ConstantFacts, SlotFacts DEF Init
<1>0. 1 # BootStack /\ 1 # NULL
  BY DEF BootStack, NULL
<1>1. Stacks
  BY <1>0 DEF Stacks, Live
<1>2. Commands
  BY <1>0 DEF Commands, CommandAt, Live, Creating, Filling, Killing, NoLocals
<1>3. IdleStays
  <2>1. \A t \in Tcbs : t # idle_pcb
    OBVIOUS
  <2> QED BY <2>1 DEF IdleStays, Live, ProcessCode
<1>4. Code
  BY <1>0 DEF Code, Live, ProcessCode
<1>5. Contexts
  BY <1>0 DEF Contexts, Live
<1>6. WaitLinks
  BY DEF WaitLinks, Links, Parked
<1> QED BY <1>1, <1>2, <1>3, <1>4, <1>5, <1>6 DEF SlotInv

\* killprocess finds a process: not a thread, nor a slot that is gone.
FindsProcess ==
    pc[BootStack] = "find_pid" /\ sh.cur # NULL /\ pid[sh.cur] = sh.target => pid[sh.cur] # 0
-----------------------------------------------------------------------------
\* The steps of commands that touch nothing but the queue and their locals.
Moves ==
    \/ \E op \in Listings : StartList(op)
    \/ \E op \in {"newprocess", "thread"} : StartCreate(op)
    \/ \E target \in KillTargets : StartKillProcess(target)
    \/ alloc_slot \/ pmm_alloc_scan \/ NullStack
    \/ enqueue_walk \/ enqueue_link
    \/ dequeue_start \/ dequeue_find_prev \/ dequeue_load_next \/ dequeue_unlink
    \/ list_row \/ list_next

\* A node may be put in front of the list ...
LEMMA LinkPush ==
    ASSUME NEW P, NEW head, NEW succ, NEW x, NEW after,
           Links(P, head, succ), x \notin P, x # NULL,
           after[x] = head, \A y \in P : after[y] = succ[y]
    PROVE  Links(P \cup {x}, x, after)
<1>1. ASSUME NEW S \in SUBSET (P \cup {x}), S # {}, x \notin S
      PROVE  \E y \in (P \cup {x}) \ S : after[y] \in S
  <2>1. S \in SUBSET P
    BY <1>1
  <2>2. CASE head \in S
    BY <1>1, <2>2
  <2>3. CASE head \notin S
    <3>1. PICK y \in P \ S : succ[y] \in S
      BY <1>1, <2>1, <2>3 DEF Links
    <3> QED BY <3>1
  <2> QED BY <2>2, <2>3
<1> QED BY <1>1 DEF Links

\* ... and the one in front may leave it.
LEMMA LinkPop ==
    ASSUME NEW P, NEW head, NEW succ, NEW after,
           Links(P, head, succ), head # NULL, \A y \in P \ {head} : after[y] = succ[y]
    PROVE  Links(P \ {head}, succ[head], after)
<1>1. ASSUME NEW S \in SUBSET (P \ {head}), S # {}, succ[head] \notin S
      PROVE  \E y \in (P \ {head}) \ S : after[y] \in S
  <2>1. PICK y \in P \ S : succ[y] \in S
    BY <1>1 DEF Links
  <2> QED BY <1>1, <2>1
<1> QED BY <1>1 DEF Links

\* A step of the shell that changes no slot.
LEMMA ShellFrame ==
    ASSUME KernelInv, cpu = BootStack, NEW to \in ShellPlaces,
           pc' = [pc EXCEPT ![BootStack] = to],
           UNCHANGED <<state, pid, esp, stack_base, current_pcb, cpu, waiters, wait_next, next_pid>>,
           Stacks', CommandAt(to, sh)'
    PROVE  SlotInv'
<1> USE ConstantFacts, SlotFacts DEF KernelInv, SlotInv
<1>1. pc'[BootStack] = to /\ \A s \in Pages \ {BootStack} : pc'[s] = pc[s]
  BY DEF TypeInv, TypeOK
<1>2. \A x \in Slots : Live(x)' = Live(x)
  BY DEF Live
<1>3. \A x : stack_base[x] # NULL /\ x \in Slots => stack_base[x] \in Pages \ {BootStack}
  BY DEF TypeInv, TypeOK
<1>4. Parked' = Parked
  <2>1. pc[cpu] # "push" /\ pc'[cpu] # "push"
    BY DEF TypeInv, TypeOK, ShellLocals, ShellPlaces
  <2> QED BY <2>1 DEF Parked
<1>6. IdleStays'
  BY <1>1, <1>2 DEF IdleStays
<1>7. Code'
  BY <1>1, <1>2, <1>3 DEF Code, Stacks
<1>8. Contexts'
  BY <1>2 DEF Contexts
<1>9. WaitLinks'
  BY <1>4 DEF WaitLinks
<1>10. Commands'
  BY <1>1 DEF Commands
<1> QED BY <1>6, <1>7, <1>8, <1>9, <1>10

\* A step of the shell that changes nothing but its locals and its place.
LEMMA ShellMoves ==
    ASSUME KernelInv, cpu = BootStack, NEW to \in ShellPlaces,
           pc' = [pc EXCEPT ![BootStack] = to],
           UNCHANGED <<state, pid, esp, stack_base, current_pcb, pmm_used, cpu, waiters, wait_next,
                       next_pid>>,
           CommandAt(to, sh')
    PROVE  SlotInv'
<1>1. Stacks'
  BY DEF KernelInv, SlotInv, Stacks, Live
<1>2. CommandAt(to, sh)'
  BY DEF CommandAt, Live
<1> QED BY <1>1, <1>2, ShellFrame

\* At the prompt nothing is held.
LEMMA AtThePrompt ==
    ASSUME NEW at, NEW c, CommandAt(at, c), at \notin Killing
    PROVE  CommandAt("prompt", NoLocals)
  BY DEF CommandAt, Creating, Filling, Killing, NoLocals

\* The commands that look at the slots, walk the queue, or link and unlink a
\* slot there, leave stacks and contexts alone.
LEMMA MovesKeepSlots ==
    ASSUME KernelInv, Moves
    PROVE  SlotInv'
<1> DEFINE at == pc[BootStack]
           Still == /\ state' = state /\ pid' = pid /\ esp' = esp /\ stack_base' = stack_base
                    /\ current_pcb' = current_pcb /\ pmm_used' = pmm_used /\ cpu' = cpu
                    /\ waiters' = waiters /\ wait_next' = wait_next /\ next_pid' = next_pid
<1>0. /\ CommandAt(at, sh) /\ sh \in Locals
      /\ at \in {"find_tail", "link", "list_next"} => sh.cur \in Slots
  BY DEF KernelInv, SlotInv, Commands, TypeInv, TypeOK, ShellLocals
<1>a. ASSUME NEW to \in ShellPlaces, Executes(BootStack), pc' = [pc EXCEPT ![BootStack] = to], Still,
             CommandAt(to, sh')
      PROVE  SlotInv'
  BY <1>a, ShellMoves DEF Executes
<1> HIDE DEF at
<1> USE DEF ShellGoto, Goto, Creating, Filling, Killing, ShellPlaces
<1>1. ASSUME NEW op \in Listings, StartList(op) PROVE SlotInv'
  <2>1. CommandAt("list", sh')
    BY <1>0, <1>1 DEF StartList, CommandAt, NoLocals, Listings, at
  <2> QED BY <1>1, <1>a, <2>1 DEF StartList
<1>2. ASSUME NEW op \in {"newprocess", "thread"}, StartCreate(op) PROVE SlotInv'
  <2>1. CommandAt("alloc_slot", sh')
    BY <1>0, <1>2 DEF StartCreate, CommandAt, NoLocals, NoThreads, at
  <2> QED BY <1>2, <1>a, <2>1 DEF StartCreate
<1>3. ASSUME NEW target \in KillTargets, StartKillProcess(target) PROVE SlotInv'
  <2>1. CommandAt("find_pid", sh')
    BY <1>0, <1>3 DEF StartKillProcess, CommandAt, NoLocals, at
  <2> QED BY <1>3, <1>a, <2>1 DEF StartKillProcess
<1>4. CASE alloc_slot
  <2>0. at = "alloc_slot" /\ Executes(BootStack) /\ Still
    BY <1>4 DEF alloc_slot, at
  <2>1. CASE FreeSlots(sh.op) # {} /\ pc' = [pc EXCEPT ![BootStack] = "alloc_page"]
             /\ sh' = [sh EXCEPT !.slot = CHOOSE x \in FreeSlots(sh.op) : \A y \in FreeSlots(sh.op) : x <= y]
    <3>1. FreeSlots(sh.op) \in SUBSET Slots
      BY ConstantFacts DEF FreeSlots
    <3>2. sh'.slot \in FreeSlots(sh.op) /\ sh'.op = sh.op
      BY <1>0, <2>1, <3>1, LowestSlot DEF Locals
    <3>3. /\ sh'.slot \in Slots /\ ~Live(sh'.slot)
          /\ sh.op = "newprocess" => sh'.slot \in Pcbs
          /\ sh.op # "newprocess" => sh'.slot \in Tcbs
      BY <3>1, <3>2 DEF FreeSlots, Live
    <3>4. CommandAt("alloc_page", sh')
      BY <1>0, <2>0, <3>2, <3>3 DEF CommandAt
    <3> QED BY <1>a, <2>0, <2>1, <3>4
  <2>2. CASE pc' = [pc EXCEPT ![BootStack] = "prompt"] /\ sh' = NoLocals
    BY <1>0, <1>a, <2>0, <2>2, AtThePrompt
  <2> QED BY <1>4, <2>1, <2>2 DEF alloc_slot
<1>5. CASE pmm_alloc_scan
  <2> DEFINE page == FirstFree(pmm_used, NPages)
  <2>0. at = "alloc_page" /\ Executes(BootStack) /\ Still
    BY <1>5 DEF pmm_alloc_scan, at
  <2>1. CASE /\ Allocatable(pmm_used, NPages) # {}
             /\ pc' = [pc EXCEPT ![BootStack] = "store_word"]
             /\ sh' = [sh EXCEPT !.page = page, !.word = pmm_used \cap WordOf(page)]
    <3>1. page \notin pmm_used
      BY <2>1, FirstFreeIsFree, ConstantFacts
    <3> HIDE DEF page
    <3>2. /\ sh'.page = page /\ sh'.slot = sh.slot /\ sh'.op = sh.op
          /\ sh'.word = pmm_used \cap WordOf(page)
      BY <1>0, <2>1 DEF Locals
    <3>3. page # BootStack /\ \A x \in Slots : stack_base[x] # page
      BY <3>1, SlotFacts DEF KernelInv, SlotInv, Stacks
    <3>4. CommandAt("store_word", sh')
      BY <1>0, <2>0, <3>2, <3>3 DEF CommandAt
    <3> QED BY <1>a, <2>0, <2>1, <3>4
  <2>2. CASE pc' = [pc EXCEPT ![BootStack] = "prompt"] /\ sh' = NoLocals
    BY <1>0, <1>a, <2>0, <2>2, AtThePrompt
  <2> QED BY <1>5, <2>1, <2>2 DEF pmm_alloc_scan
<1>6. CASE enqueue_walk
  <2>0. /\ at = "find_tail" /\ Executes(BootStack) /\ Still
        /\ sh'.op = sh.op /\ sh'.slot = sh.slot
    BY <1>0, <1>6 DEF enqueue_walk, at, Locals
  <2>1. CommandAt("find_tail", sh') /\ CommandAt("link", sh')
    BY <1>0, <2>0 DEF CommandAt
  <2> QED BY <1>6, <1>a, <2>0, <2>1 DEF enqueue_walk
<1>7. CASE enqueue_link
  <2>0. at = "link" /\ Executes(BootStack) /\ Still
    BY <1>7 DEF enqueue_link, at
  <2>1. CASE sh.op = "newprocess"
    <3>1. CommandAt("set_blocked", sh)
      BY <1>0, <2>0, <2>1 DEF CommandAt
    <3> QED BY <1>7, <1>a, <2>0, <2>1, <3>1 DEF enqueue_link
  <2>2. CASE sh.op # "newprocess"
    BY <1>0, <1>7, <1>a, <2>0, <2>2, AtThePrompt DEF enqueue_link
  <2> QED BY <2>1, <2>2
<1>8. CASE dequeue_start \/ dequeue_find_prev \/ dequeue_load_next \/ dequeue_unlink
  <2>0. at \in Killing /\ Executes(BootStack) /\ Still
    BY <1>8 DEF dequeue_start, dequeue_find_prev, dequeue_load_next, dequeue_unlink, at
  <2>1. sh'.op = sh.op /\ sh'.slot = sh.slot
    BY <1>0, <1>8 DEF dequeue_start, dequeue_find_prev, dequeue_load_next, dequeue_unlink, Locals
  <2>2. \A to \in Killing : CommandAt(to, sh')
    BY <1>0, <2>0, <2>1 DEF CommandAt
  <2>3. \E to \in Killing : pc' = [pc EXCEPT ![BootStack] = to]
    BY <1>8 DEF dequeue_start, dequeue_find_prev, dequeue_load_next, dequeue_unlink
  <2> QED BY <1>a, <2>0, <2>2, <2>3
<1>9. CASE list_row \/ list_next
  <2>0. at \in {"list", "list_next"} /\ Executes(BootStack) /\ Still
    BY <1>9 DEF list_row, list_next, at
  <2>1. sh'.op = sh.op \/ sh'.op \in {"threads", "none"}
    <3>1. \/ sh' = sh \/ sh' = NoLocals
          \/ sh' = [sh EXCEPT !.op = "threads", !.cur = run_queue]
          \/ sh' = [sh EXCEPT !.cur = next[sh.cur]]
      BY <1>9 DEF list_row, list_next
    <3>2. CASE sh' = NoLocals
      BY <3>2 DEF NoLocals
    <3>3. CASE sh' # NoLocals
      BY <1>0, <3>1, <3>3 DEF Locals
    <3> QED BY <3>2, <3>3
  <2>2. \A to \in {"list", "list_next", "prompt"} : CommandAt(to, sh')
    BY <1>0, <2>0, <2>1 DEF CommandAt
  <2>3. \E to \in {"list", "list_next", "prompt"} : pc' = [pc EXCEPT ![BootStack] = to]
    BY <1>9 DEF list_row, list_next
  <2> QED BY <1>a, <2>0, <2>2, <2>3
<1>10. CASE NullStack
  <2>0. at = "fill" /\ Executes(BootStack) /\ Still
    BY <1>10 DEF NullStack, at
  <2> QED BY <1>0, <1>10, <1>a, <2>0, AtThePrompt DEF NullStack
<1> QED BY <1>1, <1>2, <1>3, <1>4, <1>5, <1>6, <1>7, <1>8, <1>9, <1>10 DEF Moves

\* pmm_alloc_page writes the word back: a stack that it read as used stays
\* used, and no other page has been taken meanwhile.
LEMMA StoreKeepsSlots ==
    ASSUME KernelInv, pmm_alloc_store
    PROVE  SlotInv'
<1> USE ConstantFacts, SlotFacts DEF KernelInv, SlotInv
<1>1. /\ pc[BootStack] = "store_word" /\ cpu = BootStack
      /\ pc' = [pc EXCEPT ![BootStack] = "fill"]
      /\ pmm_used' = StoreWord(pmm_used, sh.page, sh.word)
  BY DEF pmm_alloc_store, ShellGoto, Goto, Executes
<1>2. pmm_used \subseteq pmm_used' /\ sh.page \in pmm_used'
  BY <1>1 DEF StoreWord, Commands, CommandAt
<1>3. Stacks'
  BY <1>2 DEF Stacks, pmm_alloc_store, Live
<1>4. CommandAt("fill", sh)'
  BY <1>1, <1>2 DEF Commands, CommandAt, pmm_alloc_store, Live, Creating, Filling, Killing
<1> QED BY <1>1, <1>3, <1>4, ShellFrame DEF pmm_alloc_store, ShellPlaces

\* cmd_newprocess blocks the process that it has created.
LEMMA BlockKeepsSlots ==
    ASSUME KernelInv, set_blocked
    PROVE  SlotInv'
<1> USE ConstantFacts, SlotFacts DEF KernelInv, SlotInv
<1> DEFINE slot == sh.slot
<1>1. /\ pc[BootStack] = "set_blocked" /\ cpu = BootStack
      /\ pc' = [pc EXCEPT ![BootStack] = "prompt"]
      /\ state' = [state EXCEPT ![slot] = "BLOCKED"]
      /\ sh' = NoLocals
      /\ UNCHANGED <<pid, esp, stack_base, current_pcb, pmm_used, cpu, waiters, wait_next, next_pid>>
  BY DEF set_blocked, ShellGoto, Goto, Executes
<1>2. slot \in Pcbs /\ Live(slot)
  BY <1>1 DEF Commands, CommandAt, Filling
<1> HIDE DEF slot
<1>3. \A x \in Slots : (Live(x)' <=> Live(x)) /\ (state'[x] = "RUNNING" => state[x] = "RUNNING")
  BY <1>1, <1>2 DEF Live, TypeInv, TypeOK
<1>4. Parked' = Parked
  <2>1. pc[cpu] # "push" /\ pc'[cpu] # "push"
    BY <1>1 DEF TypeInv, TypeOK, ShellLocals, ShellPlaces
  <2>2. \A x \in Tcbs : state'[x] = state[x]
    BY <1>1, <1>2 DEF TypeInv, TypeOK
  <2> QED BY <1>1, <2>1, <2>2 DEF Parked
<1>5. pc'[BootStack] = "prompt" /\ \A s \in Pages \ {BootStack} : pc'[s] = pc[s]
  BY <1>1 DEF TypeInv, TypeOK
<1>6. \A x : stack_base[x] # NULL /\ x \in Slots => stack_base[x] \in Pages \ {BootStack}
  BY DEF TypeInv, TypeOK
<1>7. Stacks'
  BY <1>1, <1>3 DEF Stacks
<1>8. Commands'
  BY <1>1, <1>3, <1>5 DEF Commands, CommandAt, Creating, Filling, Killing, NoLocals
<1>9. IdleStays'
  BY <1>1, <1>3, <1>5 DEF IdleStays
<1>10. Code'
  BY <1>1, <1>3, <1>5, <1>6 DEF Code, Stacks
<1>11. Contexts'
  BY <1>1, <1>3 DEF Contexts
<1>12. WaitLinks'
  BY <1>1, <1>4 DEF WaitLinks
<1> QED BY <1>7, <1>8, <1>9, <1>10, <1>11, <1>12

\* cmd_killprocess looks for a process by its number ...
LEMMA FindKeepsSlots ==
    ASSUME KernelInv, FindsProcess, find_pid
    PROVE  SlotInv'
<1> USE ConstantFacts, SlotFacts DEF KernelInv, SlotInv
<1>0. PICK p : p = sh.cur
  OBVIOUS
<1>1. /\ pc[BootStack] = "find_pid" /\ cpu = BootStack
      /\ UNCHANGED <<state, pid, esp, stack_base, current_pcb, pmm_used, cpu, waiters, wait_next, next_pid>>
  BY DEF find_pid, ShellGoto, Goto, Executes
<1>2. CASE pc' = [pc EXCEPT ![BootStack] = "prompt"] /\ sh' = NoLocals
  <2>1. CommandAt("prompt", sh')
    BY <1>1, <1>2, AtThePrompt DEF Commands, Killing
  <2> QED BY <1>1, <1>2, <2>1, ShellMoves DEF ShellPlaces
<1>3. CASE /\ pc' = [pc EXCEPT ![BootStack] = "find_pid"]
           /\ sh' = [sh EXCEPT !.cur = next[p]]
  <2>1. sh'.op = sh.op /\ sh'.target = sh.target
    BY <1>3 DEF TypeInv, TypeOK, Locals
  <2>2. CommandAt("find_pid", sh')
    BY <1>1, <2>1 DEF Commands, CommandAt, Creating, Filling, Killing
  <2> QED BY <1>1, <1>3, <2>2, ShellMoves DEF ShellPlaces
<1>4. CASE /\ p # NULL /\ pid[p] = sh.target
           /\ pc' = [pc EXCEPT ![BootStack] = "mark_dead"]
           /\ sh' = [sh EXCEPT !.slot = p, !.cur = NULL]
  <2>1. p \in Slots /\ sh'.op = sh.op /\ sh'.slot = p /\ sh'.target = sh.target
    BY <1>0, <1>4 DEF TypeInv, TypeOK, Locals, Pointers
  <2>2. p \in Pcbs /\ pid[p] # 0
    BY <1>0, <1>1, <1>4, <2>1 DEF FindsProcess, Stacks
  <2>3. CommandAt("mark_dead", sh')
    BY <1>1, <1>4, <2>1, <2>2 DEF Commands, CommandAt, Creating, Filling, Killing
  <2> QED BY <1>1, <1>4, <2>3, ShellMoves DEF ShellPlaces
<1> QED BY <1>0, <1>2, <1>3, <1>4 DEF find_pid, ShellGoto, Goto

\* ... and marks it: it is not idle's where there are threads.
LEMMA MarkKeepsSlots ==
    ASSUME KernelInv, CarefulKills, mark_dead
    PROVE  SlotInv'
<1> USE ConstantFacts, SlotFacts DEF KernelInv, SlotInv
<1>0. PICK p : p = sh.slot
  OBVIOUS
<1>1. /\ pc[BootStack] = "mark_dead" /\ cpu = BootStack
      /\ pc' = [pc EXCEPT ![BootStack] = "dequeue"]
      /\ state' = [state EXCEPT ![p] = "DEAD"]
      /\ UNCHANGED <<pid, esp, stack_base, current_pcb, pmm_used, cpu, waiters, wait_next, next_pid, sh>>
  BY <1>0 DEF mark_dead, ShellGoto, Goto, Executes
<1>2. /\ p \in Pcbs /\ stack_base[p] # NULL /\ pid[p] # 0 /\ pid[p] \in KillTargets
      /\ sh.op = "killprocess"
  BY <1>0, <1>1 DEF Commands, CommandAt, Stacks
<1>3. ~NoThreads => p # idle_pcb
  BY <1>1, <1>2 DEF CarefulKills, NoThreads, IdleStays
<1>4. /\ ~Live(p)'
      /\ \A x \in Slots : x # p => (Live(x)' <=> Live(x)) /\ state'[x] = state[x]
  BY <1>1, <1>2 DEF Live, TypeInv, TypeOK
<1>5. Parked' = Parked
  <2>1. pc[cpu] # "push" /\ pc'[cpu] # "push"
    BY <1>1 DEF TypeInv, TypeOK, ShellLocals, ShellPlaces
  <2>2. \A x \in Tcbs : state'[x] = state[x]
    BY <1>2, <1>4
  <2> QED BY <1>1, <2>1, <2>2 DEF Parked
<1>6. pc'[BootStack] = "dequeue" /\ \A s \in Pages \ {BootStack} : pc'[s] = pc[s]
  BY <1>1 DEF TypeInv, TypeOK
<1>7. \A x : stack_base[x] # NULL /\ x \in Slots => stack_base[x] \in Pages \ {BootStack}
  BY DEF TypeInv, TypeOK
<1>8. Stacks'
  BY <1>1, <1>2, <1>4 DEF Stacks
<1>9. Commands'
  BY <1>0, <1>1, <1>2, <1>4, <1>6 DEF Commands, CommandAt, Creating, Filling, Killing
<1>10. IdleStays'
  <2>1. \A t \in Tcbs : Live(t)' <=> Live(t)
    BY <1>2, <1>4
  <2> QED BY <1>1, <1>3, <1>4, <1>6, <2>1 DEF IdleStays
<1>11. Code'
  BY <1>1, <1>2, <1>4, <1>6, <1>7 DEF Code, Stacks
<1>12. Contexts'
  BY <1>1, <1>4 DEF Contexts, Live
<1>13. WaitLinks'
  BY <1>1, <1>5 DEF WaitLinks
<1> QED BY <1>8, <1>9, <1>10, <1>11, <1>12, <1>13

\* killthread, where there are no threads, finds none.
LEMMA FindTidKeepsSlots ==
    ASSUME KernelInv, CarefulKills,
           find_tid \/ \E target \in KillTargets : StartKillThread(target)
    PROVE  SlotInv'
<1> USE ConstantFacts, SlotFacts DEF KernelInv, SlotInv
<1>1. /\ cpu = BootStack /\ NoThreads /\ pc[BootStack] \in {"prompt", "find_tid"}
      /\ UNCHANGED <<state, pid, esp, stack_base, current_pcb, pmm_used, cpu, waiters, wait_next, next_pid>>
  BY DEF find_tid, StartKillThread, ShellGoto, Goto, Executes, CarefulKills, NoThreads, Commands, CommandAt
<1>2. \/ pc' = [pc EXCEPT ![BootStack] = "prompt"] /\ sh' = NoLocals
      \/ pc' = [pc EXCEPT ![BootStack] = "find_tid"] /\ sh'.op = "killthread"
      \/ pc' = [pc EXCEPT ![BootStack] = "find_tid"] /\ sh'.op = sh.op
  <2>1. ASSUME NEW target \in KillTargets, StartKillThread(target)
        PROVE  pc' = [pc EXCEPT ![BootStack] = "find_tid"] /\ sh'.op = "killthread"
    BY <2>1 DEF StartKillThread, ShellGoto, Goto, NoLocals
  <2>2. CASE find_tid
    <3>1. sh.slot \in Tcbs \cup {NULL} /\ sh \in Locals
      BY <2>2 DEF find_tid, TypeInv, TypeOK, ShellLocals, ShellGoto, Goto
    <3>2. sh.slot # NULL => state[sh.slot] = "DEAD"
      BY <1>1, <3>1 DEF IdleStays, Live
    <3> QED BY <2>2, <3>1, <3>2 DEF find_tid, ShellGoto, Goto, Locals
  <2> QED BY <2>1, <2>2
<1>3. \/ pc' = [pc EXCEPT ![BootStack] = "prompt"] /\ CommandAt("prompt", sh')
      \/ pc' = [pc EXCEPT ![BootStack] = "find_tid"] /\ CommandAt("find_tid", sh')
  BY <1>1, <1>2 DEF Commands, CommandAt, NoLocals, Creating, Filling, Killing
<1> QED BY <1>1, <1>3, ShellMoves DEF ShellPlaces

\* FillSlot: the new slot gets the page that nobody has.
LEMMA FillKeepsSlots ==
    ASSUME KernelInv, FillSlot
    PROVE  SlotInv'
<1> USE ConstantFacts, SlotFacts DEF KernelInv, SlotInv
<1>0. PICK slot, page, thread : slot = sh.slot /\ page = sh.page /\ thread = (sh.op = "thread")
  OBVIOUS
<1>1. /\ pc[BootStack] = "fill" /\ cpu = BootStack /\ page \in Pages
      /\ state' = [state EXCEPT ![slot] = "READY"]
      /\ esp' = [esp EXCEPT ![slot] = page]
      /\ stack_base' = [stack_base EXCEPT ![slot] = page]
      /\ pid' = [pid EXCEPT ![slot] = IF thread THEN 0 ELSE next_pid + 1]
      /\ next_pid' = IF thread THEN next_pid ELSE next_pid + 1
      /\ wait_next' = IF thread THEN [wait_next EXCEPT ![slot] = NULL] ELSE wait_next
      /\ UNCHANGED <<current_pcb, pmm_used, cpu, waiters>>
  BY <1>0 DEF FillSlot, Executes, TypeInv, TypeOK, Locals
<1>2. /\ slot \in Slots /\ ~Live(slot) /\ page \in pmm_used /\ page # BootStack
      /\ \A x \in Slots : stack_base[x] # page
      /\ ~thread => slot \in Pcbs /\ sh.op = "newprocess"
      /\ thread => slot \in Tcbs /\ sh.op = "thread" /\ ~NoThreads
      /\ \A x \in Slots : ~Live(x) => stack_base[x] = NULL
  BY <1>0, <1>1 DEF Commands, CommandAt, Creating, Filling, Killing
<1>3. /\ pc'[BootStack] \in {"prompt", "set_blocked", "find_tail"}
      /\ pc'[page] = (IF thread THEN "client" ELSE "counter_process")
      /\ \A s \in Pages \ {BootStack, page} : pc'[s] = pc[s]
      /\ pc'[BootStack] = "set_blocked" => ~thread
  BY <1>0, <1>2 DEF FillSlot, TypeInv, TypeOK
<1>4. /\ \/ pc'[BootStack] = "prompt" /\ sh' = NoLocals
         \/ sh'.slot = slot /\ sh'.op = sh.op /\ sh'.target = sh.target
  BY <1>0, <1>2 DEF FillSlot, TypeInv, TypeOK, Locals
<1>5. /\ Live(slot)' /\ state'[slot] = "READY" /\ stack_base'[slot] = page /\ esp'[slot] = page
      /\ \A x \in Slots \ {slot} : /\ (Live(x)' <=> Live(x)) /\ state'[x] = state[x]
                                    /\ stack_base'[x] = stack_base[x] /\ esp'[x] = esp[x]
                                    /\ pid'[x] = pid[x] /\ wait_next'[x] = wait_next[x]
  BY <1>1, <1>2 DEF Live, TypeInv, TypeOK
<1>6. next_pid' >= 1 /\ (pid'[slot] # 0 <=> ~thread)
  BY <1>1, <1>2 DEF TypeInv, TypeOK, IdleStays
<1>7. Parked' = Parked
  <2>1. pc[cpu] # "push" /\ pc'[cpu] # "push"
    BY <1>1, <1>3
  <2>2. slot \notin Parked /\ slot \notin Parked'
    BY <1>2, <1>5 DEF Parked, Live
  <2>3. \A x \in Tcbs : x # slot => state'[x] = state[x]
    BY <1>5
  <2> QED BY <1>1, <2>1, <2>2, <2>3 DEF Parked
<1>8. \A x : stack_base[x] # NULL /\ x \in Slots => stack_base[x] \in Pages \ {BootStack}
  BY DEF TypeInv, TypeOK
<1>9. Stacks'
  <2>1. \A x \in Pcbs : Live(x)' => pid'[x] # 0
    <3>1. \A x \in Pcbs : x # slot => (Live(x)' => pid'[x] # 0)
      BY <1>5 DEF Stacks
    <3>2. slot \in Pcbs => ~thread
      BY <1>2
    <3> QED BY <1>6, <3>1, <3>2
  <2> QED BY <1>1, <1>2, <1>5, <1>6, <2>1 DEF Stacks
<1>10. Commands'
  <2>1. \A x \in Slots : ~Live(x)' => stack_base'[x] = NULL
    BY <1>2, <1>5
  <2>2. NoThreads => sh'.op # "thread"
    BY <1>4 DEF Commands, CommandAt, NoLocals
  <2>3. CASE pc'[BootStack] = "prompt"
    BY <2>1, <2>2, <2>3 DEF Commands, CommandAt, Creating, Filling, Killing
  <2>4. CASE pc'[BootStack] # "prompt"
    BY <1>2, <1>3, <1>4, <1>5, <2>1, <2>2, <2>4 DEF Commands, CommandAt, Creating, Filling, Killing
  <2> QED BY <2>3, <2>4
<1>11. IdleStays'
  <2>1. NoThreads => /\ \A s \in Pages \ {BootStack} : pc'[s] \in ProcessCode
                     /\ \A t \in Tcbs : ~Live(t)'
    BY <1>2, <1>3, <1>5 DEF IdleStays, ProcessCode
  <2>2. ~NoThreads => Live(idle_pcb)' /\ pid'[idle_pcb] = 1
    BY <1>2, <1>5 DEF IdleStays
  <2> QED BY <1>6, <2>1, <2>2 DEF IdleStays
<1>12. Code'
  <2>1. \A x \in Slots : x # slot /\ stack_base[x] # NULL => pc'[stack_base'[x]] = pc[stack_base[x]]
    BY <1>2, <1>3, <1>5, <1>8
  <2>2. pc'[stack_base'[slot]] = IF thread THEN "client" ELSE "counter_process"
    BY <1>3, <1>5
  <2>3. \A x \in Pcbs : stack_base'[x] # NULL => pc'[stack_base'[x]] \in ProcessCode
    BY <1>2, <1>5, <2>1, <2>2 DEF Code, ProcessCode
  <2>4. \A t \in Tcbs : Live(t)' => pc'[stack_base'[t]] \in ThreadCode \ {"exited"}
    BY <1>2, <1>5, <2>1, <2>2 DEF Code, ThreadCode, Stacks
  <2>5. \A t \in Tcbs \ {current_pcb} : Live(t)' =>
            pc'[stack_base'[t]] \in {"client", "test_and_set", "resumed"}
    BY <1>2, <1>5, <2>1, <2>2 DEF Code, Stacks
  <2> QED BY <1>1, <2>3, <2>4, <2>5 DEF Code
<1>13. Contexts'
  BY <1>1, <1>5 DEF Contexts
<1>14. WaitLinks'
  <2>1. \A x \in Parked : wait_next'[x] = wait_next[x]
    BY <1>2, <1>5 DEF Parked, Live
  <2> QED BY <1>1, <1>7, <2>1 DEF WaitLinks, Links
<1> QED BY <1>9, <1>10, <1>11, <1>12, <1>13, <1>14

\* The end of cmd_killprocess: the stack and the number are given back.
LEMMA FreeKeepsSlots ==
    ASSUME KernelInv, FreeStack
    PROVE  SlotInv'
<1> USE ConstantFacts, SlotFacts DEF KernelInv, SlotInv
<1>0. PICK slot : slot = sh.slot
  OBVIOUS
<1>1. /\ pc[BootStack] = "free_stack" /\ cpu = BootStack
      /\ pc' = [pc EXCEPT ![BootStack] = "prompt"]
      /\ pmm_free_page(stack_base[slot])
      /\ stack_base' = [stack_base EXCEPT ![slot] = NULL]
      /\ sh' = NoLocals
      /\ UNCHANGED <<state, esp, current_pcb, cpu, waiters, wait_next, next_pid>>
  BY <1>0 DEF FreeStack, ShellGoto, Goto, Executes
<1>2. slot \in Pcbs /\ ~Live(slot) /\ stack_base[slot] # NULL /\ sh.op = "killprocess"
  BY <1>0, <1>1 DEF Commands, CommandAt, Killing
<1>3. pid' = [pid EXCEPT ![slot] = 0]
  BY <1>0, <1>2 DEF FreeStack
<1>4. pmm_used' = pmm_used \ {stack_base[slot]}
  BY <1>1, <1>2 DEF pmm_free_page, bitmap_test, bitmap_clear, Stacks
<1>5. /\ stack_base'[slot] = NULL /\ pid'[slot] = 0
      /\ \A x \in Slots \ {slot} : stack_base'[x] = stack_base[x] /\ pid'[x] = pid[x]
      /\ \A x \in Slots : Live(x)' <=> Live(x)
  BY <1>1, <1>2, <1>3 DEF Live, TypeInv, TypeOK
<1>6. pc'[BootStack] = "prompt" /\ \A s \in Pages \ {BootStack} : pc'[s] = pc[s]
  BY <1>1 DEF TypeInv, TypeOK
<1>7. \A x : stack_base[x] # NULL /\ x \in Slots => stack_base[x] \in Pages \ {BootStack}
  BY DEF TypeInv, TypeOK
<1>8. Parked' = Parked
  <2>1. pc[cpu] # "push" /\ pc'[cpu] # "push"
    BY <1>1, <1>6
  <2> QED BY <1>1, <2>1 DEF Parked
<1>9. Stacks'
  BY <1>2, <1>4, <1>5 DEF Stacks
<1>10. Commands'
  BY <1>1, <1>5, <1>6, <1>0 DEF Commands, CommandAt, Creating, Filling, Killing, NoLocals
<1>11. IdleStays'
  BY <1>1, <1>2, <1>5, <1>6 DEF IdleStays
<1>12. Code'
  BY <1>1, <1>2, <1>5, <1>6, <1>7 DEF Code, Stacks
<1>13. Contexts'
  BY <1>1, <1>2, <1>5 DEF Contexts
<1>14. WaitLinks'
  BY <1>1, <1>8 DEF WaitLinks
<1> QED BY <1>9, <1>10, <1>11, <1>12, <1>13, <1>14
-----------------------------------------------------------------------------
\* Thread code runs for a thread that is current, on its own stack; there is
\* an idle process to go back to, and its context is on the boot stack.
LEMMA Acting ==
    ASSUME KernelInv, NEW s \in Pages, ThreadStep(s)
    PROVE  /\ s = cpu /\ cpu # BootStack /\ pc[cpu] \in ThreadCode
           /\ current_pcb \in Tcbs /\ current_pcb # idle_pcb
           /\ ~NoThreads /\ Live(idle_pcb) /\ esp[idle_pcb] = BootStack
           /\ pc[cpu] # "exited" => cpu = stack_base[current_pcb] /\ Live(current_pcb)
<1> USE ConstantFacts, SlotFacts DEF KernelInv, SlotInv
<1>1. s = cpu /\ pc[s] \in ThreadCode
  BY DEF ThreadStep, StartLock, StartSpin, YieldInside, YieldOutside, test_and_set,
         mutex_lock_block, mutex_lock_push, mutex_lock_reschedule, mutex_unlock,
         mutex_unlock_wake, process_exit, process_exit_switch, Goto, Executes, Critical, ThreadCode
<1>2. cpu # BootStack
  BY <1>1 DEF TypeInv, ShellLocals
<1>3. ~NoThreads
  BY <1>1, <1>2 DEF IdleStays
<1>4. current_pcb \in Tcbs
  BY <1>1, <1>2 DEF Contexts, TypeInv, TypeOK
<1> QED BY <1>1, <1>2, <1>3, <1>4 DEF IdleStays, Contexts, Live

\* A step of a thread that neither creates nor deletes anything.
LEMMA ThreadFrame ==
    ASSUME KernelInv, cpu # BootStack, current_pcb \in Tcbs, ~NoThreads,
           cpu = stack_base[current_pcb],
           NEW to \in ThreadCode \ {"exited"}, pc' = [pc EXCEPT ![cpu] = to],
           UNCHANGED <<pid, stack_base, pmm_used, sh, next_pid>>,
           \A x \in Slots : Live(x)' <=> Live(x),
           current_pcb' # current_pcb => to \in {"client", "test_and_set", "resumed"}
    PROVE  Stacks' /\ Commands' /\ IdleStays' /\ Code'
<1> USE ConstantFacts, SlotFacts DEF KernelInv, SlotInv
<1>1. pc'[cpu] = to /\ \A s \in Pages : s # cpu => pc'[s] = pc[s]
  BY DEF TypeInv, TypeOK
<1>2. \A x \in Slots : x # current_pcb /\ stack_base[x] # NULL => pc'[stack_base[x]] = pc[stack_base[x]]
  BY <1>1 DEF Stacks, TypeInv, TypeOK
<1>3. Stacks'
  BY DEF Stacks
<1>4. Commands'
  BY <1>1 DEF Commands, CommandAt
<1>5. IdleStays'
  BY DEF IdleStays
<1>6. Code'
  <2>1. \A x \in Pcbs : stack_base[x] # NULL => pc'[stack_base[x]] \in ProcessCode
    BY <1>2 DEF Code
  <2>2. \A t \in Tcbs : Live(t) => pc'[stack_base[t]] \in ThreadCode \ {"exited"}
    BY <1>1, <1>2 DEF Code, Stacks
  <2>3. \A t \in Tcbs \ {current_pcb'} : Live(t) =>
            pc'[stack_base[t]] \in {"client", "test_and_set", "resumed"}
    BY <1>1, <1>2 DEF Code, Stacks
  <2> QED BY <2>1, <2>2, <2>3 DEF Code
<1> QED BY <1>3, <1>4, <1>5, <1>6

\* Thread steps that move on in their code.
LEMMA ThreadMoves ==
    ASSUME KernelInv, NEW s \in Pages, UNCHANGED sh,
           StartLock(s) \/ StartSpin(s) \/ test_and_set(s) \/ mutex_unlock(s)
    PROVE  SlotInv'
<1> USE ConstantFacts, SlotFacts DEF KernelInv, SlotInv
<1>0. /\ s = cpu /\ cpu # BootStack /\ current_pcb \in Tcbs /\ current_pcb # idle_pcb
      /\ ~NoThreads /\ esp[idle_pcb] = BootStack
      /\ pc[cpu] # "exited" => cpu = stack_base[current_pcb]
  BY Acting DEF ThreadStep
<1>1. /\ pc[cpu] \in {"client", "test_and_set", "critical", "resumed"}
      /\ \E to \in {"test_and_set", "spin", "critical", "block", "wake"} :
            pc' = [pc EXCEPT ![cpu] = to]
      /\ UNCHANGED <<state, esp, current_pcb, cpu, pid, stack_base, pmm_used, sh, next_pid,
                     waiters, wait_next>>
  BY <1>0 DEF StartLock, StartSpin, test_and_set, mutex_unlock, Goto, Critical
<1>2. PICK to \in {"test_and_set", "spin", "critical", "block", "wake"} :
            pc' = [pc EXCEPT ![cpu] = to]
  BY <1>1
<1>3. \A x \in Slots : Live(x)' <=> Live(x)
  BY <1>1 DEF Live
<1>4. to \in ThreadCode \ {"exited"} /\ pc'[cpu] = to
  BY <1>2 DEF ThreadCode, TypeInv, TypeOK
<1>5. Stacks' /\ Commands' /\ IdleStays' /\ Code'
  BY <1>0, <1>1, <1>2, <1>3, <1>4, ThreadFrame
<1>6. Contexts'
  BY <1>0, <1>1, <1>2, <1>3, <1>4 DEF Contexts
<1>7. WaitLinks'
  <2>1. Parked' = Parked
    BY <1>1, <1>4 DEF Parked
  <2> QED BY <1>1, <2>1 DEF WaitLinks
<1> QED BY <1>5, <1>6, <1>7

\* mutex_lock: a thread that has to wait is BLOCKED before it is linked.
LEMMA BlockingKeepsSlots ==
    ASSUME KernelInv, NEW s \in Pages, UNCHANGED sh, mutex_lock_block(s)
    PROVE  SlotInv'
<1> USE ConstantFacts, SlotFacts DEF KernelInv, SlotInv
<1>0. /\ s = cpu /\ cpu # BootStack /\ current_pcb \in Tcbs /\ current_pcb # idle_pcb
      /\ ~NoThreads /\ esp[idle_pcb] = BootStack /\ pc[cpu] = "block"
      /\ cpu = stack_base[current_pcb] /\ state[current_pcb] = "RUNNING"
  BY Acting DEF ThreadStep, mutex_lock_block, Goto, Contexts
<1>1. /\ pc' = [pc EXCEPT ![cpu] = "push"]
      /\ state' = [state EXCEPT ![current_pcb] = "BLOCKED"]
      /\ UNCHANGED <<esp, current_pcb, cpu, pid, stack_base, pmm_used, sh, next_pid,
                     waiters, wait_next>>
  BY <1>0 DEF mutex_lock_block, Goto
<1>2. /\ state'[current_pcb] = "BLOCKED" /\ pc'[cpu] = "push"
      /\ \A x \in Slots \ {current_pcb} : state'[x] = state[x]
  BY <1>0, <1>1 DEF TypeInv, TypeOK
<1>3. \A x \in Slots : Live(x)' <=> Live(x)
  BY <1>0, <1>2 DEF Live
<1>4. Stacks' /\ Commands' /\ IdleStays' /\ Code'
  <2>1. "push" \in ThreadCode \ {"exited"}
    BY DEF ThreadCode
  <2> QED BY <1>0, <1>1, <1>3, <2>1, ThreadFrame
<1>5. Contexts'
  BY <1>0, <1>1, <1>2, <1>3 DEF Contexts, ThreadCode
<1>6. WaitLinks'
  <2>1. Parked' = Parked
    BY <1>0, <1>1, <1>2 DEF Parked
  <2> QED BY <1>1, <2>1 DEF WaitLinks
<1> QED BY <1>4, <1>5, <1>6

\* mutex_lock: the thread goes in front of the wait list.
LEMMA PushKeepsSlots ==
    ASSUME KernelInv, NEW s \in Pages, UNCHANGED sh, mutex_lock_push(s)
    PROVE  SlotInv'
<1> USE ConstantFacts, SlotFacts DEF KernelInv, SlotInv
<1>0. /\ s = cpu /\ cpu # BootStack /\ current_pcb \in Tcbs /\ current_pcb # idle_pcb
      /\ ~NoThreads /\ esp[idle_pcb] = BootStack /\ pc[cpu] = "push"
      /\ cpu = stack_base[current_pcb] /\ state[current_pcb] = "BLOCKED"
  BY Acting DEF ThreadStep, mutex_lock_push, Goto, Contexts
<1>1. /\ pc' = [pc EXCEPT ![cpu] = "reschedule"]
      /\ wait_next' = [wait_next EXCEPT ![current_pcb] = waiters]
      /\ waiters' = current_pcb
      /\ UNCHANGED <<state, esp, current_pcb, cpu, pid, stack_base, pmm_used, sh, next_pid>>
  BY <1>0 DEF mutex_lock_push, Goto
<1>2. /\ wait_next'[current_pcb] = waiters /\ pc'[cpu] = "reschedule"
      /\ \A x \in Slots \ {current_pcb} : wait_next'[x] = wait_next[x]
  BY <1>0, <1>1 DEF TypeInv, TypeOK
<1>3. \A x \in Slots : Live(x)' <=> Live(x)
  BY <1>1 DEF Live
<1>4. Stacks' /\ Commands' /\ IdleStays' /\ Code'
  <2>1. "reschedule" \in ThreadCode \ {"exited"}
    BY DEF ThreadCode
  <2> QED BY <1>0, <1>1, <1>3, <2>1, ThreadFrame
<1>5. Contexts'
  BY <1>0, <1>1, <1>2, <1>3 DEF Contexts, ThreadCode
<1>6. WaitLinks'
  <2>1. current_pcb \notin Parked /\ Parked' = Parked \cup {current_pcb}
    BY <1>0, <1>1, <1>2 DEF Parked
  <2>2. Parked \subseteq Slots \ {current_pcb}
    BY <2>1 DEF Parked
  <2>3. current_pcb # NULL
    BY DEF TypeInv, TypeOK
  <2> QED BY <1>1, <1>2, <2>1, <2>2, <2>3, LinkPush DEF WaitLinks
<1> QED BY <1>4, <1>5, <1>6

\* mutex_unlock: the thread that it wakes is alive, and READY from then on.
LEMMA WakeKeepsSlots ==
    ASSUME KernelInv, NEW s \in Pages, UNCHANGED sh, mutex_unlock_wake(s)
    PROVE  SlotInv'
<1> USE ConstantFacts, SlotFacts DEF KernelInv, SlotInv
<1>0. /\ s = cpu /\ cpu # BootStack /\ current_pcb \in Tcbs /\ current_pcb # idle_pcb
      /\ ~NoThreads /\ esp[idle_pcb] = BootStack /\ pc[cpu] = "wake"
      /\ cpu = stack_base[current_pcb] /\ state[current_pcb] = "RUNNING"
  BY Acting DEF ThreadStep, mutex_unlock_wake, Goto, Contexts
<1>1. /\ pc' = [pc EXCEPT ![cpu] = "rest"]
      /\ UNCHANGED <<esp, current_pcb, cpu, pid, stack_base, pmm_used, sh, next_pid>>
  BY <1>0 DEF mutex_unlock_wake, Goto
<1>2. "rest" \in ThreadCode \ {"exited"} /\ pc'[cpu] = "rest"
  BY <1>1 DEF ThreadCode, TypeInv, TypeOK
<1>3. CASE waiters = NULL /\ UNCHANGED <<waiters, wait_next, state>>
  <2>1. \A x \in Slots : Live(x)' <=> Live(x)
    BY <1>3 DEF Live
  <2>2. Stacks' /\ Commands' /\ IdleStays' /\ Code'
    BY <1>0, <1>1, <1>2, <2>1, ThreadFrame
  <2>3. Contexts'
    BY <1>0, <1>1, <1>2, <1>3, <2>1 DEF Contexts
  <2>4. Parked' = Parked
    BY <1>0, <1>1, <1>2, <1>3 DEF Parked
  <2>5. WaitLinks'
    BY <1>3, <2>4 DEF WaitLinks
  <2> QED BY <2>2, <2>3, <2>5
<1>4. CASE /\ waiters # NULL /\ waiters' = wait_next[waiters]
           /\ wait_next' = [wait_next EXCEPT ![waiters] = NULL]
           /\ state' = [state EXCEPT ![waiters] = "READY"]
  <2>0. PICK w : w = waiters
    OBVIOUS
  <2>1. w \in Parked /\ w \in Slots /\ w # current_pcb /\ state[w] = "BLOCKED"
    BY <1>0, <1>4, <2>0 DEF WaitLinks, Links, Parked
  <2>2. state'[w] = "READY" /\ \A x \in Slots \ {w} : state'[x] = state[x] /\ wait_next'[x] = wait_next[x]
    BY <1>4, <2>0, <2>1 DEF TypeInv, TypeOK
  <2>3. \A x \in Slots : Live(x)' <=> Live(x)
    BY <2>1, <2>2 DEF Live
  <2>4. Stacks' /\ Commands' /\ IdleStays' /\ Code'
    BY <1>0, <1>1, <1>2, <2>3, ThreadFrame
  <2>5. Contexts'
    BY <1>0, <1>1, <1>2, <2>1, <2>2, <2>3 DEF Contexts
  <2>6. Parked' = Parked \ {w}
    BY <1>0, <1>1, <1>2, <2>1, <2>2 DEF Parked
  <2>7. WaitLinks'
    <3>1. \A y \in Parked \ {w} : wait_next'[y] = wait_next[y]
      BY <2>2 DEF Parked
    <3>2. Links(Parked \ {w}, wait_next[w], wait_next')
      BY <1>4, <2>0, <3>1, LinkPop DEF WaitLinks
    <3> QED BY <1>4, <2>0, <2>6, <3>2 DEF WaitLinks
  <2> QED BY <2>4, <2>5, <2>7
<1> QED BY <1>3, <1>4 DEF mutex_unlock_wake

\* process_exit: the thread gives its stack back, and still runs on it.
LEMMA ExitKeepsSlots ==
    ASSUME KernelInv, NEW s \in Pages, UNCHANGED sh, process_exit(s)
    PROVE  SlotInv'
<1> USE ConstantFacts, SlotFacts DEF KernelInv, SlotInv
<1>0. /\ s = cpu /\ cpu # BootStack /\ current_pcb \in Tcbs /\ current_pcb # idle_pcb
      /\ ~NoThreads /\ esp[idle_pcb] = BootStack /\ pc[cpu] \in {"client", "rest"}
      /\ cpu = stack_base[current_pcb] /\ state[current_pcb] = "RUNNING"
  BY Acting DEF ThreadStep, process_exit, Goto, Contexts
<1>1. PICK t, page : t = current_pcb /\ page = cpu
  OBVIOUS
<1>2. /\ pc' = [pc EXCEPT ![page] = "exited"]
      /\ state' = [state EXCEPT ![t] = "DEAD"]
      /\ pmm_free_page(page)
      /\ pid' = [pid EXCEPT ![t] = 0]
      /\ stack_base' = [stack_base EXCEPT ![t] = NULL]
      /\ esp' = [esp EXCEPT ![t] = NULL]
      /\ UNCHANGED <<current_pcb, cpu, sh, next_pid, waiters, wait_next>>
  BY <1>0, <1>1 DEF process_exit, Goto
<1>3. /\ page \in pmm_used /\ page \in Pages /\ page # BootStack
      /\ \A x \in Slots \ {t} : stack_base[x] # page
  BY <1>0, <1>1 DEF Stacks, Live, TypeInv, TypeOK
<1>4. pmm_used' = pmm_used \ {page}
  BY <1>2, <1>3 DEF pmm_free_page, bitmap_test, bitmap_clear
<1>5. /\ ~Live(t)' /\ state'[t] = "DEAD" /\ stack_base'[t] = NULL /\ pid'[t] = 0
      /\ \A x \in Slots \ {t} : /\ (Live(x)' <=> Live(x)) /\ state'[x] = state[x]
                                 /\ stack_base'[x] = stack_base[x] /\ pid'[x] = pid[x]
                                 /\ esp'[x] = esp[x]
  BY <1>0, <1>1, <1>2 DEF Live, TypeInv, TypeOK
<1>6. pc'[page] = "exited" /\ \A r \in Pages : r # page => pc'[r] = pc[r]
  BY <1>2, <1>3 DEF TypeInv, TypeOK
<1>7. Stacks'
  BY <1>0, <1>1, <1>3, <1>4, <1>5 DEF Stacks
<1>8. Commands'
  <2>0. PICK at, c : at = pc[BootStack] /\ c = sh
    OBVIOUS
  <2>1. CommandAt(at, c) /\ pc'[BootStack] = at /\ sh' = c
    BY <1>2, <1>3, <1>6, <2>0 DEF Commands
  <2>2. \A x \in Slots : ~Live(x)' /\ stack_base'[x] # NULL =>
           at \in Killing /\ x = c.slot
    BY <1>1, <1>5, <2>1 DEF CommandAt
  <2>3. Live(t) /\ t \in Tcbs /\ t \in Slots /\ stack_base[t] = page
    BY <1>0, <1>1 DEF Live
  <2>4. at \in Creating => c.slot \in Slots /\ ~Live(c.slot)'
    BY <1>5, <2>1 DEF CommandAt
  <2>5. at \in {"store_word", "fill"} => c.page # BootStack /\ \A x \in Slots : stack_base'[x] # c.page
    BY <1>5, <2>1 DEF CommandAt
  <2>6. /\ at = "store_word" => pmm_used' \cap WordOf(c.page) \subseteq c.word
        /\ at = "fill" => c.page \in pmm_used'
    BY <1>4, <2>1, <2>3 DEF CommandAt
  <2>7. /\ at \in Killing => c.slot \in Slots /\ c.slot # t
        /\ at \in Filling /\ c.op = "newprocess" => c.slot \in Slots /\ c.slot # t
    BY <2>1, <2>3 DEF CommandAt
  <2>8. at = "mark_dead" => c.slot \in Pcbs /\ pid'[c.slot] = pid[c.slot]
    BY <1>5, <2>1, <2>3 DEF CommandAt
  <2>9. CommandAt(at, c)'
    BY <1>5, <2>1, <2>2, <2>4, <2>5, <2>6, <2>7, <2>8 DEF CommandAt
  <2> QED BY <2>1, <2>9 DEF Commands
<1>9. IdleStays'
  BY <1>0, <1>1, <1>2, <1>5 DEF IdleStays
<1>10. Code'
  <2>1. \A x \in Slots \ {t} : stack_base[x] # NULL => pc'[stack_base'[x]] = pc[stack_base[x]]
    BY <1>3, <1>5, <1>6 DEF TypeInv, TypeOK
  <2> QED BY <1>0, <1>1, <1>2, <1>5, <2>1 DEF Code, Stacks
<1>11. Contexts'
  BY <1>0, <1>1, <1>2, <1>5, <1>6 DEF Contexts, ThreadCode
<1>12. WaitLinks'
  <2>1. Parked' = Parked
    BY <1>0, <1>1, <1>2, <1>5, <1>6 DEF Parked
  <2> QED BY <1>2, <2>1 DEF WaitLinks
<1> QED BY <1>7, <1>8, <1>9, <1>10, <1>11, <1>12

\* process_exit: back to idle_pcb, whose context is on the boot stack.
LEMMA ExitSwitchKeepsSlots ==
    ASSUME KernelInv, NEW s \in Pages, UNCHANGED sh, process_exit_switch(s)
    PROVE  SlotInv'
<1> USE ConstantFacts, SlotFacts DEF KernelInv, SlotInv
<1>0. /\ s = cpu /\ cpu # BootStack /\ current_pcb \in Tcbs /\ current_pcb # idle_pcb
      /\ ~NoThreads /\ esp[idle_pcb] = BootStack /\ pc[cpu] = "exited"
      /\ Live(idle_pcb) /\ state[current_pcb] = "DEAD"
  BY Acting DEF ThreadStep, process_exit_switch, Contexts
<1>1. PICK t : t = current_pcb
  OBVIOUS
<1>2. /\ current_pcb' = idle_pcb /\ cpu' = BootStack
      /\ state' = [state EXCEPT ![idle_pcb] = "RUNNING"]
      /\ esp' = [esp EXCEPT ![t] = cpu]
      /\ UNCHANGED <<pid, stack_base, pmm_used, sh, next_pid, waiters, wait_next, pc>>
  BY <1>0, <1>1 DEF process_exit_switch, context_switch
<1>3. /\ \A x \in Slots : Live(x)' <=> Live(x)
      /\ \A x \in Slots \ {idle_pcb} : state'[x] = state[x]
      /\ \A x \in Slots \ {t} : esp'[x] = esp[x]
  BY <1>0, <1>2 DEF Live, TypeInv, TypeOK
<1>4. Stacks'
  BY <1>2, <1>3 DEF Stacks
<1>5. Commands'
  BY <1>2, <1>3 DEF Commands, CommandAt
<1>6. IdleStays'
  BY <1>2, <1>3 DEF IdleStays
<1>7. Code'
  BY <1>0, <1>1, <1>2, <1>3 DEF Code, Live
<1>8. Contexts'
  BY <1>0, <1>1, <1>2, <1>3 DEF Contexts, Live
<1>9. WaitLinks'
  <2>1. pc[BootStack] # "push"
    BY DEF TypeInv, ShellLocals, ShellPlaces
  <2>2. Parked' = Parked
    BY <1>0, <1>1, <1>2, <1>3, <2>1 DEF Parked
  <2> QED BY <1>2, <2>2 DEF WaitLinks
<1> QED BY <1>4, <1>5, <1>6, <1>7, <1>8, <1>9
-----------------------------------------------------------------------------
\* schedule() chooses a READY slot, or idle_pcb.
LEMMA ScheduledIsReady ==
    ScheduledNext \in Slots /\ (state[ScheduledNext] = "READY" \/ ScheduledNext = idle_pcb)
<1> DEFINE walk == ScanWalk
           found == {x \in Slots : \E n \in DOMAIN walk : walk[n] = x /\ StopsAt(walk, n)}
<1>1. ScheduledNext = IF found # {} THEN CHOOSE x \in found : TRUE ELSE idle_pcb
  BY DEF ScheduledNext
<1> HIDE DEF walk
<1>2. \A x \in found : state[x] = "READY"
  BY DEF StopsAt, Ready
<1>3. found # {} => (CHOOSE x \in found : TRUE) \in found
  OBVIOUS
<1>4. found \subseteq Slots
  OBVIOUS
<1> HIDE DEF found
<1> QED BY <1>1, <1>2, <1>3, <1>4, ConstantFacts

\* A context switch: from the boot context, which a tick interrupts, or from
\* a thread that has called schedule().
LEMMA SwitchKeepsSlots ==
    ASSUME KernelInv, NEW new \in Slots, new # current_pcb,
           state[new] = "READY" \/ (new = idle_pcb /\ Live(idle_pcb)),
           state' = [state EXCEPT ![current_pcb] =
                         IF state[current_pcb] = "RUNNING" THEN "READY" ELSE state[current_pcb],
                     ![new] = "RUNNING"],
           current_pcb' = new, context_switch(current_pcb, new),
           UNCHANGED <<pid, stack_base, pmm_used, sh, next_pid, waiters, wait_next>>,
           \/ cpu = BootStack /\ UNCHANGED pc
           \/ /\ cpu # BootStack /\ current_pcb \in Tcbs /\ ~NoThreads
              /\ pc[cpu] \in {"critical", "rest", "reschedule"}
              /\ \E to \in {"client", "test_and_set", "resumed"} : pc' = [pc EXCEPT ![cpu] = to]
    PROVE  SlotInv'
<1> USE ConstantFacts, SlotFacts DEF KernelInv, SlotInv
<1>1. PICK old : old = current_pcb
  OBVIOUS
<1>2. /\ old \in Slots /\ esp' = [esp EXCEPT ![old] = cpu] /\ cpu' = esp[new]
      /\ state'[new] = "RUNNING" /\ state'[old] \in {"READY", state[old]} /\ state'[old] # "RUNNING"
      /\ (state'[old] = "READY" /\ state[old] # "READY") => state[old] = "RUNNING"
      /\ \A x \in Slots \ {old, new} : state'[x] = state[x]
  BY <1>1 DEF context_switch, TypeInv, TypeOK
<1>3. \A x \in Slots : Live(x)' <=> Live(x)
  BY <1>2 DEF Live
<1>4. /\ cpu = BootStack => old = idle_pcb /\ UNCHANGED pc
      /\ cpu # BootStack => cpu = stack_base[old] /\ old \in Tcbs /\ esp[idle_pcb] = BootStack
  BY <1>1 DEF Contexts
<1>5. new # idle_pcb => /\ esp[new] = stack_base[new] /\ stack_base[new] # NULL
                        /\ stack_base[new] # cpu /\ stack_base[new] \in Pages
  BY <1>1, <1>4 DEF Contexts, Live, Stacks, TypeInv, TypeOK
<1>6. new = idle_pcb => cpu # BootStack /\ cpu' = BootStack
  BY <1>1, <1>2, <1>4
<1>7. /\ \A r \in Pages : r # cpu => pc'[r] = pc[r]
      /\ pc'[BootStack] = pc[BootStack] /\ pc[BootStack] \in ShellPlaces
      /\ cpu # BootStack => pc'[cpu] \in {"client", "test_and_set", "resumed"}
  BY DEF TypeInv, TypeOK, ShellLocals
<1>8. /\ new \in Pcbs \ {idle_pcb} => pc'[cpu'] \in ProcessCode
      /\ new \in Tcbs => pc'[cpu'] \in {"client", "test_and_set", "resumed"}
  BY <1>1, <1>2, <1>5, <1>7 DEF Code, Live
<1>9. pc'[cpu'] \notin {"push", "reschedule", "exited"}
  <2>1. new = idle_pcb => pc'[cpu'] \in ShellPlaces
    BY <1>6, <1>7
  <2> QED BY <1>8, <2>1 DEF ProcessCode, ShellPlaces
<1>10. Stacks' /\ Commands' /\ IdleStays' /\ Code'
  <2>1. CASE cpu = BootStack
    <3>1. UNCHANGED pc
      BY <1>4, <2>1
    <3>2. Stacks'
      BY <1>3 DEF Stacks
    <3>3. Commands'
      BY <1>3, <3>1 DEF Commands, CommandAt
    <3>4. IdleStays'
      BY <1>3, <3>1 DEF IdleStays
    <3>5. Code'
      BY <1>1, <1>3, <1>4, <2>1, <3>1 DEF Code
    <3> QED BY <3>2, <3>3, <3>4, <3>5
  <2>2. CASE cpu # BootStack
    <3>1. PICK to \in {"client", "test_and_set", "resumed"} : pc' = [pc EXCEPT ![cpu] = to]
      BY <2>2
    <3>2. to \in ThreadCode \ {"exited"}
      BY DEF ThreadCode
    <3> QED BY <1>1, <1>3, <1>4, <2>2, <3>1, <3>2, ThreadFrame
  <2> QED BY <2>1, <2>2
<1>11. Contexts'
  <2>1. cpu' = BootStack <=> new = idle_pcb
    BY <1>2, <1>5, <1>6
  <2>2. \A x \in Slots : x # old => esp'[x] = esp[x]
    BY <1>2 DEF TypeInv, TypeOK
  <2>3. new # idle_pcb => esp'[idle_pcb] = BootStack
    BY <1>1, <1>2, <1>4, <2>2 DEF TypeInv, TypeOK
  <2>4. new \in Tcbs => pc'[cpu'] \in ThreadCode
    BY <1>8 DEF ThreadCode
  <2>5. \A x \in Slots \ {idle_pcb, new} : Live(x) => esp'[x] = stack_base[x]
    BY <1>1, <1>2, <1>4, <2>2 DEF Contexts, TypeInv, TypeOK
  <2>6. \A x \in Slots : state'[x] = "RUNNING" => x = new
    BY <1>1, <1>2 DEF Contexts
  <2> QED BY <1>2, <1>3, <1>5, <1>8, <1>9, <2>1, <2>3, <2>4, <2>5, <2>6 DEF Contexts
<1>12. WaitLinks'
  <2>1. pc[cpu] # "push"
    BY <1>7 DEF ShellPlaces
  <2>2. \A t \in Tcbs : state'[t] = "BLOCKED" <=> state[t] = "BLOCKED"
    BY <1>2
  <2>3. Parked' = Parked
    BY <1>9, <2>1, <2>2 DEF Parked
  <2> QED BY <2>3 DEF WaitLinks
<1> QED BY <1>10, <1>11, <1>12

\* A tick interrupts the boot context alone.
LEMMA TickKeepsSlots ==
    ASSUME KernelInv, Tick
    PROVE  SlotInv'
<1> USE ConstantFacts, SlotFacts
<1>1. cpu = BootStack /\ current_pcb = idle_pcb
  BY DEF KernelInv, SlotInv, Contexts, InterruptShield, Tick, TimerIrq
<1>2. schedule /\ UNCHANGED <<pid, stack_base, pmm_used, sh, next_pid, waiters, wait_next, pc>>
  BY DEF Tick, TimerIrq
<1>3. PICK new : new = ScheduledNext
  OBVIOUS
<1>4. new \in Slots /\ (new # current_pcb => state[new] = "READY")
  BY <1>1, <1>3, ScheduledIsReady
<1>5. CASE UNCHANGED <<state, esp, cpu, current_pcb>>
  BY <1>2, <1>5 DEF KernelInv, SlotInv, Stacks, Commands, CommandAt, IdleStays, Code, Contexts,
                    WaitLinks, Links, Parked, Live
<1>6. CASE /\ new # current_pcb
           /\ state' = [state EXCEPT ![current_pcb] =
                            IF state[current_pcb] = "RUNNING" THEN "READY"
                            ELSE state[current_pcb],
                        ![new] = "RUNNING"]
           /\ current_pcb' = new
           /\ context_switch(current_pcb, new)
  BY <1>1, <1>2, <1>4, <1>6, SwitchKeepsSlots
<1> QED BY <1>2, <1>3, <1>5, <1>6 DEF schedule

\* A thread that calls schedule() always gives the CPU away.
LEMMA YieldKeepsSlots ==
    ASSUME KernelInv, NEW s \in Pages, UNCHANGED sh,
           YieldInside(s) \/ YieldOutside(s) \/ mutex_lock_reschedule(s)
    PROVE  SlotInv'
<1> USE ConstantFacts, SlotFacts
<1>1. /\ s = cpu /\ cpu # BootStack /\ current_pcb \in Tcbs /\ current_pcb # idle_pcb
      /\ ~NoThreads /\ Live(idle_pcb)
  BY Acting DEF ThreadStep
<1>2. /\ schedule /\ UNCHANGED <<pid, stack_base, pmm_used, sh, next_pid, waiters, wait_next>>
      /\ pc[cpu] \in {"critical", "rest", "reschedule"}
      /\ \E to \in {"client", "test_and_set", "resumed"} : pc' = [pc EXCEPT ![cpu] = to]
  BY <1>1 DEF YieldInside, YieldOutside, mutex_lock_reschedule, Goto
<1>3. PICK new : new = ScheduledNext
  OBVIOUS
<1>4. new \in Slots /\ (state[new] = "READY" \/ new = idle_pcb)
  BY <1>3, ScheduledIsReady
<1>5. new # current_pcb
  BY <1>1, <1>2, <1>4 DEF KernelInv, SlotInv, Contexts
<1>6. /\ state' = [state EXCEPT ![current_pcb] =
                       IF state[current_pcb] = "RUNNING" THEN "READY"
                       ELSE state[current_pcb],
                   ![new] = "RUNNING"]
      /\ current_pcb' = new
      /\ context_switch(current_pcb, new)
  BY <1>2, <1>3, <1>5 DEF schedule
<1> QED BY <1>1, <1>2, <1>4, <1>5, <1>6, SwitchKeepsSlots

\* Every step keeps stacks and contexts, if kills are of processes.
LEMMA StepSlots ==
    ASSUME KernelInv, CarefulKills, FindsProcess, [Next]_kernelVars
    PROVE  SlotInv'
<1>1. CASE Tick
  BY <1>1, TickKeepsSlots
<1>2. CASE Return \/ UNCHANGED kernelVars
  BY <1>2 DEF Return, IsrReturn, KernelInv, SlotInv, Stacks, Commands, CommandAt, IdleStays, Code,
              Contexts, WaitLinks, Links, Parked, Live
<1>3. CASE ThreadRuns
  <2>1. PICK s \in Pages : ThreadStep(s) /\ UNCHANGED sh
    BY <1>3 DEF ThreadRuns
  <2> QED BY <2>1, ThreadMoves, BlockingKeepsSlots, PushKeepsSlots, WakeKeepsSlots, ExitKeepsSlots,
             ExitSwitchKeepsSlots, YieldKeepsSlots DEF ThreadStep
<1>4. CASE StartCommand
  BY <1>4, MovesKeepSlots, FindTidKeepsSlots DEF StartCommand, Moves
<1>5. CASE CommandStep
  BY <1>5, MovesKeepSlots, StoreKeepsSlots, FillKeepsSlots, BlockKeepsSlots, FindKeepsSlots,
     FindTidKeepsSlots, MarkKeepsSlots, FreeKeepsSlots DEF CommandStep, Moves
<1> QED BY <1>1, <1>2, <1>3, <1>4, <1>5 DEF Next

\* What the invariant says of the properties that the runs check.
LEMMA SlotsMean == KernelInv => StacksOwned /\ ContextsKept /\ RunningIsCurrent
<1> SUFFICES ASSUME KernelInv PROVE StacksOwned /\ ContextsKept /\ RunningIsCurrent
  OBVIOUS
<1>1. StacksOwned
  BY SlotFacts DEF KernelInv, SlotInv, Stacks, StacksOwned
<1>2. cpu # BootStack => ~isr[cpu]
  BY DEF KernelInv, InterruptShield, TypeInv, TypeOK
<1>3. ContextsKept
  BY <1>2 DEF KernelInv, SlotInv, Contexts, ContextsKept, Exiting, Executes
<1>4. current_pcb = idle_pcb \/ cpu # BootStack
  BY DEF KernelInv, SlotInv, Contexts
<1>5. RunningIsCurrent
  BY <1>2, <1>4 DEF KernelInv, SlotInv, Contexts, RunningIsCurrent, Exiting, Executes, Ready
<1> QED BY <1>1, <1>3, <1>5
=============================================================================
