------------------------------ MODULE Threads ------------------------------
(***************************************************************************)
(* Kernel threads and the mutex: src/thread.c, src/mutex.c and             *)
(* process_exit.  The threads are clients of these two files: they lock,   *)
(* give the CPU up inside or outside the critical section, unlock, exit,   *)
(* or compute forever, as far as ThreadOps allows.  Threads run with the   *)
(* interrupt flag they are started with; no code of theirs changes it.     *)
(***************************************************************************)
EXTENDS Scheduler

CONSTANT ThreadOps    \* what thread bodies do: "lock", "exit", "spin"

ASSUME ThreadOpsAssumption == ThreadOps \subseteq {"lock", "exit", "spin"}

VARIABLES
    tid, wait_next,   \* the fields of each tcb_t behind its pcb_t
    next_tid,
    lock, waiters     \* the mutex_t that the threads share

mutexVars  == <<lock, waiters, wait_next>>
threadVars == <<tid, next_tid, mutexVars>>

\* What the code of a thread, started by "ret", may leave alone.
frameVars == <<pid, stack_base, queueVars, next_pid, pmmVars, trapVars, tid, next_tid>>

\* The places of a thread's code between mutex_lock's return and its unlock.
Critical == {"critical", "resumed"}

\* The thread on stack s moves on from one place to the next.
Goto(s, from, to) ==
    /\ Executes(s) /\ pc[s] = from
    /\ pc' = [pc EXCEPT ![s] = to]
-----------------------------------------------------------------------------
\* The client: a thread between two uses of the mutex.
StartLock(s) ==
    /\ "lock" \in ThreadOps
    /\ Goto(s, "client", "test_and_set")
    /\ UNCHANGED <<state, esp, current_pcb, cpu, frameVars, mutexVars>>

StartSpin(s) ==
    /\ "spin" \in ThreadOps
    /\ Goto(s, "client", "spin")
    /\ UNCHANGED <<state, esp, current_pcb, cpu, frameVars, mutexVars>>

\* A critical section that calls schedule() before it ends.
YieldInside(s) ==
    /\ Goto(s, "critical", "resumed")
    /\ schedule
    /\ UNCHANGED <<frameVars, mutexVars>>

\* A thread gives the CPU up after each critical section.
YieldOutside(s) ==
    /\ Goto(s, "rest", "client")
    /\ schedule
    /\ UNCHANGED <<frameVars, mutexVars>>
-----------------------------------------------------------------------------
\* Mutant: an atomic increment in place of the exchange.
test_and_set_increments(s) ==
    /\ Goto(s, "test_and_set", IF lock = 0 THEN "critical" ELSE "block")
    /\ lock' = lock + 1
    /\ UNCHANGED <<state, esp, current_pcb, cpu, frameVars, waiters, wait_next>>

\* mutex_lock, the loop test: xchg is one instruction.
test_and_set(s) ==
    /\ Goto(s, "test_and_set", IF lock = 0 THEN "critical" ELSE "block")
    /\ lock' = 1
    /\ UNCHANGED <<state, esp, current_pcb, cpu, frameVars, waiters, wait_next>>

\* mutex_lock: the lock was held; cur->state = PROCESS_BLOCKED.
mutex_lock_block(s) ==
    /\ Goto(s, "block", "push")
    /\ state' = [state EXCEPT ![current_pcb] = "BLOCKED"]
    /\ UNCHANGED <<esp, current_pcb, cpu, frameVars, mutexVars>>

\* Mutant: the new waiter is not linked to the ones that wait already.
mutex_lock_push_unlinked(s) ==
    /\ Goto(s, "push", "reschedule")
    /\ wait_next' = [wait_next EXCEPT ![current_pcb] = NULL]
    /\ waiters' = current_pcb
    /\ UNCHANGED <<state, esp, current_pcb, cpu, frameVars, lock>>

\* mutex_lock: the thread is pushed in front of the wait list.
mutex_lock_push(s) ==
    /\ Goto(s, "push", "reschedule")
    /\ wait_next' = [wait_next EXCEPT ![current_pcb] = waiters]
    /\ waiters' = current_pcb
    /\ UNCHANGED <<state, esp, current_pcb, cpu, frameVars, lock>>

\* Mutant: a thread that wakes up takes the lock for its own.
mutex_lock_no_retry(s) ==
    /\ Goto(s, "reschedule", "critical")
    /\ schedule
    /\ UNCHANGED <<frameVars, mutexVars>>

\* mutex_lock: schedule(), and back to the loop test once it returns.
mutex_lock_reschedule(s) ==
    /\ Goto(s, "reschedule", "test_and_set")
    /\ schedule
    /\ UNCHANGED <<frameVars, mutexVars>>

\* mutex_unlock: the lock is free from here on.
mutex_unlock(s) ==
    /\ \E place \in Critical : Goto(s, place, "wake")
    /\ lock' = 0
    /\ UNCHANGED <<state, esp, current_pcb, cpu, frameVars, waiters, wait_next>>

\* Mutant: the whole wait list is dropped when one waiter wakes up.
mutex_unlock_wake_drops(s) ==
    /\ Goto(s, "wake", "rest")
    /\ \/ /\ waiters # NULL
          /\ waiters' = NULL
          /\ wait_next' = [wait_next EXCEPT ![waiters] = NULL]
          /\ state' = [state EXCEPT ![waiters] = "READY"]
       \/ /\ waiters = NULL
          /\ UNCHANGED <<waiters, wait_next, state>>
    /\ UNCHANGED <<esp, current_pcb, cpu, frameVars, lock>>

\* Mutant: the waiters are left to the next tick.
mutex_unlock_wake_nobody(s) ==
    /\ Goto(s, "wake", "rest")
    /\ UNCHANGED <<state, esp, current_pcb, cpu, frameVars, mutexVars>>

\* mutex_unlock: "Wake one waiting thread", the last one that was pushed.
mutex_unlock_wake(s) ==
    /\ Goto(s, "wake", "rest")
    /\ \/ /\ waiters # NULL
          /\ waiters' = wait_next[waiters]
          /\ wait_next' = [wait_next EXCEPT ![waiters] = NULL]
          /\ state' = [state EXCEPT ![waiters] = "READY"]
       \/ /\ waiters = NULL
          /\ UNCHANGED <<waiters, wait_next, state>>
    /\ UNCHANGED <<esp, current_pcb, cpu, frameVars, lock>>
-----------------------------------------------------------------------------
\* thread_exit is process_exit: the dying thread leaves the queue and frees
\* the stack that it still runs on ...
process_exit(s) ==
    /\ "exit" \in ThreadOps
    /\ \E place \in {"client", "rest"} : Goto(s, place, "exited")
    /\ state' = [state EXCEPT ![current_pcb] = "DEAD"]
    /\ dequeue(current_pcb)
    /\ pmm_free_page(stack_base[current_pcb])
    /\ pid' = [pid EXCEPT ![current_pcb] = 0]
    /\ stack_base' = [stack_base EXCEPT ![current_pcb] = NULL]
    /\ esp' = [esp EXCEPT ![current_pcb] = NULL]
    /\ UNCHANGED <<current_pcb, next_pid, cpu, trapVars, threadVars>>

\* Mutant: current_pcb still points to the slot of the thread that exits.
process_exit_switch_stale(s) ==
    /\ Executes(s) /\ pc[s] = "exited"
    /\ state' = [state EXCEPT ![idle_pcb] = "RUNNING"]
    /\ context_switch(current_pcb, idle_pcb)
    /\ UNCHANGED <<current_pcb, frameVars, mutexVars, pc>>

\* ... until it switches to idle_pcb, whatever else is READY.
process_exit_switch(s) ==
    /\ Executes(s) /\ pc[s] = "exited"
    /\ current_pcb' = idle_pcb
    /\ state' = [state EXCEPT ![idle_pcb] = "RUNNING"]
    /\ context_switch(current_pcb, idle_pcb)
    /\ UNCHANGED <<frameVars, mutexVars, pc>>

ThreadStep(s) ==
    \/ StartLock(s) \/ StartSpin(s) \/ YieldInside(s) \/ YieldOutside(s)
    \/ test_and_set(s)
    \/ mutex_lock_block(s) \/ mutex_lock_push(s) \/ mutex_lock_reschedule(s)
    \/ mutex_unlock(s) \/ mutex_unlock_wake(s)
    \/ process_exit(s) \/ process_exit_switch(s)
=============================================================================
