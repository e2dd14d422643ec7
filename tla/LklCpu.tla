------------------------------- MODULE LklCpu -------------------------------
(***************************************************************************)
(* The one CPU of the Linux kernel library (arch/lkl/kernel/cpu.c) and the *)
(* delivery of interrupts to it (irq.c).  Host threads get the CPU for a   *)
(* system call and put it back; any host thread may trigger an interrupt;  *)
(* the idle thread gets the CPU when a put has to schedule; a thread that  *)
(* halts the kernel makes the idle thread free the lock and semaphores.    *)
(*                                                                         *)
(* A step is what happens under cpu.lock, one atomic operation on          *)
(* shutdown_gate or on the interrupt words, or a semaphore operation.      *)
(* cpu.lock is a variable because set_irq_pending, called with the lock    *)
(* held, races with run_irqs, which the owner calls without it.            *)
(* An interrupt is named after the thread that triggers it.                *)
(***************************************************************************)
EXTENDS Naturals, FiniteSets

CONSTANTS
  Hosts,        \* threads that make system calls
  Timers,       \* threads that only trigger interrupts
  Idle,         \* the idle thread
  None,         \* no owner
  MAX_THREADS,  \* added to shutdown_gate by the shutdown
  UintMod,      \* 2^32: width of cpu.sleepers
  MaxOps        \* bound: operations each thread starts

Callers == Hosts \cup Timers
Threads == Callers \cup {Idle}

ASSUME ThreadsAssumption ==
  /\ Idle \notin Callers /\ None \notin Threads
  /\ Hosts \cap Timers = {} /\ IsFiniteSet(Callers)
ASSUME GateAssumption ==
  /\ MAX_THREADS \in Nat /\ MAX_THREADS > Cardinality(Threads)
  /\ UintMod \in Nat /\ UintMod > Cardinality(Threads)
ASSUME MaxOpsAssumption == MaxOps \in Nat

VARIABLES
  gate,      \* cpu.shutdown_gate
  lock,      \* holder of cpu.lock between two steps
  owner,     \* cpu.owner
  count,     \* cpu.count
  sleepers,  \* cpu.sleepers
  sem,       \* cpu.sem
  pending,   \* cpu.irqs_pending
  status,    \* irq_status: the interrupts marked
  index,     \* irq_index_status: whether the word of status is marked
  enabled,   \* irqs_enabled
  freed,     \* lkl_cpu_cleanup has freed the lock and the semaphores
  pc,        \* where each thread is
  op,        \* what each thread is doing: "get" or "irq"
  ops        \* operations started by each thread

cpuVars == <<owner, count, sleepers, sem>>
irqVars == <<pending, status, index, enabled>>
vars == <<gate, lock, cpuVars, irqVars, freed, pc, op, ops>>

\* After lkl_start_kernel: the CPU has been put, the idle thread waits.
Init ==
  /\ gate = 0 /\ lock = None
  /\ owner = None /\ count = 0 /\ sleepers = 0 /\ sem = 0
  /\ pending = FALSE /\ status = {} /\ index = FALSE /\ enabled = TRUE
  /\ freed = FALSE
  /\ pc = [t \in Threads |-> "out"]
  /\ op = [t \in Threads |-> "get"]
  /\ ops = [t \in Threads |-> 0]

Goto(t, label) == pc' = [pc EXCEPT ![t] = label]

(***************************************************************************)
(* lkl_cpu_get and lkl_cpu_try_run_irq.                                    *)
(***************************************************************************)
\* The fetch_and_add of __cpu_try_get_lock(1).  A system call starts outside,
\* an interrupt is triggered from anywhere, the CPU's owner included.
Start(t, what) ==
  /\ pc[t] = "out" \/ (pc[t] = "in" /\ what = "irq")
  /\ what = "get" => t \in Hosts
  /\ ops[t] < MaxOps
  /\ ops' = [ops EXCEPT ![t] = @ + 1]
  /\ op' = [op EXCEPT ![t] = what]
  /\ gate' = gate + 1
  /\ Goto(t, IF gate >= MAX_THREADS THEN "leave" ELSE "lock")
  /\ UNCHANGED <<lock, cpuVars, irqVars, freed>>

\* shutdown_gate >= MAX_THREADS, tested again under the lock.
ShutDown == gate >= MAX_THREADS

\* sleepers++ and the unlock before sem_down.
Sleep(t) == sleepers' = sleepers + 1 /\ Goto(t, "sleep")

\* Mutant: the index is marked before the status.
SetIrqIndexFirst(t, n) ==
  \/ n = 1 /\ index' = TRUE /\ UNCHANGED status
  \/ n = 2 /\ status' = status \cup {t} /\ UNCHANGED index

\* The two fetch_and_or of set_irq_pending: the status, then the index.
SetIrqPending(t, n) ==
  \/ n = 1 /\ status' = status \cup {t} /\ UNCHANGED index
  \/ n = 2 /\ index' = TRUE /\ UNCHANGED status

\* Mutant: the owner is not compared, a held CPU counts as free.
OthersNever(t) == FALSE

OwnedByAnother(t) == owner \notin {None, t}

\* The part of __cpu_try_get_lock under the lock.
TryGetLock(t) ==
  /\ pc[t] = "lock" /\ lock = None
  /\ \/ ShutDown /\ Goto(t, "leave")
        /\ UNCHANGED <<lock, cpuVars, irqVars>>
     \/ /\ ~ShutDown /\ OwnedByAnother(t) /\ op[t] = "get"
        /\ Sleep(t)
        /\ UNCHANGED <<lock, owner, count, sem, irqVars>>
     \/ /\ ~ShutDown /\ OwnedByAnother(t) /\ op[t] = "irq"
        /\ SetIrqPending(t, 1)
        /\ lock' = t
        /\ Goto(t, "mark")
        /\ UNCHANGED <<cpuVars, pending, enabled>>
     \/ /\ ~ShutDown /\ ~OwnedByAnother(t)
        /\ owner' = t /\ count' = count + 1
        /\ Goto(t, "got")
        /\ UNCHANGED <<lock, sleepers, sem, irqVars>>
  /\ UNCHANGED <<gate, freed, op, ops>>

\* The rest of lkl_cpu_try_run_irq when the CPU is busy.
MarkIrq(t) ==
  /\ pc[t] = "mark"
  /\ SetIrqPending(t, 2) /\ pending' = TRUE
  /\ lock' = None
  /\ Goto(t, "leave")
  /\ UNCHANGED <<gate, cpuVars, enabled, freed, op, ops>>

SemDown(t) ==
  /\ pc[t] = "sleep" /\ sem > 0
  /\ sem' = sem - 1
  /\ Goto(t, "retry")
  /\ UNCHANGED <<gate, lock, owner, count, sleepers, irqVars, freed, op, ops>>

\* __cpu_try_get_lock(0): the gate is read, the thread is still counted in it.
Retry(t) ==
  /\ pc[t] = "retry"
  /\ Goto(t, IF ShutDown THEN "leave" ELSE "lock")
  /\ UNCHANGED <<gate, lock, cpuVars, irqVars, freed, op, ops>>

\* The fetch_and_sub of __cpu_try_get_unlock: in the kernel, or back outside
\* (an error, or an interrupt left to the owner).
Leave(t) ==
  /\ pc[t] \in {"leave", "got"}
  /\ gate' = gate - 1
  /\ Goto(t, IF pc[t] = "leave" THEN "out"
             ELSE IF op[t] = "get" THEN "in" ELSE "irq")
  /\ UNCHANGED <<lock, cpuVars, irqVars, freed, op, ops>>

(***************************************************************************)
(* The owner, in the kernel.                                               *)
(***************************************************************************)
\* lkl_trigger_irq after the CPU was got: run_irq, whose local_irq_restore also
\* runs what was marked meanwhile, or mark the interrupt.
RunIrq(t) ==
  /\ pc[t] = "irq"
  /\ \/ enabled /\ Goto(t, "runindex") /\ UNCHANGED <<status, index>>
     \/ ~enabled /\ Goto(t, "put") /\ status' = status \cup {t} /\ index' = TRUE
  /\ UNCHANGED <<gate, lock, cpuVars, pending, enabled, freed, op, ops>>

\* local_irq_save, and arch_local_irq_restore, which runs run_irqs first.
DisableIrqs(t) ==
  /\ pc[t] = "in" /\ enabled /\ t # Idle
  /\ enabled' = FALSE
  /\ UNCHANGED <<gate, lock, cpuVars, pending, status, index, freed, pc, op,
                 ops>>

EnableIrqs(t) ==
  /\ pc[t] = "in" /\ ~enabled
  /\ Goto(t, IF index THEN "enable" ELSE "in")
  /\ index' = FALSE
  /\ enabled' = ~index
  /\ UNCHANGED <<gate, lock, cpuVars, pending, status, freed, op, ops>>

\* The second half of run_irqs: the status word is cleared, its interrupts run.
\* With interrupts enabled, the end of each run_irq runs run_irqs again.
CheckIrqStatus(t) ==
  /\ pc[t] \in {"enable", "run"}
  /\ status' = {}
  /\ enabled' = TRUE
  /\ Goto(t, CASE pc[t] = "enable" -> "in"
               [] pc[t] = "run" /\ status # {} -> "runindex"
               [] OTHER -> "put")
  /\ UNCHANGED <<gate, lock, cpuVars, pending, index, freed, op, ops>>

\* The system call is done; interrupts are enabled again by then.
StartPut(t) ==
  /\ pc[t] = "in" /\ enabled
  /\ t = Idle => ~ShutDown
  /\ Goto(t, "put")
  /\ UNCHANGED <<gate, lock, cpuVars, irqVars, freed, op, ops>>

(***************************************************************************)
(* lkl_cpu_put.                                                            *)
(***************************************************************************)
\* One round of its loop: irqs_pending is cleared under the lock, then the
\* first half of run_irqs runs without it.
PutIrqs(t) ==
  /\ pc[t] = "put" /\ lock = None
  /\ pending /\ enabled
  /\ pending' = FALSE
  /\ Goto(t, "runindex")
  /\ UNCHANGED <<gate, lock, cpuVars, status, index, enabled, freed, op, ops>>

RunIrqs(t) ==
  /\ pc[t] = "runindex"
  /\ index' = FALSE
  /\ Goto(t, IF index THEN "run" ELSE "put")
  /\ UNCHANGED <<gate, lock, cpuVars, pending, status, enabled, freed, op, ops>>

\* Mutant: nobody is woken up.
WakeNobody == UNCHANGED <<sleepers, sem>>

WakeSleeper ==
  \/ sleepers > 0 /\ sleepers' = sleepers - 1 /\ sem' = sem + 1
  \/ sleepers = 0 /\ UNCHANGED <<sleepers, sem>>

\* need_resched: thread_sched_jb switches to the next task, which owns the CPU
\* from then on, count and all (__switch_to, lkl_cpu_change_owner).  Idle stands
\* for that task: the idle thread, or kernel threads until the idle thread runs.
PutResched(t) ==
  /\ pc[t] = "put" /\ lock = None /\ ~(pending /\ enabled)
  /\ count = 1 /\ t # Idle
  /\ owner' = Idle
  /\ pc' = [pc EXCEPT ![t] = "out", ![Idle] = "in"]
  /\ UNCHANGED <<gate, lock, count, sleepers, sem, irqVars, freed, op, ops>>

Put(t) ==
  /\ pc[t] = "put" /\ lock = None /\ ~(pending /\ enabled)
  /\ count' = count - 1
  /\ \/ count > 1 /\ Goto(t, "in") /\ UNCHANGED <<owner, sleepers, sem>>
     \/ count = 1 /\ WakeSleeper /\ owner' = None /\ Goto(t, "out")
  /\ UNCHANGED <<gate, lock, irqVars, freed, op, ops>>

(***************************************************************************)
(* Shutdown.                                                               *)
(***************************************************************************)
\* The reboot system call: machine_halt calls lkl_cpu_shutdown.
Halt(t) ==
  /\ t \in Hosts /\ pc[t] = "in" /\ enabled
  /\ gate' = gate + MAX_THREADS
  /\ Goto(t, "halting")
  /\ UNCHANGED <<lock, cpuVars, irqVars, freed, op, ops>>

\* lkl_syscall then schedules, so that the idle thread runs, and lkl_sys_halt
\* waits for shutdown_sem.
HaltSchedule(t) ==
  /\ pc[t] = "halting" /\ lock = None
  /\ owner' = Idle
  /\ pc' = [pc EXCEPT ![t] = "halt", ![Idle] = "in"]
  /\ UNCHANGED <<gate, lock, count, sleepers, sem, irqVars, freed, op, ops>>

\* Mutant: only one sleeper is woken up.
WakeOne == sem + 1

WakeAll == sem + sleepers

\* arch_cpu_idle after a shutdown: `while (cpu.sleepers--)` ends at 2^32 - 1.
IdleDrain ==
  /\ pc[Idle] = "in" /\ ShutDown /\ lock = None
  /\ sem' = WakeAll
  /\ sleepers' = UintMod - 1
  /\ Goto(Idle, "spin")
  /\ UNCHANGED <<gate, lock, owner, count, irqVars, freed, op, ops>>

\* Mutant: the cleanup does not wait for the threads inside the gate.
GateEmptyAlways == TRUE

GateEmpty == gate <= MAX_THREADS

\* lkl_cpu_cleanup spins on the gate, then posts shutdown_sem and frees.
Cleanup ==
  /\ pc[Idle] = "spin" /\ GateEmpty
  /\ freed' = TRUE
  /\ Goto(Idle, "dead")
  /\ UNCHANGED <<gate, lock, cpuVars, irqVars, op, ops>>

\* lkl_cpu_wait_shutdown returns.
Halted(t) ==
  /\ pc[t] = "halt" /\ freed
  /\ Goto(t, "done")
  /\ UNCHANGED <<gate, lock, cpuVars, irqVars, freed, op, ops>>

\* Every thread has stopped making calls.
Finished ==
  /\ \A t \in Threads : pc[t] \in {"out", "done", "dead"}
  /\ UNCHANGED vars

Step(t) ==
  \/ TryGetLock(t) \/ MarkIrq(t) \/ SemDown(t) \/ Retry(t) \/ Leave(t)
  \/ RunIrq(t) \/ EnableIrqs(t) \/ CheckIrqStatus(t)
  \/ PutIrqs(t) \/ RunIrqs(t) \/ PutResched(t) \/ Put(t)
  \/ HaltSchedule(t) \/ Halted(t)

Next ==
  \/ \E t \in Callers, what \in {"get", "irq"} : Start(t, what)
  \/ \E t \in Threads : Step(t) \/ DisableIrqs(t) \/ StartPut(t) \/ Halt(t)
  \/ IdleDrain \/ Cleanup
  \/ Finished

Spec == Init /\ [][Next]_vars

\* The host schedules every thread, and a system call ends even though it
\* disables interrupts now and again (one thread at a time is in a call).
FairSpec ==
  /\ Spec
  /\ \A t \in Threads : WF_vars(Step(t))
  /\ SF_vars(\E t \in Threads : StartPut(t))
  /\ WF_vars(IdleDrain) /\ WF_vars(Cleanup)

(***************************************************************************)
(* Properties.                                                             *)
(***************************************************************************)
InKernel == {"got", "in", "irq", "enable", "run", "runindex", "put", "spin",
             "halting"}
Labels == InKernel \cup {"out", "lock", "mark", "sleep", "retry", "leave",
                        "halt", "done", "dead"}

\* Every variable has its type; the counters stay in their ranges.
TypeOK ==
  /\ gate \in 0 .. 2 * MAX_THREADS - 1
  /\ lock \in Callers \cup {None} /\ owner \in Threads \cup {None}
  /\ count \in 0 .. 2 /\ sleepers \in 0 .. UintMod - 1 /\ sem \in Nat
  /\ pending \in BOOLEAN /\ status \subseteq Callers /\ index \in BOOLEAN
  /\ enabled \in BOOLEAN /\ freed \in BOOLEAN
  /\ pc \in [Threads -> Labels] /\ op \in [Threads -> {"get", "irq"}]
  /\ ops \in [Threads -> 0 .. MaxOps]

\* Kernel code runs on the owner of the CPU and on no other thread, through
\* gets, nested interrupts, hand-overs to the idle thread and the shutdown, and
\* the counters that say so stay in their ranges.
MutualExclusion == TypeOK /\ \A t \in Threads : pc[t] \in InKernel => owner = t

\* A free CPU with threads asleep has one of them, or another thread that will
\* put the CPU again, on its way: lkl_cpu_put loses no wake-up.
NoLostWakeup ==
  (owner = None /\ \E t \in Callers : pc[t] = "sleep") =>
    sem > 0 \/ \E t \in Callers : pc[t] \in {"lock", "retry"}

\* When nobody is in the kernel, no interrupt is marked and left undelivered:
\* the lock-free marking in two words and lkl_cpu_put's loop lose none.
NoIrqLost == owner = None => status = {} /\ enabled

\* Once the lock and the semaphores are freed no thread is about to use them:
\* the gate keeps lkl_cpu_cleanup waiting for every thread inside.
NoUseAfterFree ==
  freed => \A t \in Callers : pc[t] \in {"out", "leave", "halt", "done"}

\* Whoever asks for the CPU gets it or an error, and a halt returns.
EveryGetReturns ==
  \A t \in Callers :
    /\ pc[t] = "lock" ~> pc[t] \in {"in", "irq", "out", "put"}
    /\ pc[t] = "halt" ~> pc[t] = "done"
=============================================================================
