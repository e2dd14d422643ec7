------------------------------- MODULE Threads -------------------------------
(***************************************************************************)
(* The tasks of the kernel library and the host threads that run them      *)
(* (arch/lkl/kernel/threads.c, syscalls.c, the idle loop of cpu.c).  Each  *)
(* kernel thread and the idle task have a host thread of their own; a host *)
(* thread that makes system calls gets a task of its own with its first    *)
(* call, which it makes on host0.  A switch of tasks hands the CPU from    *)
(* one host thread to another by a semaphore; a thread that leaves the     *)
(* kernel in the middle of a switch does so by longjmp (TIF_SCHED_JB).     *)
(*                                                                         *)
(* A task is named after its thread.  A step is what one thread does from  *)
(* one semaphore to the next: kernel code runs on the owner of the CPU     *)
(* only, the rest runs in parallel.  Getting and putting the CPU are one   *)
(* step each, LklCpu has their details.                                    *)
(***************************************************************************)
EXTENDS Naturals, FiniteSets

CONSTANTS
  Hosts,     \* threads that make system calls
  KThreads,  \* kernel threads, each created once
  Timer,     \* a host thread that triggers interrupts
  Idle,      \* the idle task and its thread
  Host0,     \* the task of init, which new_host_task borrows
  Main,      \* the host thread that starts the kernel
  Kthreadd,  \* the kernel thread that makes the others, and never exits
  MaxWork,   \* bound: system calls, waits and wake-ups of kernel threads
  None

Tasks == Hosts \cup KThreads \cup {Idle, Host0}
Threads == Hosts \cup KThreads \cup {Timer, Idle}
HostTasks == Hosts \cup {Host0}

ASSUME ThreadsAssumption ==
  /\ Hosts \cap KThreads = {} /\ Timer \notin Tasks
  /\ Idle \notin HostTasks \cup KThreads /\ Host0 \notin Hosts \cup KThreads
  /\ None \notin Tasks \cup Threads
  /\ Main \in Hosts /\ Kthreadd \in KThreads /\ MaxWork \in Nat

VARIABLES
  owner,         \* cpu.owner
  current,       \* _current_thread_info
  abs_prev,      \* abs_prev of threads.c
  prev_sched,    \* ti->prev_sched, of kernel threads that have not run yet
  state,         \* of each task: "none", "run", "sleep", "dead" or "freed"
  tid,           \* ti->tid
  sem,           \* ti->sched_sem
  idle_sem, idle_pending,  \* of cpu.c
  tail,          \* the task whose switch is not finished: finish_task_switch is due
  mismatch,      \* history: finish_task_switch got a task that was not due
  dead,          \* ti->dead
  join,          \* the task whose thread a thread_join waits for
  tls,           \* threads that have a task: tls_get(task_key)
  shutdown,      \* lkl_cpu_shutdown has been called
  work,          \* counts against MaxWork
  pc             \* where each thread is

switchVars == <<owner, current, abs_prev, prev_sched, state, sem, idle_sem, tail>>
exitVars == <<dead, join, shutdown>>
vars == <<switchVars, exitVars, tid, idle_pending, mismatch, tls, work, pc>>

\* In lkl_start_kernel, before its lkl_cpu_put: host0 is current, the idle task
\* has scheduled it, from its loop or while it was pending.
Init ==
  /\ owner = Main /\ current = Host0 /\ abs_prev = Idle
  /\ prev_sched = [x \in Tasks |-> None]
  /\ state = [x \in Tasks |-> CASE x \in {Host0, Idle} -> "run"
                                [] x = Kthreadd -> "sleep"
                                [] OTHER -> "none"]
  /\ tid = [x \in Tasks |-> CASE x = Host0 -> Main
                              [] x \in {Idle, Kthreadd} -> x
                              [] OTHER -> None]
  /\ sem = [x \in Tasks |-> 0] /\ idle_sem = 0
  /\ tail = None /\ mismatch = FALSE
  /\ dead = [x \in Tasks |-> FALSE] /\ join = None
  /\ tls = {} /\ shutdown = FALSE /\ work = 0
  /\ idle_pending \in BOOLEAN
  /\ pc = [t \in Threads |-> CASE t = Main -> "put"
                               [] t = Idle -> IF idle_pending THEN "pending" ELSE "switched"
                               [] t = Kthreadd -> "switched"
                               [] t \in KThreads \ {Kthreadd} -> "none"
                               [] OTHER -> "out"]

\* The bound on the system calls, waits and wake-ups of a behaviour.
Work == work < MaxWork /\ work' = work + 1

Goto(t, label) == pc' = [pc EXCEPT ![t] = label]

Runnable(st) == {x \in Tasks \ {Idle} : st[x] = "run"}

(***************************************************************************)
(* __switch_to.                                                            *)
(***************************************************************************)
\* finish_task_switch, with the task that the caller thinks was left.
FinishTaskSwitch(prev) ==
  /\ tail' = None
  /\ mismatch' = (mismatch \/ prev # tail)

WakeupIdle(next) == next = Idle /\ idle_pending

\* schedule() on the thread t, with the tasks in the states st and the threads
\* tids: the scheduler picks a runnable task, or the idle task if there is none,
\* and __switch_to wakes its thread.  t goes to `label`: "switched", where it
\* waits until the task it leaves runs again, or where the longjmp leads.
SwitchTo(t, st, tids, label) ==
  \E next \in (IF Runnable(st) = {} THEN {Idle} ELSE Runnable(st)) \ {current} :
    LET wakeup_idle == WakeupIdle(next) IN
    /\ state' = st
    /\ current' = next /\ abs_prev' = current
    /\ prev_sched' = IF next \in KThreads /\ pc[next] = "boot"
                     THEN [prev_sched EXCEPT ![next] = current] ELSE prev_sched
    /\ tail' = IF wakeup_idle THEN None ELSE current
    /\ tid' = tids /\ owner' = tids[next]
    /\ idle_sem' = IF wakeup_idle THEN idle_sem + 1 ELSE idle_sem
    /\ sem' = IF wakeup_idle THEN sem ELSE [sem EXCEPT ![next] = @ + 1]
    /\ Goto(t, label)

Switch(t, st, label) == SwitchTo(t, st, tid, label)

\* sem_down of the semaphore of a task.
Down(task) == sem[task] > 0 /\ sem' = [sem EXCEPT ![task] = @ - 1]

\* Mutant: the local prev, the task that is switched back to.
LocalPrev(t) == t

Returned(t) == abs_prev

\* The end of __switch_to on t: its task runs again, or has been killed.
SwitchedBack(t) ==
  /\ pc[t] = "switched" /\ Down(t)
  /\ \/ dead[t] /\ Goto(t, "exited") /\ UNCHANGED <<tail, mismatch>>
     \/ ~dead[t] /\ Goto(t, "kernel") /\ FinishTaskSwitch(Returned(t))
  /\ UNCHANGED <<owner, current, abs_prev, prev_sched, state, idle_sem, exitVars,
                 tid, idle_pending, tls, work>>

\* Mutant: the state of a host task is not changed.
ParkNothing == state

\* thread_sched_jb: a host task is parked until its thread comes back; the
\* idle task has no other state than runnable.
Park == IF current \in HostTasks THEN [state EXCEPT ![current] = "sleep"] ELSE state

(***************************************************************************)
(* lkl_syscall and del_host_task.                                          *)
(***************************************************************************)
\* lkl_cpu_get, for a system call or for the destructor of the thread's task.
Get(h) ==
  /\ h \in Hosts /\ pc[h] = "out" /\ owner = None /\ ~shutdown
  /\ owner' = h
  /\ \/ h \notin tls /\ Goto(h, "new")
     \/ h \in tls /\ \E label \in {"enter", "delete"} : Goto(h, label)
  /\ Work
  /\ UNCHANGED <<current, abs_prev, prev_sched, state, sem, idle_sem, tail, exitVars,
                 tid, idle_pending, mismatch, tls>>

\* Mutant: a task keeps the thread it was first used by.
FirstTid(task, h) == IF tid[task] = None THEN h ELSE tid[task]

Tid(task, h) == h

\* switch_to_host_task on h, which is at `label`, up to the semaphore.
SwitchToHostTask(h, task, label, wait, done) ==
  /\ pc[h] = label
  /\ \/ current = task /\ Goto(h, done) /\ UNCHANGED <<switchVars, tid>>
     \/ /\ current # task
        /\ SwitchTo(h, [Park EXCEPT ![task] = "run"],
                    [tid EXCEPT ![task] = Tid(task, h)], wait)
  /\ UNCHANGED <<exitVars, idle_pending, mismatch, tls, work>>

\* From the semaphore on.
SwitchedToHostTask(h, task, wait, done) ==
  /\ pc[h] = wait /\ Down(task)
  /\ FinishTaskSwitch(abs_prev)
  /\ Goto(h, done)
  /\ UNCHANGED <<owner, current, abs_prev, prev_sched, state, idle_sem, exitVars,
                 tid, idle_pending, tls, work>>

\* The tasks a host thread switches to: host0 to make its own, its own for a
\* system call, its own to delete it.
EnterTask(h) ==
  /\ h \in Hosts
  /\ \/ SwitchToHostTask(h, Host0, "new", "wait0", "create")
     \/ SwitchToHostTask(h, h, "enter", "wait", "kernel")
     \/ SwitchToHostTask(h, h, "delete", "waitd", "exit")
TaskEntered(h) ==
  /\ h \in Hosts
  /\ \/ SwitchedToHostTask(h, Host0, "wait0", "create")
     \/ SwitchedToHostTask(h, h, "wait", "kernel")
     \/ SwitchedToHostTask(h, h, "waitd", "exit")

\* new_host_task on host0: kernel_thread makes a runnable task whose thread is
\* not known before the switch to it, or fails.
NewHostTask(h) ==
  /\ h \in Hosts /\ pc[h] = "create"
  /\ \/ /\ state' = [state EXCEPT ![h] = "run"]
        /\ tls' = tls \cup {h}
        /\ Goto(h, "enter")
     \/ Goto(h, "put") /\ UNCHANGED <<state, tls>>
  /\ UNCHANGED <<owner, current, abs_prev, prev_sched, sem, idle_sem, tail, exitVars,
                 tid, idle_pending, mismatch, work>>

\* The end of del_host_task: do_exit, left by longjmp.
DelHostTask(h) ==
  /\ h \in Hosts /\ pc[h] = "exit"
  /\ Switch(h, [state EXCEPT ![h] = "dead"], "gone")
  /\ UNCHANGED <<exitVars, idle_pending, mismatch, tls, work>>

\* lkl_cpu_put at the end of a system call or of an interrupt.  need_resched()
\* holds when the idle task is current and another is runnable; otherwise the
\* scheduler's policy decides.
AtPut(t) == \/ t \in Hosts /\ pc[t] \in {"kernel", "put"}
            \/ t = Timer /\ pc[t] = "irq"
Put(t) ==
  /\ AtPut(t)
  /\ current = Idle => Runnable(state) = {}
  /\ owner' = None
  /\ Goto(t, "out")
  /\ UNCHANGED <<current, abs_prev, prev_sched, state, sem, idle_sem, tail, exitVars,
                 tid, idle_pending, mismatch, tls, work>>
PutResched(t) ==
  /\ AtPut(t)
  /\ Switch(t, Park, "out")
  /\ UNCHANGED <<exitVars, idle_pending, mismatch, tls, work>>

\* lkl_trigger_irq of a thread that finds the CPU free.
TriggerIrq ==
  /\ pc[Timer] = "out" /\ owner = None /\ ~shutdown
  /\ owner' = Timer
  /\ Goto(Timer, "irq")
  /\ UNCHANGED <<current, abs_prev, prev_sched, state, sem, idle_sem, tail, exitVars,
                 tid, idle_pending, mismatch, tls, work>>

(***************************************************************************)
(* What kernel code does with tasks: kernel threads, system calls, and the *)
(* interrupts and softirqs that run on any thread in the kernel.           *)
(***************************************************************************)
InKernel(t) == pc[t] \in {"kernel", "irq"}

\* A task waits for something, or gives way to another (cond_resched).
Block(t) ==
  /\ t \in Hosts \cup KThreads /\ pc[t] = "kernel"
  /\ Switch(t, [state EXCEPT ![t] = "sleep"], "switched")
  /\ IF t \in Hosts THEN Work ELSE UNCHANGED work
  /\ UNCHANGED <<exitVars, idle_pending, mismatch, tls>>
Yield(t) ==
  /\ t \in Hosts \cup KThreads /\ pc[t] = "kernel"
  /\ Switch(t, state, "switched")
  /\ Work
  /\ UNCHANGED <<exitVars, idle_pending, mismatch, tls>>

\* Tasks that wait in kernel code; a parked host task is on no wait queue.
Waiting == {x \in Hosts \cup KThreads : state[x] = "sleep" /\ pc[x] = "switched"}

WakeUp(t, x) ==
  /\ InKernel(t) /\ x \in Waiting
  /\ state' = [state EXCEPT ![x] = "run"]
  /\ IF x \in KThreads THEN Work ELSE UNCHANGED work
  /\ UNCHANGED <<owner, current, abs_prev, prev_sched, sem, idle_sem, tail, exitVars,
                 tid, idle_pending, mismatch, tls, pc>>

\* kernel_thread with a function: copy_thread makes the host thread.
KernelThread(k) ==
  /\ pc[Kthreadd] = "kernel" /\ k \in KThreads /\ state[k] = "none"
  /\ state' = [state EXCEPT ![k] = "run"]
  /\ tid' = [tid EXCEPT ![k] = k]
  /\ Goto(k, "boot")
  /\ UNCHANGED <<owner, current, abs_prev, prev_sched, sem, idle_sem, tail, exitVars,
                 idle_pending, mismatch, tls, work>>

BootTail(k) ==
  IF prev_sched[k] # None THEN FinishTaskSwitch(prev_sched[k])
  ELSE UNCHANGED <<tail, mismatch>>

\* thread_bootstrap, up to the call of its function.
ThreadBootstrap(k) ==
  /\ k \in KThreads /\ pc[k] = "boot" /\ Down(k)
  /\ BootTail(k)
  /\ prev_sched' = [prev_sched EXCEPT ![k] = None]
  /\ Goto(k, "kernel")
  /\ UNCHANGED <<owner, current, abs_prev, state, idle_sem, exitVars,
                 tid, idle_pending, tls, work>>

\* Its do_exit: a dead task's thread waits in __switch_to to be killed.
DoExit(k) ==
  /\ k \in KThreads \ {Kthreadd} /\ pc[k] = "kernel"
  /\ Switch(k, [state EXCEPT ![k] = "dead"], "switched")
  /\ UNCHANGED <<exitVars, idle_pending, mismatch, tls, work>>

\* Mutant: the semaphore is freed without a join.
JoinNobody(x) == FALSE

\* kill_thread wakes and joins the thread of a task that is not a host's.
Joins(x) == x \notin HostTasks

KillThread(t, x) ==
  IF Joins(x)
  THEN /\ dead' = [dead EXCEPT ![x] = TRUE]
       /\ sem' = [sem EXCEPT ![x] = @ + 1]
       /\ join' = x
       /\ Goto(t, IF pc[t] = "cleanup" THEN "killing" ELSE "join")
       /\ UNCHANGED state
  ELSE /\ state' = [state EXCEPT ![x] = "freed"]
       /\ UNCHANGED <<dead, sem, join, pc>>

\* free_thread_stack of a dead task, called from the RCU softirq.
FreeThreadStack(t) ==
  /\ InKernel(t)
  /\ \E x \in Tasks : state[x] = "dead" /\ KillThread(t, x)
  /\ UNCHANGED <<owner, current, abs_prev, prev_sched, idle_sem, tail, shutdown,
                 tid, idle_pending, mismatch, tls, work>>

\* thread_join returns, the semaphore is freed.
Joined(t) ==
  /\ pc[t] \in {"join", "killing"} /\ pc[join] = "exited"
  /\ state' = [state EXCEPT ![join] = "freed"]
  /\ join' = None
  /\ Goto(t, IF pc[t] = "killing" THEN "cleanup" ELSE IF t = Timer THEN "irq" ELSE "kernel")
  /\ UNCHANGED <<owner, current, abs_prev, prev_sched, sem, idle_sem, tail, dead,
                 shutdown, tid, idle_pending, mismatch, tls, work>>

(***************************************************************************)
(* The idle task and the halt.                                             *)
(***************************************************************************)
\* cpu_idle_loop leaves its inner loop to schedule another task.
IdleSchedule ==
  /\ pc[Idle] = "kernel" /\ Runnable(state) # {}
  /\ Switch(Idle, state, "switched")
  /\ UNCHANGED <<exitVars, idle_pending, mismatch, tls, work>>

SetPending == idle_pending' = TRUE

\* arch_cpu_idle puts the CPU and waits until a switch wakes it.
ArchCpuIdle ==
  /\ pc[Idle] = "kernel" /\ Runnable(state) = {} /\ ~shutdown
  /\ SetPending
  /\ owner' = None
  /\ Goto(Idle, "pending")
  /\ UNCHANGED <<current, abs_prev, prev_sched, state, sem, idle_sem, tail, exitVars,
                 tid, mismatch, tls, work>>

\* The same when an interrupt that lkl_cpu_put runs wakes a task: the idle
\* thread itself leaves the switch by longjmp.
ArchCpuIdleIrq ==
  /\ pc[Idle] = "kernel" /\ Runnable(state) = {} /\ ~shutdown
  /\ SetPending
  /\ \E x \in Waiting : Switch(Idle, [state EXCEPT ![x] = "run"], "pending")
  /\ Work
  /\ UNCHANGED <<exitVars, mismatch, tls>>

IdleWoken ==
  /\ pc[Idle] = "pending" /\ idle_sem > 0
  /\ idle_sem' = idle_sem - 1
  /\ idle_pending' = FALSE
  /\ Goto(Idle, "kernel")
  /\ UNCHANGED <<owner, current, abs_prev, prev_sched, state, sem, tail, exitVars,
                 tid, mismatch, tls, work>>

NothingToRun == Runnable(state) = {}

\* arch_cpu_idle after lkl_cpu_shutdown: lkl_cpu_cleanup and thread_exit.
IdleShutdown ==
  /\ pc[Idle] = "kernel" /\ NothingToRun /\ shutdown
  /\ Goto(Idle, "exited")
  /\ UNCHANGED <<switchVars, exitVars, tid, idle_pending, mismatch, tls, work>>

\* The reboot of lkl_sys_halt, when no other system call is under way.
Reboot(h) ==
  /\ h \in Hosts /\ pc[h] = "kernel" /\ ~shutdown
  /\ \A g \in Hosts \ {h} : pc[g] \in {"out", "gone"}
  /\ shutdown' = TRUE
  /\ Switch(h, Park, "halting")
  /\ UNCHANGED <<dead, join, idle_pending, mismatch, tls, work>>

\* lkl_cpu_wait_shutdown.
ShutdownSeen(h) ==
  /\ h \in Hosts /\ pc[h] = "halting" /\ pc[Idle] = "exited"
  /\ Goto(h, "cleanup")
  /\ UNCHANGED <<switchVars, exitVars, tid, idle_pending, mismatch, tls, work>>

\* threads_cleanup, one task at a time, and the idle task's semaphore last.
ListedTasks == {x \in Tasks \ {Idle} : state[x] \in {"run", "sleep"}}
ThreadsCleanup(h) ==
  /\ h \in Hosts /\ pc[h] = "cleanup"
  /\ \/ \E x \in ListedTasks : KillThread(h, x)
     \/ /\ ListedTasks = {}
        /\ state' = [state EXCEPT ![Idle] = "freed"]
        /\ Goto(h, "halted")
        /\ UNCHANGED <<dead, sem, join>>
  /\ UNCHANGED <<owner, current, abs_prev, prev_sched, idle_sem, tail, shutdown,
                 tid, idle_pending, mismatch, tls, work>>

Step(t) ==
  \/ SwitchedBack(t) \/ Get(t) \/ EnterTask(t) \/ TaskEntered(t) \/ NewHostTask(t)
  \/ DelHostTask(t) \/ Put(t) \/ PutResched(t) \/ Block(t) \/ Yield(t)
  \/ ThreadBootstrap(t) \/ DoExit(t) \/ FreeThreadStack(t) \/ Joined(t)
  \/ Reboot(t) \/ ShutdownSeen(t) \/ ThreadsCleanup(t)
  \/ \E x \in Hosts \cup KThreads : WakeUp(t, x)
Next ==
  \/ \E t \in Threads : Step(t)
  \/ \E k \in KThreads : KernelThread(k)
  \/ TriggerIrq \/ IdleSchedule \/ ArchCpuIdle \/ ArchCpuIdleIrq \/ IdleWoken
  \/ IdleShutdown

Spec == Init /\ [][Next]_vars

\* Host threads run; interrupts keep coming, wake what waits in a system call
\* and, as the tick sets need_resched() when a task has waited long enough,
\* let another task run.
Fairness ==
  /\ \A t \in Threads : WF_vars(Step(t))
  /\ WF_vars(IdleSchedule \/ ArchCpuIdle \/ IdleWoken \/ IdleShutdown)
  /\ WF_vars(TriggerIrq)
  /\ SF_vars(PutResched(Timer))
  /\ SF_vars(\E h \in Hosts : WakeUp(Timer, h))
FairSpec == Spec /\ Fairness

(***************************************************************************)
(* Properties.                                                             *)
(***************************************************************************)
\* Types; a binary hand-over never counts twice in a semaphore.
TypeOK ==
  /\ owner \in Threads \cup {None} /\ current \in Tasks /\ abs_prev \in Tasks
  /\ prev_sched \in [Tasks -> Tasks \cup {None}]
  /\ state \in [Tasks -> {"none", "run", "sleep", "dead", "freed"}]
  /\ tid \in [Tasks -> Threads \cup {None}]
  /\ sem \in [Tasks -> 0..1] /\ idle_sem \in 0..1
  /\ idle_pending \in BOOLEAN /\ mismatch \in BOOLEAN /\ shutdown \in BOOLEAN
  /\ tail \in Tasks \cup {None} /\ join \in Tasks \cup {None}
  /\ dead \in [Tasks -> BOOLEAN]
  /\ tls \subseteq Hosts /\ work \in 0..MaxWork

\* Threads that run kernel code.
Running == {t \in Threads : pc[t] \in {"kernel", "irq", "join", "put", "new", "create",
                                        "enter", "delete", "exit"}}

\* The task whose code a thread runs, once it has switched to one.
RunsAs(t) == IF pc[t] = "create" THEN Host0 ELSE t

\* lkl_cpu_put's "unbalanced put" and __switch_to's BUG_ON(!tid) never fire:
\* while the CPU has an owner there is one thread that runs kernel code, the
\* owner, or one semaphore is up to let the owner in; while it has none there
\* is neither.  Code of a task runs when the task is current, and a thread that
\* finds the idle task current finds its thread pending, so that
\* lkl_idle_tail_schedule's "not in idle" never fires either.
OneThreadRuns ==
  /\ TypeOK
  /\ pc[Idle] # "exited" =>
       /\ \A t \in Running : owner = t
       /\ Cardinality(Running) + idle_sem
            + Cardinality({x \in Tasks : sem[x] > 0 /\ ~dead[x]}) = (IF owner = None THEN 0 ELSE 1)
       /\ \A t \in Running : pc[t] \in {"kernel", "create", "exit"} => current = RunsAs(t)
  /\ \A t \in Running \ {Idle} : current = Idle => idle_pending /\ pc[Idle] = "pending"

\* lkl_cpu_put's assertion on its own: a thread that puts the CPU owns it.  It is
\* part of OneThreadRuns while no two threads are in new_host_task at once; two
\* that are wait on the one semaphore of host0, and either may be let in.
NoUnbalancedPut == \A t \in Threads : AtPut(t) => owner = t

\* The comment on abs_prev: schedule() is told the task that was switched away
\* from.  Each switch is finished once, for that task, before any other code
\* runs in the kernel.
SwitchFinished == ~mismatch /\ (Running # {} => tail = None)

\* kill_thread frees a semaphore only when no thread waits on it or will: the
\* task is not current and its thread has left the kernel for good.  When
\* threads_cleanup frees those that are left, no task can run: its warning
\* "still running while halting" is not given.
NoFreedSemaphore ==
  /\ \A x \in Tasks : state[x] = "freed" =>
       /\ sem[x] = 0
       /\ x \in KThreads \cup {Idle} => pc[x] = "exited"
       /\ x \in Hosts => pc[x] \in {"out", "gone", "cleanup", "killing", "halted"}
  /\ (\E h \in Hosts : pc[h] \in {"cleanup", "killing"}) => Runnable(state) = {}

\* Every system call, every exit of a thread and the halt return: the task of
\* the call is scheduled, and its thread is the one that is woken.
Outside(h) == pc[h] \in {"out", "gone", "halted"}
EveryCallLeaves == \A h \in Hosts : ~Outside(h) ~> Outside(h)
==============================================================================
