----------------------------- MODULE ThreadsSteps -----------------------------
(***************************************************************************)
(* The inductive invariant of Threads, for any sets of host and kernel     *)
(* threads, as long as one thread at a time makes its first system call    *)
(* (OneNewcomer).  IInv follows the CPU: it is free, or its owner runs     *)
(* kernel code, or one semaphore is up and its owner waits on it.  The     *)
(* steps between two switches keep it, and the end of a switch; the others *)
(* are in ThreadsProofs.                                                   *)
(***************************************************************************)
EXTENDS Threads, TLAPS

\* The threads that are in new_host_task.
Newcomer(h) == pc[h] \in {"new", "wait0", "create"}

\* Two threads that borrow host0 at once would wait on the same semaphore.
OneNewcomer == \A g, h \in Hosts : Newcomer(g) /\ Newcomer(h) => g = h

(***************************************************************************)
(* The inductive invariant.                                                *)
(***************************************************************************)
RunLabels == {"kernel", "irq", "join", "put", "new", "create", "enter", "delete",
              "exit"}
HaltLabels == {"halting", "cleanup", "killing", "halted"}
HostLabels == (RunLabels \ {"irq"}) \cup HaltLabels
                \cup {"out", "wait0", "wait", "waitd", "switched", "gone"}

PcInv ==
  /\ DOMAIN pc = Threads
  /\ \A h \in Hosts : pc[h] \in HostLabels
  /\ \A k \in KThreads :
       pc[k] \in {"none", "boot", "kernel", "join", "switched", "exited"}
  /\ pc[Idle] \in {"kernel", "join", "switched", "pending", "exited"}
  /\ pc[Timer] \in {"out", "irq", "join"}

\* The semaphore of x is up to let its thread in, not to kill it.
Up(x) == sem[x] > 0 /\ ~dead[x]

\* The thread of the task x waits on the task's semaphore.
Waits(x) ==
  IF x = Host0 THEN tid[x] \in Hosts /\ pc[tid[x]] = "wait0"
  ELSE tid[x] = x /\ pc[x] \in {"wait", "waitd", "switched", "boot"}

\* The CPU is free, or its owner runs, or what the owner waits on is up.
TokenInv ==
  /\ \A t \in Threads : pc[t] \in RunLabels => owner = t /\ tail = None
  /\ \A x \in Tasks : Up(x) =>
       /\ x = current /\ owner = tid[x] /\ Waits(x) /\ tail = abs_prev
       /\ x \in KThreads /\ pc[x] = "boot" => prev_sched[x] = abs_prev
  /\ idle_sem > 0 =>
       owner = Idle /\ current = Idle /\ pc[Idle] = "pending" /\ tail = None
  /\ owner = None => tail = None
  /\ owner # None => \/ pc[owner] \in RunLabels \/ Up(current) \/ idle_sem > 0
                     \/ pc[Idle] = "exited"
  /\ pc[Idle] = "exited" => owner = Idle /\ tail = None

\* The current task, and where its thread is.
CurrentInv ==
  /\ \A t \in Threads \ {Timer} : pc[t] \in {"kernel", "exit", "join"} => current = t
  /\ \A h \in Hosts : pc[h] \in {"create", "put"} => current = Host0
  /\ current # Idle => state[current] = "run"
  /\ current \in KThreads => pc[current] \in {"kernel", "join"} \/ Up(current)
  /\ current \in Hosts =>
       /\ tid[current] = current
       /\ \/ pc[current] \in {"out", "enter", "delete", "kernel", "exit", "join"}
          \/ Up(current)
  /\ current = Idle => pc[Idle] # "switched" \/ Up(Idle)
  /\ current # Idle => pc[Idle] \in {"switched", "pending"}

\* The task of a host thread.
HostTask(h) ==
  /\ h \in tls <=> state[h] # "none"
  /\ tid[h] \in {None, h} /\ ~dead[h]
  /\ pc[h] \in {"new", "wait0", "create", "put"} => state[h] = "none"
  /\ pc[h] \in {"wait", "waitd", "kernel", "exit", "join"} => state[h] = "run"
  /\ pc[h] \in {"enter", "delete", "switched"} => state[h] \in {"run", "sleep"}
  /\ pc[h] \in {"wait", "waitd", "switched"} => tid[h] = h
  /\ pc[h] = "gone" => state[h] \in {"dead", "freed"}
  /\ pc[h] = "out" => state[h] \in {"none", "run", "sleep"} \/ pc[Idle] = "exited"
  /\ pc[h] \in HaltLabels => state[h] = "sleep" \/ pc[Idle] = "exited"
  /\ pc[h] = "halting" => state[h] = "sleep"
  /\ state[h] = "run" /\ current # h => Waits(h) \/ pc[h] = "enter"
HostInv == \A h \in Hosts : HostTask(h)

\* The task of init, which the first system call of a thread borrows.
Host0Inv ==
  /\ tid[Host0] \in Hosts /\ ~dead[Host0]
  /\ state[Host0] \in {"run", "sleep"} \/ pc[Idle] = "exited"
  /\ state[Host0] = "run" /\ current # Host0 => Waits(Host0)
  /\ \A h \in Hosts : pc[h] = "wait0" =>
       /\ tid[Host0] = h /\ state[Host0] = "run"
       /\ current = Host0 => Up(Host0)

\* Tasks of kernel threads.
KThreadInv ==
  \A k \in KThreads :
    /\ pc[k] = "none" <=> state[k] = "none"
    /\ state[k] # "none" => tid[k] = k
    /\ pc[k] \in {"boot", "kernel", "join"} => state[k] = "run"
    /\ pc[k] = "switched" => state[k] \in {"run", "sleep", "dead"}
    /\ pc[k] = "exited" => dead[k]

IdleInv ==
  /\ tid[Idle] = Idle /\ ~dead[Idle]
  /\ idle_pending <=> pc[Idle] = "pending"
  /\ state[Idle] = "run" \/ (state[Idle] = "freed" /\ pc[Idle] = "exited")

\* kill_thread, up to the end of thread_join.
JoinInv ==
  /\ \A x \in Tasks : dead[x] =>
       /\ x \in KThreads /\ x # current
       /\ pc[x] = IF sem[x] > 0 THEN "switched" ELSE "exited"
       /\ state[x] \in {"dead", "sleep", "freed"}
       /\ state[x] # "freed" => join = x
  /\ \A t \in Threads : pc[t] \in {"join", "killing"} =>
       join \in Tasks /\ dead[join] /\ state[join] # "freed"
  /\ join # None => \E t \in Threads : pc[t] \in {"join", "killing"}

\* From the reboot on there are no other system calls, and the idle thread exits
\* when no task is left to run.
HaltInv ==
  /\ \A h \in Hosts : pc[h] \in HaltLabels =>
       shutdown /\ \A g \in Hosts \ {h} : pc[g] \in {"out", "gone"}
  /\ shutdown => /\ \A h \in Hosts : pc[h] \in HaltLabels \cup {"out", "gone"}
                 /\ owner \in KThreads \cup {Idle}
                 /\ current \in KThreads \cup {Idle}
  /\ pc[Idle] = "exited" => shutdown /\ Runnable(state) = {}
  /\ \A h \in Hosts : pc[h] \in {"cleanup", "killing", "halted"} =>
       pc[Idle] = "exited"

IInv ==
  /\ TypeOK /\ PcInv /\ TokenInv /\ CurrentInv /\ HostInv /\ Host0Inv
  /\ KThreadInv /\ IdleInv /\ JoinInv /\ HaltInv
  /\ ~mismatch

(***************************************************************************)
(* What holds while a thread runs kernel code, and after a switch.         *)
(***************************************************************************)
States == {"none", "run", "sleep", "dead", "freed"}

\* A semaphore that is up, and one that is down.
LEMMA UpDown == 1 > 0 /\ ~(0 > 0)
BY SMT

\* A thread that runs kernel code is alone: nothing is up to let another one in.
LEMMA Alone ==
  ASSUME IInv, NEW t \in Threads, pc[t] \in RunLabels
  PROVE  /\ owner = t /\ tail = None /\ idle_sem = 0
         /\ \A x \in Tasks : ~Up(x)
         /\ \A s \in Threads : pc[s] \in RunLabels => s = t
         /\ pc[Idle] # "exited"
         /\ pc[t] # "join" => \A x \in Tasks : dead[x] => state[x] = "freed"
<1> USE ThreadsAssumption DEF IInv, Tasks, Threads, HostTasks
<1>1. owner = t /\ tail = None /\ \A s \in Threads : pc[s] \in RunLabels => s = t
  BY Zenon DEF TokenInv
<1>2. idle_sem = 0 /\ pc[Idle] # "exited"
  BY <1>1 DEF TokenInv, TypeOK, RunLabels
<1>3. \A x \in Tasks : ~Up(x)
  <2> SUFFICES ASSUME NEW x \in Tasks, Up(x) PROVE FALSE
    BY Zenon
  <2>1. t = tid[x] /\ Waits(x)
    BY Zenon, <1>1 DEF TokenInv
  <2> QED BY Zenon, <2>1 DEF Waits, RunLabels
<1>4. ASSUME pc[t] # "join", NEW x \in Tasks, dead[x] PROVE state[x] = "freed"
  <2> SUFFICES ASSUME state[x] # "freed" PROVE FALSE
    BY Zenon
  <2>1. PICK s \in Threads : pc[s] \in {"join", "killing"}
    BY Zenon, <1>4 DEF JoinInv
  <2>2. pc[s] = "killing"
    BY Zenon, <1>1, <1>4, <2>1 DEF RunLabels
  <2> QED BY Zenon, <1>2, <2>2 DEF HaltInv, PcInv
<1> QED BY Zenon, <1>1, <1>2, <1>3, <1>4

\* A runnable task that is not current has a thread that waits for its turn,
\* except for a task that was made just now by the thread that runs.
LEMMA Ready ==
  ASSUME IInv, NEW t \in Threads, pc[t] \in RunLabels \ {"join"},
         NEW x \in Runnable(state) \ {current}
  PROVE  ~dead[x] /\ (Waits(x) \/ (x = t /\ pc[t] = "enter"))
<1> USE ThreadsAssumption DEF IInv, Tasks, Threads, HostTasks
<1>1. x \in Tasks \ {Idle} /\ state[x] = "run" /\ x # current
  BY Zenon DEF Runnable
<1>2. ~dead[x]
  BY Zenon, <1>1, Alone
<1>3. CASE x \in Hosts
  BY Zenon, <1>1, <1>2, <1>3, Alone DEF HostInv, HostTask, RunLabels
<1>4. CASE x = Host0
  BY Zenon, <1>1, <1>2, <1>4 DEF Host0Inv
<1>5. CASE x \in KThreads
  <2>1. pc[x] \notin {"none", "exited"} /\ tid[x] = x
    BY Zenon, <1>1, <1>2, <1>5 DEF KThreadInv
  <2>2. pc[x] \in {"boot", "switched"}
    BY Zenon, <1>1, <1>5, <2>1 DEF PcInv, CurrentInv
  <2> QED BY Zenon, <1>2, <1>5, <2>1, <2>2 DEF Waits
<1> QED BY Zenon, <1>1, <1>3, <1>4, <1>5

\* It still waits after a step of another thread.
LEMMA StillReady ==
  ASSUME IInv, NEW t \in Threads, pc[t] \in RunLabels \ {"join", "enter"},
         NEW x \in Runnable(state) \ {current},
         NEW label, pc' = [pc EXCEPT ![t] = label], tid' = tid
  PROVE  Waits(x)' /\ ~dead[x]
<1> USE ThreadsAssumption DEF IInv, Tasks, Threads, HostTasks
<1>1. ~dead[x] /\ Waits(x)
  BY Zenon, Ready
<1>2. x # t /\ tid[x] # t
  BY Zenon, <1>1 DEF Waits, RunLabels
<1> QED BY Zenon, <1>1, <1>2 DEF Waits, PcInv, Runnable

\* The effect of a switch by t: the tasks are in the states st and the threads
\* tids, one of them is current and its thread is let in.
Switched(t, st, tids, label) ==
  /\ current' \in Tasks \ {current}
  /\ current' # Idle => st[current'] = "run" /\ Up(current)' /\ Waits(current)'
  /\ current' = Idle => pc'[Idle] = "pending" \/ Up(Idle)'
  /\ \A x \in Tasks \ {current'} : sem'[x] = sem[x]
  /\ abs_prev' = current /\ owner' = tids[current'] /\ owner' # None
  /\ state' = st /\ tid' = tids /\ pc' = [pc EXCEPT ![t] = label]
  /\ prev_sched' \in [Tasks -> Tasks \cup {None}]
  /\ sem' \in [Tasks -> 0..1] /\ idle_sem' \in 0..1
  /\ tail' \in Tasks \cup {None}

\* A switch lets in the thread of one runnable task, which is waiting for it.
LEMMA SwitchResult ==
  ASSUME IInv, NEW t \in Threads, pc[t] \in RunLabels,
         NEW st \in [Tasks -> States], NEW tids \in [Tasks -> Threads \cup {None}],
         NEW label, label \notin RunLabels \cup {"exited"},
         SwitchTo(t, st, tids, label),
         dead' = dead, tids[Idle] = Idle,
         t = Idle => current = Idle /\ label \in {"switched", "pending"},
         \A x \in Runnable(st) \ {current} : Waits(x)' /\ ~dead[x]
  PROVE  Switched(t, st, tids, label) /\ TokenInv' /\ CurrentInv'
<1> USE ThreadsAssumption DEF IInv, Tasks, Threads, HostTasks
<1>1. PICK next \in (IF Runnable(st) = {} THEN {Idle} ELSE Runnable(st)) \ {current} :
        /\ state' = st
        /\ current' = next /\ abs_prev' = current
        /\ prev_sched' = IF next \in KThreads /\ pc[next] = "boot"
                         THEN [prev_sched EXCEPT ![next] = current] ELSE prev_sched
        /\ tail' = IF WakeupIdle(next) THEN None ELSE current
        /\ tid' = tids /\ owner' = tids[next]
        /\ idle_sem' = IF WakeupIdle(next) THEN idle_sem + 1 ELSE idle_sem
        /\ sem' = IF WakeupIdle(next) THEN sem ELSE [sem EXCEPT ![next] = @ + 1]
        /\ pc' = [pc EXCEPT ![t] = label]
  BY Zenon DEF SwitchTo, Goto
<1>2. next \in Tasks /\ next # current /\ (next # Idle => next \in Runnable(st) \ {current})
  BY Zenon, <1>1 DEF Runnable
<1>3. /\ owner = t /\ tail = None /\ idle_sem = 0
      /\ \A x \in Tasks : ~Up(x)
      /\ \A s \in Threads : pc[s] \in RunLabels => s = t
      /\ pc[Idle] # "exited"
  BY Zenon, Alone
<1>4. \A s \in Threads : pc'[s] \notin RunLabels /\ (s # t => pc'[s] = pc[s])
  BY Zenon, <1>1, <1>3 DEF PcInv
<1>5. next # Idle => Waits(next)'
  BY Zenon, <1>2
<1>6. next = Idle => t # Idle /\ pc'[Idle] = pc[Idle] /\ pc[Idle] \in {"switched", "pending"}
  BY Zenon, <1>2, <1>4 DEF CurrentInv
<1>7. WakeupIdle(next) <=> next = Idle /\ pc[Idle] = "pending"
  BY Zenon DEF WakeupIdle, IdleInv
<1>8. ~WakeupIdle(next) => Waits(next)'
  BY Zenon, <1>1, <1>5, <1>6, <1>7 DEF Waits
<1>9. ~dead[next] /\ sem[next] = 0
  BY <1>2, <1>3 DEF IdleInv, Up, TypeOK
<1>10. TypeOK /\ prev_sched' \in [Tasks -> Tasks \cup {None}]
  BY Zenon, <1>1 DEF TypeOK
<1>11. sem' \in [Tasks -> 0..1] /\ idle_sem' \in 0..1
  BY <1>1, <1>2, <1>3, <1>9 DEF TypeOK
<1>12. /\ \A x \in Tasks \ {next} : sem'[x] = sem[x] /\ ~Up(x)'
       /\ Up(next)' <=> ~WakeupIdle(next)
  BY <1>1, <1>2, <1>3, <1>9 DEF Up, TypeOK
<1>13. owner' = tids[next] /\ (next # Host0 => owner' = next) /\ owner' # None
  <2>1. CASE next = Idle
    BY Zenon, <1>1, <2>1
  <2>2. CASE next # Idle
    BY <1>1, <1>2, <1>5, <2>2 DEF Waits
  <2> QED BY Zenon, <2>1, <2>2
<1>14. TokenInv'
  <2>1. \A s \in Threads : pc'[s] \in RunLabels => owner' = s /\ tail' = None
    BY Zenon, <1>4
  <2>2. \A x \in Tasks : Up(x)' =>
          /\ x = next /\ owner' = tid'[x] /\ Waits(x)' /\ tail' = abs_prev'
          /\ x \in KThreads /\ pc'[x] = "boot" => prev_sched'[x] = abs_prev'
    <3> SUFFICES ASSUME NEW x \in Tasks, Up(x)'
                 PROVE  /\ x = next /\ owner' = tid'[x] /\ Waits(x)' /\ tail' = abs_prev'
                        /\ x \in KThreads /\ pc'[x] = "boot" => prev_sched'[x] = abs_prev'
      BY Zenon
    <3>1. x = next /\ ~WakeupIdle(next)
      BY Zenon, <1>12
    <3>2. Waits(x)' /\ owner' = tid'[x] /\ tail' = abs_prev'
      BY Zenon, <1>1, <1>8, <3>1
    <3>3. ASSUME x \in KThreads, pc'[x] = "boot" PROVE prev_sched'[x] = abs_prev'
      <4>1. current \in Tasks /\ prev_sched \in [Tasks -> Tasks \cup {None}]
        BY Zenon DEF TypeOK
      <4>2. CASE x = t
        BY Zenon, <1>2, <3>1, <3>3, <4>2 DEF CurrentInv, PcInv, RunLabels
      <4>3. CASE x # t
        BY Zenon, <1>1, <1>4, <3>1, <3>3, <4>1, <4>3
      <4> QED BY Zenon, <4>2, <4>3
    <3> QED BY Zenon, <3>1, <3>2, <3>3
  <2>3. idle_sem' > 0 => /\ owner' = Idle /\ next = Idle /\ pc'[Idle] = "pending"
                         /\ tail' = None
    BY <1>1, <1>3, <1>6, <1>7
  <2>4. owner' # None => Up(next)' \/ idle_sem' > 0
    BY <1>1, <1>3, <1>12
  <2>5. pc'[Idle] # "exited"
    BY Zenon, <1>1, <1>3, <1>4 DEF PcInv
  <2> QED BY Zenon, <1>1, <1>13, <2>1, <2>2, <2>3, <2>4, <2>5 DEF TokenInv
<1>15. tail' \in Tasks \cup {None}
  BY Zenon, <1>1 DEF TypeOK
<1>16. /\ current' # Idle => st[current'] = "run" /\ Up(current)' /\ Waits(current)'
       /\ current' = Idle => pc'[Idle] = "pending" \/ Up(Idle)'
  <2>1. CASE next = Idle
    BY Zenon, <1>1, <1>6, <1>7, <1>12, <2>1
  <2>2. CASE next # Idle
    <3>1. st[next] = "run" /\ Up(next)'
      BY Zenon, <1>2, <1>7, <1>12, <2>2 DEF Runnable
    <3>2. Up(current)' /\ Waits(current)'
      BY Zenon, <1>1, <1>5, <2>2, <3>1 DEF Up, Waits
    <3> QED BY Zenon, <1>1, <2>2, <3>1, <3>2
  <2> QED BY Zenon, <1>1, <2>1, <2>2
<1>17. \A x \in Tasks \ {current'} : sem'[x] = sem[x]
  BY Zenon, <1>1, <1>12
<1>18. CurrentInv'
  <2>1. next # Idle => pc'[Idle] \in {"switched", "pending"}
    <3>1. CASE t = Idle
      BY Zenon, <1>1, <3>1 DEF PcInv
    <3>2. CASE t # Idle
      <4>1. pc'[Idle] = pc[Idle] /\ pc[Idle] \notin RunLabels
        BY Zenon, <1>3, <1>4, <3>2
      <4> QED BY Zenon, <1>3, <4>1 DEF CurrentInv, PcInv, RunLabels
    <3> QED BY Zenon, <3>1, <3>2
  <2>2. next # Idle => state'[next] = "run" /\ Up(next)'
    BY Zenon, <1>2, <1>1, <1>7, <1>12 DEF Runnable
  <2>3. next \in Hosts => tid'[next] = next
    BY <1>5 DEF Waits
  <2>4. next = Idle => pc'[Idle] # "switched" \/ Up(Idle)'
    BY Zenon, <1>1, <1>16
  <2> QED BY Zenon, <1>1, <1>4, <2>1, <2>2, <2>3, <2>4 DEF CurrentInv, RunLabels
<1> QED BY Zenon, <1>1, <1>2, <1>10, <1>11, <1>13, <1>14, <1>15, <1>16, <1>17, <1>18
        DEF Switched

\* What every switch by t does: t is at label, another task is current, and the
\* thread of that task is let in.
Handover(t, label) ==
  /\ DOMAIN pc' = Threads /\ pc'[t] = label
  /\ \A u \in Threads \ {t} : pc'[u] = pc[u]
  /\ current' \in Tasks \ {current}
  /\ current' # Idle => state'[current'] = "run" /\ Up(current)' /\ Waits(current)'
  /\ \A x \in Tasks \ {current'} : sem'[x] = sem[x]
  /\ owner' = tid'[current']

\* Every switch of tasks (__switch_to) is such a handover.
LEMMA SwitchedHandsOver ==
  ASSUME IInv, NEW t \in Threads, NEW st, NEW tids, NEW label, Switched(t, st, tids, label)
  PROVE  Handover(t, label) /\ state' = st /\ tid' = tids
BY Zenon DEF IInv, PcInv, Switched, Handover

\* A switch changes nothing for a host task that it neither leaves nor moves.
LEMMA HostKept ==
  ASSUME IInv, NEW g \in Hosts, g # current, pc[Idle] # "exited",
         pc'[g] = pc[g], state'[g] = state[g], tid'[g] = tid[g],
         UNCHANGED <<dead, tls>>
  PROVE  HostTask(g)'
<1>1. HostTask(g)
  BY Zenon DEF IInv, HostInv
<1> QED BY Zenon, <1>1, ThreadsAssumption DEF HostTask, Waits, Tasks, HostTasks

\* Nor for the task of init, when that is not current and nobody borrows it.
LEMMA Host0Kept ==
  ASSUME IInv, NEW t \in Threads, pc[t] \in RunLabels, NEW label, label # "wait0",
         Handover(t, label), current # Host0, state'[Host0] = state[Host0],
         tid'[Host0] = tid[Host0], dead' = dead
  PROVE  Host0Inv'
<1> USE ThreadsAssumption DEF IInv, Tasks, Threads, HostTasks
<1>1. \A h \in Hosts : (pc'[h] = "wait0" <=> pc[h] = "wait0") /\ (pc[Idle] # "exited")
  BY Zenon, Alone DEF Handover, RunLabels
<1>2. Waits(Host0) => Waits(Host0)'
  BY Zenon, <1>1 DEF Waits
<1>3. current' = Host0 => Up(Host0)'
  BY Zenon DEF Handover
<1> QED BY Zenon, <1>1, <1>2, <1>3 DEF Host0Inv

\* A kernel thread that switches waits in its thread, runnable or not.
LEMMA KThreadKept ==
  ASSUME IInv, NEW t \in Threads, pc[t] \in RunLabels, NEW label, Handover(t, label),
         \A k \in KThreads :
           \/ state'[k] = state[k] /\ k # t
           \/ pc'[k] = "switched" /\ state'[k] \in {"run", "sleep", "dead"},
         \A k \in KThreads : state[k] = "none" => state'[k] = "none",
         \A k \in KThreads : tid'[k] = tid[k], dead' = dead
  PROVE  KThreadInv'
<1> USE ThreadsAssumption DEF IInv, Tasks, Threads, HostTasks
<1> SUFFICES ASSUME NEW k \in KThreads
             PROVE  /\ pc'[k] = "none" <=> state'[k] = "none"
                    /\ state'[k] # "none" => tid'[k] = k
                    /\ pc'[k] \in {"boot", "kernel", "join"} => state'[k] = "run"
                    /\ pc'[k] = "switched" => state'[k] \in {"run", "sleep", "dead"}
                    /\ pc'[k] = "exited" => dead'[k]
  BY Zenon DEF KThreadInv
<1>1. CASE state'[k] = state[k] /\ k # t
  BY <1>1 DEF Handover, KThreadInv
<1>2. CASE pc'[k] = "switched" /\ state'[k] \in {"run", "sleep", "dead"}
  BY Zenon, <1>2 DEF KThreadInv
<1> QED BY Zenon, <1>1, <1>2

\* No thread is being joined by one that switches.
LEMMA JoinKept ==
  ASSUME IInv, NEW t \in Threads, pc[t] \in RunLabels \ {"join"},
         NEW label, label \notin {"join", "killing"}, Handover(t, label),
         dead' = dead, join' = join, \A x \in Tasks : dead[x] => state'[x] = state[x]
  PROVE  JoinInv'
<1> USE ThreadsAssumption DEF IInv, Tasks, Threads, HostTasks
<1>1. ASSUME NEW x \in Tasks, dead[x]
      PROVE  /\ x \in KThreads /\ x # current' /\ state'[x] = "freed"
             /\ pc'[x] = IF sem'[x] > 0 THEN "switched" ELSE "exited"
  <2>1. state'[x] = "freed" /\ x \in KThreads
    BY Zenon, <1>1, Alone DEF JoinInv
  <2>2. x # t /\ x # current'
    BY <1>1, <2>1 DEF JoinInv, RunLabels, Handover
  <2> QED BY <1>1, <2>1, <2>2 DEF JoinInv, Handover
<1>2. \A u \in Threads : pc'[u] \in {"join", "killing"} <=> pc[u] \in {"join", "killing"}
  BY Zenon DEF Handover, RunLabels
<1> QED BY Zenon, <1>1, <1>2 DEF JoinInv

\* Once the reboot is on, only kernel threads and idle are switched to.
LEMMA HaltKept ==
  ASSUME IInv, NEW t \in Threads, pc[t] \in RunLabels, NEW label,
         label \notin RunLabels \cup HaltLabels \cup {"exited"},
         Handover(t, label), shutdown' = shutdown, tid'[Idle] = Idle
  PROVE  HaltInv'
<1> USE ThreadsAssumption DEF IInv, Tasks, Threads, HostTasks
<1>1. pc'[Idle] # "exited" /\ pc[Idle] # "exited"
  BY Zenon, Alone DEF Handover
<1>2. shutdown => t \notin Hosts
  BY Zenon DEF HaltInv, RunLabels, HaltLabels
<1>3. \A h \in Hosts : pc'[h] = pc[h] \/ (h = t /\ pc'[h] \notin HaltLabels)
  BY Zenon DEF Handover
<1>4. ASSUME shutdown PROVE current' \in KThreads \cup {Idle} /\ owner' = current'
  BY <1>2, <1>3, <1>4 DEF Handover, Waits, HaltInv, HaltLabels
<1>5. \A h \in Hosts : pc'[h] \in HaltLabels => pc'[h] = pc[h] /\ pc[h] # "cleanup"
                                               /\ pc[h] # "killing" /\ pc[h] # "halted"
  BY Zenon, <1>1, <1>3 DEF HaltInv
<1>6. \A h \in Hosts : pc'[h] \in HaltLabels => shutdown
  BY Zenon, <1>5 DEF HaltInv
<1> QED BY <1>1, <1>2, <1>3, <1>4, <1>5, <1>6 DEF HaltInv, HaltLabels

(***************************************************************************)
(* One lemma per action: it preserves the invariant.                       *)
(***************************************************************************)
\* lkl_cpu_get finds the CPU free.
LEMMA GetStep ==
  ASSUME IInv, NEW h \in Threads, Get(h)
  PROVE  IInv'
<1> USE ThreadsAssumption DEF IInv, Tasks, Threads, HostTasks, Get, Work, Goto, exitVars
<1>1. /\ h \in Hosts /\ pc[h] = "out" /\ owner = None /\ ~shutdown /\ owner' = h
      /\ pc' = [pc EXCEPT ![h] = pc'[h]]
      /\ pc'[h] \in (IF h \in tls THEN {"enter", "delete"} ELSE {"new"})
  BY Zenon DEF PcInv
<1>2. pc[Idle] # "exited" /\ idle_sem = 0 /\ \A x \in Tasks : ~Up(x)
  BY <1>1 DEF HaltInv, TokenInv, TypeOK, Waits
<1>3. \A s \in Threads : pc[s] \notin RunLabels
  BY Zenon, <1>1 DEF TokenInv
<1> USE <1>1, <1>2, <1>3
<1>4. TypeOK'
  BY DEF TypeOK
<1>5. PcInv'
  BY Zenon DEF PcInv, HostLabels, HaltLabels, RunLabels
<1>6. TokenInv'
  BY DEF PcInv, TokenInv, RunLabels, Up, Waits
<1>7. CurrentInv'
  BY DEF PcInv, CurrentInv, HostInv, HostTask, Up
<1>8. HostInv'
  BY DEF PcInv, HostInv, HostTask, HaltLabels, Waits
<1>9. Host0Inv'
  BY DEF PcInv, Host0Inv, Up, Waits
<1>10. KThreadInv'
  BY DEF PcInv, KThreadInv
<1>11. IdleInv'
  BY Zenon DEF PcInv, IdleInv
<1>12. JoinInv'
  BY DEF PcInv, JoinInv
<1>13. HaltInv'
  BY Zenon DEF PcInv, HaltInv, HaltLabels, Runnable
<1>14. ~mismatch'
  BY Zenon DEF FinishTaskSwitch
<1> QED BY Zenon, <1>4, <1>5, <1>6, <1>7, <1>8, <1>9, <1>10, <1>11, <1>12, <1>13, <1>14

\* lkl_trigger_irq finds the CPU free.
LEMMA TriggerIrqStep ==
  ASSUME IInv, TriggerIrq
  PROVE  IInv'
<1> USE ThreadsAssumption DEF IInv, Tasks, Threads, HostTasks, TriggerIrq, Goto, exitVars
<1>1. pc[Timer] = "out" /\ owner = None /\ ~shutdown
  BY Zenon
<1>2. pc[Idle] # "exited" /\ idle_sem = 0 /\ \A x \in Tasks : ~Up(x)
  BY <1>1 DEF HaltInv, TokenInv, TypeOK, Waits
<1>3. \A s \in Threads : pc[s] \notin RunLabels
  BY Zenon, <1>1 DEF TokenInv
<1> USE <1>1, <1>2, <1>3
<1>4. TypeOK'
  BY DEF TypeOK
<1>5. PcInv'
  BY Zenon DEF PcInv, HostLabels, HaltLabels, RunLabels
<1>6. TokenInv'
  BY Zenon DEF PcInv, TokenInv, RunLabels, Up, Waits
<1>7. CurrentInv'
  BY Zenon DEF PcInv, CurrentInv, Up
<1>8. HostInv'
  BY DEF PcInv, HostInv, HostTask, HaltLabels, Waits
<1>9. Host0Inv'
  BY Zenon DEF PcInv, Host0Inv, Up, Waits
<1>10. KThreadInv'
  BY Zenon DEF PcInv, KThreadInv
<1>11. IdleInv'
  BY Zenon DEF PcInv, IdleInv
<1>12. JoinInv'
  BY Zenon DEF PcInv, JoinInv
<1>13. HaltInv'
  BY Zenon DEF PcInv, HaltInv, HaltLabels, Runnable
<1>14. ~mismatch'
  BY Zenon DEF FinishTaskSwitch
<1> QED BY Zenon, <1>4, <1>5, <1>6, <1>7, <1>8, <1>9, <1>10, <1>11, <1>12, <1>13, <1>14

\* The last put: the CPU is free.
LEMMA PutStep ==
  ASSUME IInv, NEW t \in Threads, Put(t)
  PROVE  IInv'
<1> USE ThreadsAssumption DEF IInv, Tasks, Threads, HostTasks, Put, AtPut, Goto, exitVars
<1>1. t \in Hosts \cup {Timer} /\ pc[t] \in {"kernel", "put", "irq"}
      /\ pc' = [pc EXCEPT ![t] = "out"]
  BY Zenon
<1>2. pc[t] \in RunLabels
  BY Zenon, <1>1 DEF RunLabels
<1>3. /\ owner = t /\ tail = None /\ idle_sem = 0
      /\ \A x \in Tasks : ~Up(x)
      /\ \A s \in Threads : pc[s] \in RunLabels => s = t
      /\ pc[Idle] # "exited"
  BY Zenon, <1>2, Alone
<1> USE <1>1, <1>2, <1>3
<1>4. TypeOK'
  BY DEF TypeOK
<1>5. PcInv'
  BY DEF PcInv, HostLabels, HaltLabels, RunLabels
<1>6. TokenInv'
  BY Zenon DEF PcInv, TokenInv, RunLabels, Up, Waits
<1>7. CurrentInv'
  BY DEF PcInv, CurrentInv, Up
<1>8. HostInv'
  BY DEF PcInv, HostInv, HostTask, HaltLabels, Waits
<1>9. Host0Inv'
  BY Zenon DEF PcInv, Host0Inv, Up, Waits
<1>10. KThreadInv'
  BY DEF PcInv, KThreadInv
<1>11. IdleInv'
  BY Zenon DEF PcInv, IdleInv
<1>12. JoinInv'
  BY DEF PcInv, JoinInv
<1>13. HaltInv'
  BY Zenon DEF PcInv, HaltInv, HaltLabels, Runnable
<1>14. ~mismatch'
  BY Zenon DEF FinishTaskSwitch
<1> QED BY Zenon, <1>4, <1>5, <1>6, <1>7, <1>8, <1>9, <1>10, <1>11, <1>12, <1>13, <1>14

\* A task that waits becomes runnable.
LEMMA WakeUpStep ==
  ASSUME IInv, NEW t \in Threads, NEW x \in Hosts \cup KThreads, WakeUp(t, x)
  PROVE  IInv'
<1> USE ThreadsAssumption DEF IInv, Tasks, Threads, HostTasks, WakeUp, InKernel, Work, exitVars
<1>1. pc[t] \in RunLabels /\ pc[t] # "join" /\ state[x] = "sleep" /\ pc[x] = "switched"
  BY Zenon DEF RunLabels, Waiting
<1>2. /\ owner = t /\ tail = None /\ idle_sem = 0
      /\ \A y \in Tasks : ~Up(y)
      /\ pc[Idle] # "exited"
      /\ \A y \in Tasks : dead[y] => state[y] = "freed"
  BY Zenon, <1>1, Alone
<1> USE <1>1, <1>2
<1>3. TypeOK'
  BY DEF TypeOK
<1>4. PcInv'
  BY Zenon DEF PcInv, HostLabels, HaltLabels, RunLabels
<1>5. TokenInv'
  BY Zenon DEF PcInv, TokenInv, RunLabels, Up, Waits
<1>6. CurrentInv'
  BY DEF PcInv, CurrentInv, Up
<1>7. HostInv'
  BY DEF PcInv, HostInv, HostTask, HaltLabels, Waits
<1>8. Host0Inv'
  BY DEF PcInv, Host0Inv, Up, Waits
<1>9. KThreadInv'
  BY DEF PcInv, KThreadInv
<1>10. IdleInv'
  BY DEF PcInv, IdleInv
<1>11. JoinInv'
  BY DEF PcInv, JoinInv
<1>12. HaltInv'
  BY Zenon DEF PcInv, HaltInv, HaltLabels, Runnable
<1>13. ~mismatch'
  BY Zenon DEF FinishTaskSwitch
<1> QED BY Zenon, <1>3, <1>4, <1>5, <1>6, <1>7, <1>8, <1>9, <1>10, <1>11, <1>12, <1>13


\* new_host_task has made a task for h, runnable but not scheduled yet, or not.
LEMMA NewHostTaskStep ==
  ASSUME IInv, NEW h \in Threads, NewHostTask(h)
  PROVE  IInv'
<1> USE ThreadsAssumption DEF IInv, Tasks, Threads, HostTasks, NewHostTask, Goto, exitVars
<1>1. /\ h \in Hosts /\ pc[h] = "create" /\ pc[h] \in RunLabels
      /\ pc' = [pc EXCEPT ![h] = pc'[h]] /\ pc'[h] \in {"enter", "put"}
  BY Zenon DEF PcInv, RunLabels
<1>2. /\ owner = h /\ tail = None /\ idle_sem = 0
      /\ \A x \in Tasks : ~Up(x)
      /\ \A s \in Threads : pc[s] \in RunLabels => s = h
      /\ pc[Idle] # "exited"
  BY Zenon, <1>1, Alone
<1>3. current = Host0 /\ state[h] = "none"
  BY Zenon, <1>1 DEF CurrentInv, HostInv, HostTask
<1> USE <1>1, <1>2, <1>3
<1>4. TypeOK'
  BY DEF TypeOK
<1>5. PcInv'
  BY Zenon DEF PcInv, HostLabels, HaltLabels, RunLabels
<1>6. TokenInv'
  BY Zenon DEF PcInv, TokenInv, RunLabels, Up, Waits
<1>7. CurrentInv'
  BY DEF TypeOK, PcInv, CurrentInv, Up
<1>8. HostInv'
  BY DEF TypeOK, PcInv, HostInv, HostTask, HaltLabels, Waits
<1>9. Host0Inv'
  BY DEF TypeOK, PcInv, Host0Inv, Up, Waits
<1>10. KThreadInv'
  BY DEF TypeOK, PcInv, KThreadInv
<1>11. IdleInv'
  BY DEF TypeOK, PcInv, IdleInv
<1>12. JoinInv'
  BY DEF TypeOK, PcInv, JoinInv
<1>13. HaltInv'
  BY Zenon DEF PcInv, HaltInv, HaltLabels, Runnable
<1>14. ~mismatch'
  BY Zenon DEF FinishTaskSwitch
<1> QED BY Zenon, <1>4, <1>5, <1>6, <1>7, <1>8, <1>9, <1>10, <1>11, <1>12, <1>13, <1>14

\* copy_thread has made the thread of a new task.
LEMMA KernelThreadStep ==
  ASSUME IInv, NEW k \in KThreads, KernelThread(k)
  PROVE  IInv'
<1> USE ThreadsAssumption DEF IInv, Tasks, Threads, HostTasks, KernelThread, Goto, exitVars
<1>1. /\ pc[Kthreadd] = "kernel" /\ Kthreadd \in Threads /\ pc[Kthreadd] \in RunLabels
      /\ state[k] = "none" /\ pc[k] = "none" /\ k # current
      /\ pc' = [pc EXCEPT ![k] = "boot"]
  BY Zenon DEF RunLabels, KThreadInv, CurrentInv
<1>2. /\ owner = Kthreadd /\ tail = None /\ idle_sem = 0
      /\ \A x \in Tasks : ~Up(x)
      /\ \A s \in Threads : pc[s] \in RunLabels => s = Kthreadd
      /\ pc[Idle] # "exited"
  BY Zenon, <1>1, Alone
<1> USE <1>1, <1>2
<1>3. TypeOK'
  BY DEF TypeOK
<1>4. PcInv'
  BY Zenon DEF PcInv, HostLabels, HaltLabels, RunLabels
<1>5. TokenInv'
  BY Zenon DEF PcInv, TokenInv, RunLabels, Up, Waits
<1>6. CurrentInv'
  BY DEF PcInv, CurrentInv, Up
<1>7. HostInv'
  BY DEF PcInv, HostInv, HostTask, HaltLabels, Waits
<1>8. Host0Inv'
  BY DEF PcInv, Host0Inv, Up, Waits
<1>9. KThreadInv'
  BY DEF TypeOK, PcInv, KThreadInv
<1>10. IdleInv'
  BY DEF PcInv, IdleInv
<1>11. JoinInv'
  BY DEF PcInv, JoinInv
<1>12. HaltInv'
  BY Zenon DEF PcInv, HaltInv, HaltLabels, Runnable
<1>13. ~mismatch'
  BY Zenon DEF FinishTaskSwitch
<1> QED BY Zenon, <1>3, <1>4, <1>5, <1>6, <1>7, <1>8, <1>9, <1>10, <1>11, <1>12, <1>13

\* arch_cpu_idle puts the CPU; the idle thread is pending.
LEMMA ArchCpuIdleStep ==
  ASSUME IInv, ArchCpuIdle
  PROVE  IInv'
<1> USE ThreadsAssumption DEF IInv, Tasks, Threads, HostTasks, ArchCpuIdle, SetPending,
     Goto, exitVars
<1>1. pc[Idle] = "kernel" /\ pc[Idle] \in RunLabels /\ pc' = [pc EXCEPT ![Idle] = "pending"]
  BY Zenon DEF RunLabels
<1>2. /\ owner = Idle /\ tail = None /\ idle_sem = 0
      /\ \A x \in Tasks : ~Up(x)
      /\ \A s \in Threads : pc[s] \in RunLabels => s = Idle
      /\ pc[Idle] # "exited" /\ current = Idle
  BY Zenon, <1>1, Alone DEF CurrentInv
<1> USE <1>1, <1>2
<1>3. TypeOK'
  BY Zenon DEF TypeOK
<1>4. PcInv'
  BY Zenon DEF PcInv, HostLabels, HaltLabels, RunLabels
<1>5. TokenInv'
  BY Zenon DEF PcInv, TokenInv, RunLabels, Up, Waits
<1>6. CurrentInv'
  BY Zenon DEF PcInv, CurrentInv, Up
<1>7. HostInv'
  BY DEF PcInv, HostInv, HostTask, HaltLabels, Waits
<1>8. Host0Inv'
  BY Zenon DEF PcInv, Host0Inv, Up, Waits
<1>9. KThreadInv'
  BY Zenon DEF PcInv, KThreadInv
<1>10. IdleInv'
  BY Zenon DEF PcInv, IdleInv
<1>11. JoinInv'
  BY DEF PcInv, JoinInv
<1>12. HaltInv'
  BY Zenon DEF PcInv, HaltInv, HaltLabels, Runnable
<1>13. ~mismatch'
  BY Zenon DEF FinishTaskSwitch
<1> QED BY Zenon, <1>3, <1>4, <1>5, <1>6, <1>7, <1>8, <1>9, <1>10, <1>11, <1>12, <1>13

\* A switch to the idle task has woken its thread.
LEMMA IdleWokenStep ==
  ASSUME IInv, IdleWoken
  PROVE  IInv'
<1> USE ThreadsAssumption DEF IInv, Tasks, Threads, HostTasks, IdleWoken, Goto, exitVars
<1>1. /\ pc[Idle] = "pending" /\ idle_sem = 1 /\ idle_sem' = 0 /\ owner = Idle
      /\ current = Idle /\ tail = None /\ pc' = [pc EXCEPT ![Idle] = "kernel"]
  BY DEF TokenInv, TypeOK
<1>2. \A x \in Tasks : ~Up(x)
  BY Zenon, <1>1 DEF TokenInv, Waits
<1>3. TypeOK'
  <2>1. idle_sem' \in 0..1
    BY <1>1
  <2>2. idle_pending' \in BOOLEAN
    BY Zenon
  <2> QED BY <2>1, <2>2 DEF TypeOK
<1> USE <1>1, <1>2
<1>4. PcInv'
  BY Zenon DEF PcInv, HostLabels, HaltLabels, RunLabels
<1>5. TokenInv'
  BY DEF PcInv, TokenInv, RunLabels, Up, Waits
<1>6. CurrentInv'
  BY Zenon DEF PcInv, CurrentInv, Up
<1>7. HostInv'
  BY DEF PcInv, HostInv, HostTask, HaltLabels, Waits
<1>8. Host0Inv'
  BY Zenon DEF PcInv, Host0Inv, Up, Waits
<1>9. KThreadInv'
  BY Zenon DEF PcInv, KThreadInv
<1>10. IdleInv'
  BY Zenon DEF PcInv, IdleInv
<1>11. JoinInv'
  BY DEF PcInv, JoinInv
<1>12. HaltInv'
  BY Zenon DEF PcInv, HaltInv, HaltLabels, Runnable
<1>13. ~mismatch'
  BY Zenon DEF FinishTaskSwitch
<1> QED BY Zenon, <1>3, <1>4, <1>5, <1>6, <1>7, <1>8, <1>9, <1>10, <1>11, <1>12, <1>13

\* lkl_cpu_shutdown has been called, nothing is left to run: the idle thread exits.
LEMMA IdleShutdownStep ==
  ASSUME IInv, IdleShutdown
  PROVE  IInv'
<1> USE ThreadsAssumption DEF IInv, Tasks, Threads, HostTasks, IdleShutdown,
     NothingToRun, Goto, switchVars, exitVars
<1>1. pc[Idle] = "kernel" /\ pc[Idle] \in RunLabels /\ pc' = [pc EXCEPT ![Idle] = "exited"]
  BY Zenon DEF RunLabels
<1>2. /\ owner = Idle /\ tail = None /\ idle_sem = 0
      /\ \A x \in Tasks : ~Up(x)
      /\ \A s \in Threads : pc[s] \in RunLabels => s = Idle
      /\ pc[Idle] # "exited" /\ current = Idle
  BY Zenon, <1>1, Alone DEF CurrentInv
<1> USE <1>1, <1>2
<1>3. TypeOK'
  BY Zenon DEF TypeOK
<1>4. PcInv'
  BY Zenon DEF PcInv, HostLabels, HaltLabels, RunLabels
<1>5. TokenInv'
  BY Zenon DEF PcInv, TokenInv, RunLabels, Up, Waits
<1>6. CurrentInv'
  BY Zenon DEF PcInv, CurrentInv, Up
<1>7. HostInv'
  BY DEF PcInv, HostInv, HostTask, HaltLabels, Waits
<1>8. Host0Inv'
  BY Zenon DEF PcInv, Host0Inv, Up, Waits
<1>9. KThreadInv'
  BY Zenon DEF PcInv, KThreadInv
<1>10. IdleInv'
  BY Zenon DEF PcInv, IdleInv
<1>11. JoinInv'
  BY DEF PcInv, JoinInv
<1>12. HaltInv'
  BY Zenon DEF PcInv, HaltInv, HaltLabels, Runnable
<1>13. ~mismatch'
  BY Zenon DEF FinishTaskSwitch
<1> QED BY Zenon, <1>3, <1>4, <1>5, <1>6, <1>7, <1>8, <1>9, <1>10, <1>11, <1>12, <1>13

\* lkl_cpu_wait_shutdown returns after the idle thread has exited.
LEMMA ShutdownSeenStep ==
  ASSUME IInv, NEW h \in Threads, ShutdownSeen(h)
  PROVE  IInv'
<1> USE ThreadsAssumption DEF IInv, Tasks, Threads, HostTasks, ShutdownSeen, Goto,
     switchVars, exitVars
<1>1. h \in Hosts /\ pc[h] = "halting" /\ pc[Idle] = "exited" /\ pc' = [pc EXCEPT ![h] = "cleanup"]
  BY Zenon
<1>2. \A x \in Tasks : ~Up(x)
  BY <1>1 DEF TokenInv, Waits, HostInv, HostTask, Host0Inv, KThreadInv
<1> USE <1>1, <1>2
<1>3. TypeOK'
  BY DEF TypeOK
<1>4. PcInv'
  BY Zenon DEF PcInv, HostLabels, HaltLabels, RunLabels
<1>5. TokenInv'
  BY DEF PcInv, TokenInv, RunLabels, Up, Waits
<1>6. CurrentInv'
  BY Zenon DEF PcInv, CurrentInv, Up
<1>7. HostInv'
  BY DEF PcInv, HostInv, HostTask, HaltLabels, Waits
<1>8. Host0Inv'
  BY DEF PcInv, Host0Inv, Up, Waits
<1>9. KThreadInv'
  BY Zenon DEF PcInv, KThreadInv
<1>10. IdleInv'
  BY Zenon DEF PcInv, IdleInv
<1>11. JoinInv'
  BY DEF PcInv, JoinInv
<1>12. HaltInv'
  BY DEF PcInv, HaltInv, HaltLabels, Runnable
<1>13. ~mismatch'
  BY Zenon DEF FinishTaskSwitch
<1> QED BY Zenon, <1>3, <1>4, <1>5, <1>6, <1>7, <1>8, <1>9, <1>10, <1>11, <1>12, <1>13



\* The thread that a semaphore lets in finds nobody in the kernel and the switch
\* to its task not finished.
LEMMA LetIn ==
  ASSUME IInv, NEW x \in Tasks, Up(x)
  PROVE  /\ x = current /\ owner = tid[x] /\ Waits(x) /\ tail = abs_prev
         /\ idle_sem = 0 /\ \A y \in Tasks : Up(y) => y = x
         /\ \A s \in Threads : pc[s] \notin RunLabels
         /\ pc[Idle] # "exited"
<1> USE ThreadsAssumption DEF IInv, Tasks, Threads, HostTasks
<1>1. x = current /\ owner = tid[x] /\ Waits(x) /\ tail = abs_prev
  BY Zenon DEF TokenInv
<1>2. tail # None /\ \A y \in Tasks : Up(y) => y = x
  BY Zenon, <1>1 DEF TokenInv, TypeOK
<1>3. /\ idle_sem = 0 /\ pc[Idle] # "exited"
      /\ \A s \in Threads : pc[s] \notin RunLabels
  BY <1>2 DEF TokenInv, TypeOK
<1> QED BY Zenon, <1>1, <1>2, <1>3

\* The thread t, let in by the semaphore of x, goes on at label as the task x.
Entry(t, x, label) ==
  \/ x = Host0 /\ t \in Hosts /\ pc[t] = "wait0" /\ label = "create"
  \/ x = t /\ t \in Hosts /\ pc[t] = "waitd" /\ label = "exit"
  \/ x = t /\ t \in Hosts /\ pc[t] \in {"wait", "switched"} /\ label = "kernel"
  \/ x = t /\ t \in KThreads /\ pc[t] \in {"boot", "switched"} /\ label = "kernel"
  \/ x = t /\ t = Idle /\ pc[t] = "switched" /\ label = "kernel"

\* Coming in through the semaphore of a task (the sem_down that ends a wait or a
\* switch) keeps the invariant: the one token goes from the semaphore to t.
LEMMA EntryStep ==
  ASSUME IInv, NEW t \in Threads, NEW x \in Tasks, NEW label, Entry(t, x, label),
         Up(x), tid[x] = t,
         DOMAIN pc' = Threads, pc'[t] = label, \A u \in Threads \ {t} : pc'[u] = pc[u],
         sem' \in [Tasks -> 0..1], sem'[x] = 0, \A y \in Tasks \ {x} : sem'[y] = sem[y],
         tail' = None, ~mismatch', mismatch' \in BOOLEAN,
         prev_sched' \in [Tasks -> Tasks \cup {None}],
         UNCHANGED <<owner, current, abs_prev, state, idle_sem, exitVars, tid,
                     idle_pending, tls, work>>
  PROVE  IInv'
<1> USE ThreadsAssumption DEF IInv, Tasks, Threads, HostTasks, exitVars
<1>1. /\ x = current /\ owner = t /\ ~(idle_sem > 0)
      /\ \A y \in Tasks : Up(y) => y = x
      /\ \A s \in Threads : pc[s] \notin RunLabels
      /\ pc[Idle] # "exited"
  BY Zenon, UpDown, LetIn
<1>2. /\ label \in {"create", "kernel", "exit"} /\ label \in RunLabels /\ x \in {Host0, t}
      /\ pc[t] \in {"wait0", "waitd", "wait", "switched", "boot"}
      /\ t \in Hosts \cup KThreads \cup {Idle}
  BY Zenon DEF Entry, RunLabels
<1>a. t \in KThreads => x = t /\ pc'[t] = "kernel"
  BY Zenon DEF Entry
<1>b. t = Idle => x = t /\ pc'[t] = "kernel"
  BY Zenon DEF Entry
<1>3. \A u \in Threads : pc'[u] \in RunLabels => u = t
  BY Zenon, <1>1
<1>4. \A y \in Tasks : ~Up(y)'
  <2>1. ~Up(x)'
    BY Zenon, UpDown DEF Up
  <2> QED BY Zenon, <1>1, <2>1 DEF Up
<1>5. x # Idle => state[x] = "run"
  BY Zenon, <1>1 DEF CurrentInv
<1>6. TypeOK'
  BY DEF TypeOK
<1>7. PcInv'
  <2>1. \A h \in Hosts : pc'[h] \in HostLabels
    BY Zenon, <1>2 DEF PcInv, HostLabels, RunLabels
  <2>2. \A k \in KThreads :
          pc'[k] \in {"none", "boot", "kernel", "join", "switched", "exited"}
    BY Zenon DEF PcInv, Entry
  <2>3. pc'[Idle] \in {"kernel", "join", "switched", "pending", "exited"}
    BY Zenon DEF PcInv, Entry
  <2>4. pc'[Timer] \in {"out", "irq", "join"}
    BY Zenon, <1>2 DEF PcInv
  <2> QED BY Zenon, <2>1, <2>2, <2>3, <2>4 DEF PcInv
<1>8. TokenInv'
  <2>1. pc'[owner] \in RunLabels /\ pc'[Idle] # "exited"
    BY Zenon, <1>1, <1>2
  <2> QED BY Zenon, <1>1, <1>3, <1>4, <2>1 DEF TokenInv
<1>9. CurrentInv'
  <2>1. \A u \in Threads \ {Timer} : pc'[u] \in {"kernel", "exit", "join"} => current = u
    BY Zenon, <1>1, <1>3 DEF Entry, RunLabels
  <2>2. \A h \in Hosts : pc'[h] \in {"create", "put"} => current = Host0
    BY Zenon, <1>1, <1>3 DEF Entry, RunLabels
  <2>3. current \in KThreads => pc'[current] = "kernel"
    BY Zenon, <1>1 DEF Entry
  <2>4. current \in Hosts => tid'[current] = current /\ pc'[current] \in {"kernel", "exit"}
    BY Zenon, <1>1 DEF Entry
  <2>5. current = Idle => pc'[Idle] # "switched"
    BY Zenon, <1>1, <1>2, <1>b
  <2>6. current # Idle => pc'[Idle] = pc[Idle]
    BY Zenon, <1>1, <1>b
  <2> QED BY Zenon, <2>1, <2>2, <2>3, <2>4, <2>5, <2>6 DEF CurrentInv
<1>10. HostInv'
  <2> SUFFICES ASSUME NEW g \in Hosts PROVE HostTask(g)'
    BY Zenon DEF HostInv
  <2>1. CASE g # t
    <3>1. g # Host0 /\ pc'[g] = pc[g]
      BY Zenon, <2>1
    <3>2. g # current
      BY Zenon, <1>1, <1>2, <2>1, <3>1
    <3> QED BY Zenon, <1>1, <3>1, <3>2, HostKept
  <2>2. CASE g = t
    <3>1. HostTask(g)
      BY Zenon DEF HostInv
    <3>2. CASE pc'[g] = "create" /\ pc[g] = "wait0"
      BY Zenon, <3>1, <3>2 DEF HostTask, HaltLabels
    <3>3. CASE pc'[g] \in {"kernel", "exit"} /\ g = current /\ state[g] = "run"
      BY Zenon, <3>1, <3>3 DEF HostTask, HaltLabels
    <3> QED BY Zenon, <1>1, <1>5, <2>2, <3>2, <3>3 DEF Entry
  <2> QED BY Zenon, <2>1, <2>2
<1>11. Host0Inv'
  <2>1. \A h \in Hosts : pc'[h] = "wait0" => h # t /\ pc[h] = "wait0"
    BY Zenon, <1>2
  <2>2. ASSUME state[Host0] = "run", current # Host0 PROVE Waits(Host0)'
    <3>1. tid[Host0] \in Hosts /\ pc[tid[Host0]] = "wait0"
      BY Zenon, <2>2 DEF Host0Inv, Waits
    <3>2. tid[Host0] # t
      BY Zenon, <1>1, <2>2, <3>1 DEF Entry
    <3> QED BY Zenon, <3>1, <3>2 DEF Waits
  <2>3. \A h \in Hosts : pc[h] = "wait0" => tid[Host0] = h /\ state[Host0] = "run"
    BY Zenon DEF Host0Inv
  <2>4. ASSUME NEW h \in Hosts, pc'[h] = "wait0" PROVE current # Host0
    <3>1. tid[Host0] # t
      BY Zenon, <2>1, <2>3, <2>4
    <3> QED BY Zenon, <1>1, <3>1
  <2> QED BY Zenon, <1>1, <2>1, <2>2, <2>3, <2>4 DEF Host0Inv
<1>12. KThreadInv'
  <2> SUFFICES ASSUME NEW k \in KThreads
               PROVE  /\ pc'[k] = "none" <=> state[k] = "none"
                      /\ pc'[k] \in {"boot", "kernel", "join"} => state[k] = "run"
                      /\ pc'[k] = "switched" => state[k] \in {"run", "sleep", "dead"}
                      /\ pc'[k] = "exited" => dead[k]
    BY Zenon DEF KThreadInv
  <2>1. CASE k # t
    BY Zenon, <2>1 DEF KThreadInv
  <2>2. CASE k = t
    <3>1. pc'[k] = "kernel" /\ x = k
      BY Zenon, <1>a, <2>2
    <3>2. state[k] = "run"
      BY Zenon, <1>5, <3>1
    <3> QED BY Zenon, <3>1, <3>2
  <2> QED BY Zenon, <2>1, <2>2
<1>13. IdleInv'
  <2>1. pc'[Idle] = "pending" <=> pc[Idle] = "pending"
    BY Zenon, <1>2
  <2> QED BY Zenon, <1>1, <2>1 DEF IdleInv
<1>14. JoinInv'
  <2>1. ASSUME NEW y \in Tasks, dead[y] PROVE pc'[y] = pc[y] /\ sem'[y] = sem[y]
    <3>1. y \in KThreads /\ y # x
      BY Zenon, <1>1, <2>1 DEF JoinInv
    <3>2. y # t
      BY Zenon, <1>a, <3>1
    <3> QED BY Zenon, <3>1, <3>2
  <2>2. \A u \in Threads : pc'[u] \in {"join", "killing"} <=> pc[u] \in {"join", "killing"}
    BY Zenon, <1>2
  <2> QED BY Zenon, <2>1, <2>2 DEF JoinInv
<1>15. HaltInv'
  <2>1. \A h \in Hosts : pc'[h] \in HaltLabels => pc[h] \in HaltLabels /\ h # t
    BY Zenon, <1>2 DEF HaltLabels
  <2>2. \A h \in Hosts : pc[h] \in HaltLabels \cup {"out", "gone"} => pc'[h] = pc[h]
    BY Zenon, <1>2 DEF HaltLabels
  <2>3. pc'[Idle] # "exited"
    BY Zenon, <1>1, <1>2
  <2>4. \A h \in Hosts : pc'[h] \notin {"cleanup", "killing", "halted"}
    BY Zenon, <1>1, <1>2 DEF HaltInv
  <2> QED BY Zenon, <2>1, <2>2, <2>3, <2>4 DEF HaltInv
<1> QED BY Zenon, <1>6, <1>7, <1>8, <1>9, <1>10, <1>11, <1>12, <1>13, <1>14, <1>15

\* A thread that was killed leaves __switch_to and exits.
LEMMA KilledExits ==
  ASSUME IInv, NEW t \in Tasks, dead[t], pc[t] = "switched",
         DOMAIN pc' = Threads, pc'[t] = "exited", \A u \in Threads \ {t} : pc'[u] = pc[u],
         sem' \in [Tasks -> 0..1], sem'[t] = 0, \A y \in Tasks \ {t} : sem'[y] = sem[y],
         UNCHANGED <<owner, current, abs_prev, prev_sched, state, idle_sem, tail, exitVars,
                     tid, idle_pending, mismatch, tls, work>>
  PROVE  IInv'
<1> USE ThreadsAssumption DEF IInv, Tasks, Threads, HostTasks, exitVars
<1>1. /\ t \in KThreads /\ t # current /\ t # Idle /\ t \notin Hosts /\ t # Timer
      /\ state[t] \in {"dead", "sleep", "freed"}
  BY Zenon DEF JoinInv
<1>2. pc'[Idle] = pc[Idle] /\ pc'[Timer] = pc[Timer] /\ \A h \in Hosts : pc'[h] = pc[h]
  BY Zenon, <1>1
<1>3. \A u \in Threads : pc'[u] \in RunLabels \/ pc[u] \in RunLabels => pc'[u] = pc[u]
  BY Zenon, <1>1 DEF RunLabels
<1>4. \A y \in Tasks : Up(y)' <=> Up(y)
  BY Zenon DEF Up
<1>5. \A y \in Tasks \ {t} : Waits(y)' <=> Waits(y)
  <2>1. Waits(Host0)' <=> Waits(Host0)
    BY Zenon, <1>2 DEF Waits
  <2> QED BY Zenon, <2>1 DEF Waits
<1>6. TypeOK'
  BY DEF TypeOK
<1>7. PcInv'
  BY Zenon, <1>2 DEF PcInv
<1>8. TokenInv'
  <2>1. \A y \in Tasks : Up(y)' =>
          /\ y = current /\ owner = tid[y] /\ Waits(y)' /\ tail = abs_prev
          /\ y \in KThreads /\ pc'[y] = "boot" => prev_sched[y] = abs_prev
    BY Zenon, <1>1, <1>4, <1>5 DEF TokenInv
  <2>2. owner # None => \/ pc'[owner] \in RunLabels \/ Up(current)' \/ idle_sem > 0
                        \/ pc'[Idle] = "exited"
    BY Zenon, <1>2, <1>3, <1>4 DEF TokenInv, TypeOK
  <2>3. \A u \in Threads : pc'[u] \in RunLabels => owner = u /\ tail = None
    BY Zenon, <1>3 DEF TokenInv
  <2> QED BY Zenon, <1>2, <2>1, <2>2, <2>3 DEF TokenInv
<1>9. CurrentInv'
  <2>1. \A u \in Threads \ {Timer} : pc'[u] \in {"kernel", "exit", "join"} => current = u
    BY Zenon DEF CurrentInv
  <2>2. current \in KThreads => pc'[current] \in {"kernel", "join"} \/ Up(current)'
    BY Zenon, <1>1, <1>4 DEF CurrentInv
  <2>3. Up(current)' <=> Up(current)
    BY Zenon, <1>4 DEF TypeOK
  <2> QED BY Zenon, <1>2, <2>1, <2>2, <2>3 DEF CurrentInv
<1>10. HostInv'
  <2> SUFFICES ASSUME NEW g \in Hosts PROVE HostTask(g)'
    BY Zenon DEF HostInv
  <2>1. HostTask(g) /\ pc'[g] = pc[g] /\ (Waits(g)' <=> Waits(g))
    BY Zenon, <1>1, <1>2, <1>5 DEF HostInv
  <2> QED BY Zenon, <1>2, <2>1 DEF HostTask
<1>11. Host0Inv'
  <2>1. (Waits(Host0)' <=> Waits(Host0)) /\ (Up(Host0)' <=> Up(Host0))
    BY Zenon, <1>1, <1>4, <1>5
  <2> QED BY Zenon, <1>2, <2>1 DEF Host0Inv
<1>12. KThreadInv'
  <2> SUFFICES ASSUME NEW k \in KThreads
               PROVE  /\ pc'[k] = "none" <=> state[k] = "none"
                      /\ pc'[k] \in {"boot", "kernel", "join"} => state[k] = "run"
                      /\ pc'[k] = "switched" => state[k] \in {"run", "sleep", "dead"}
                      /\ pc'[k] = "exited" => dead[k]
    BY Zenon DEF KThreadInv
  <2>1. CASE k # t
    BY Zenon, <2>1 DEF KThreadInv
  <2>2. CASE k = t
    BY Zenon, <1>1, <2>2
  <2> QED BY Zenon, <2>1, <2>2
<1>13. IdleInv'
  BY Zenon, <1>2 DEF IdleInv
<1>14. JoinInv'
  <2>1. ASSUME NEW y \in Tasks, dead[y]
        PROVE  pc'[y] = IF sem'[y] > 0 THEN "switched" ELSE "exited"
    <3>1. CASE y = t
      BY Zenon, <3>1, UpDown
    <3>2. CASE y # t
      <4>1. y \in Threads /\ pc[y] = IF sem[y] > 0 THEN "switched" ELSE "exited"
        BY Zenon, <2>1 DEF JoinInv
      <4> QED BY Zenon, <3>2, <4>1
    <3> QED BY Zenon, <3>1, <3>2
  <2>2. \A u \in Threads : pc'[u] \in {"join", "killing"} <=> pc[u] \in {"join", "killing"}
    BY Zenon
  <2> QED BY Zenon, <2>1, <2>2 DEF JoinInv
<1>15. HaltInv'
  BY Zenon, <1>2 DEF HaltInv
<1>16. ~mismatch'
  BY Zenon
<1> QED BY Zenon, <1>6, <1>7, <1>8, <1>9, <1>10, <1>11, <1>12, <1>13, <1>14, <1>15, <1>16

\* sem_down, and the jump to label.
LEMMA DownIs ==
  ASSUME IInv, NEW t \in Threads, NEW x \in Tasks, NEW label, Down(x), Goto(t, label)
  PROVE  /\ DOMAIN pc' = Threads /\ pc'[t] = label
         /\ \A u \in Threads \ {t} : pc'[u] = pc[u]
         /\ sem' \in [Tasks -> 0..1] /\ sem'[x] = 0
         /\ \A y \in Tasks \ {x} : sem'[y] = sem[y]
<1>1. /\ DOMAIN pc' = Threads /\ pc'[t] = label
      /\ \A u \in Threads \ {t} : pc'[u] = pc[u]
  BY Zenon DEF Goto, IInv, PcInv
<1>2. sem \in [Tasks -> 0..1] /\ sem[x] > 0 /\ sem' = [sem EXCEPT ![x] = sem[x] - 1]
  BY Zenon DEF Down, IInv, TypeOK
<1>3. \A n \in 0..1 : n > 0 => n - 1 = 0
  BY SMT
<1>4. 0 \in 0..1 /\ sem[x] - 1 = 0
  <2>1. 0 \in 0..1
    BY SMT
  <2> QED BY Zenon, <1>2, <1>3, <2>1
<1> QED BY Zenon, <1>1, <1>2, <1>4

\* A task runs again and finishes the switch to it, or a killed thread exits.
LEMMA SwitchedBackStep ==
  ASSUME IInv, NEW t \in Threads, SwitchedBack(t)
  PROVE  IInv'
<1> USE ThreadsAssumption DEF IInv, Tasks, Threads, HostTasks
<1>1. t \in Tasks /\ t # Host0 /\ pc[t] = "switched" /\ Down(t)
  BY Zenon DEF SwitchedBack, PcInv
<1>2. UNCHANGED <<owner, current, abs_prev, prev_sched, state, idle_sem, exitVars, tid,
                  idle_pending, tls, work>>
  BY Zenon DEF SwitchedBack
<1>3. CASE dead[t]
  <2>1. Goto(t, "exited") /\ UNCHANGED <<tail, mismatch>>
    BY Zenon, <1>3 DEF SwitchedBack
  <2> HIDE DEF IInv, Tasks, Threads
  <2>2. /\ DOMAIN pc' = Threads /\ pc'[t] = "exited"
        /\ \A u \in Threads \ {t} : pc'[u] = pc[u]
        /\ sem' \in [Tasks -> 0..1] /\ sem'[t] = 0
        /\ \A y \in Tasks \ {t} : sem'[y] = sem[y]
    BY Zenon, <1>1, <2>1, DownIs
  <2> QED BY Zenon, <1>1, <1>2, <1>3, <2>1, <2>2, KilledExits
<1>4. CASE ~dead[t]
  <2>1. Goto(t, "kernel") /\ tail' = None /\ mismatch' = (mismatch \/ abs_prev # tail)
    BY Zenon, <1>4 DEF SwitchedBack, FinishTaskSwitch, Returned
  <2>2. Up(t)
    BY Zenon, <1>1, <1>4 DEF Up, Down
  <2>3. tail = abs_prev /\ tid[t] = t
    BY Zenon, <1>1, <2>2, LetIn DEF Waits
  <2>4. ~mismatch' /\ mismatch' \in BOOLEAN
    BY Zenon, <2>1, <2>3
  <2>5. Entry(t, t, "kernel")
    BY Zenon, <1>1 DEF Entry
  <2>6. prev_sched' \in [Tasks -> Tasks \cup {None}]
    BY Zenon, <1>2 DEF TypeOK
  <2> HIDE DEF IInv, Tasks, Threads
  <2>7. /\ DOMAIN pc' = Threads /\ pc'[t] = "kernel"
        /\ \A u \in Threads \ {t} : pc'[u] = pc[u]
        /\ sem' \in [Tasks -> 0..1] /\ sem'[t] = 0
        /\ \A y \in Tasks \ {t} : sem'[y] = sem[y]
    BY Zenon, <1>1, <2>1, DownIs
  <2> QED BY Zenon, <1>1, <1>2, <2>1, <2>2, <2>3, <2>4, <2>5, <2>6, <2>7, EntryStep
<1> QED BY Zenon, <1>3, <1>4

\* A host thread has the task it waited for and finishes the switch to it.
LEMMA TaskEnteredStep ==
  ASSUME IInv, NEW h \in Threads, TaskEntered(h)
  PROVE  IInv'
<1> USE ThreadsAssumption DEF IInv, Tasks, Threads, HostTasks
<1>1. PICK x \in {Host0, h}, wait \in {"wait0", "wait", "waitd"},
           done \in {"create", "kernel", "exit"} :
        /\ SwitchedToHostTask(h, x, wait, done) /\ Entry(h, x, done)
        /\ x = Host0 <=> wait = "wait0"
  BY Zenon DEF TaskEntered, SwitchedToHostTask, Entry
<1>2. /\ h \in Hosts /\ pc[h] = wait /\ Down(x) /\ Goto(h, done) /\ tail' = None
      /\ mismatch' = (mismatch \/ abs_prev # tail)
      /\ UNCHANGED <<owner, current, abs_prev, prev_sched, state, idle_sem, exitVars, tid,
                     idle_pending, tls, work>>
  BY Zenon, <1>1 DEF SwitchedToHostTask, FinishTaskSwitch, TaskEntered
<1>3. x \in Tasks /\ tid[x] = h /\ ~dead[x]
  BY Zenon, <1>1, <1>2 DEF HostInv, HostTask, Host0Inv
<1>4. Up(x)
  BY Zenon, <1>2, <1>3 DEF Up, Down
<1>5. tail = abs_prev
  BY Zenon, <1>3, <1>4, LetIn
<1>6. ~mismatch' /\ mismatch' \in BOOLEAN
  BY Zenon, <1>2, <1>5
<1>7. prev_sched' \in [Tasks -> Tasks \cup {None}]
  BY Zenon, <1>2 DEF TypeOK
<1> HIDE DEF IInv, Tasks, Threads
<1>8. /\ DOMAIN pc' = Threads /\ pc'[h] = done
      /\ \A u \in Threads \ {h} : pc'[u] = pc[u]
      /\ sem' \in [Tasks -> 0..1] /\ sem'[x] = 0
      /\ \A y \in Tasks \ {x} : sem'[y] = sem[y]
  BY Zenon, <1>2, <1>3, DownIs
<1> QED BY Zenon, <1>1, <1>2, <1>3, <1>4, <1>6, <1>7, <1>8, EntryStep

\* thread_bootstrap finishes the switch that its prev_sched names.
LEMMA ThreadBootstrapStep ==
  ASSUME IInv, NEW k \in Threads, ThreadBootstrap(k)
  PROVE  IInv'
<1> USE ThreadsAssumption DEF IInv, Tasks, Threads, HostTasks
<1>1. /\ k \in KThreads /\ k \in Tasks /\ pc[k] = "boot" /\ Down(k) /\ Goto(k, "kernel")
      /\ UNCHANGED <<owner, current, abs_prev, state, idle_sem, exitVars, tid,
                     idle_pending, tls, work>>
  BY Zenon DEF ThreadBootstrap
<1>2. tid[k] = k /\ ~dead[k]
  <2>1. state[k] = "run" /\ tid[k] = k
    BY Zenon, <1>1 DEF KThreadInv
  <2> QED BY Zenon, <1>1, <2>1 DEF JoinInv
<1>3. Up(k)
  BY Zenon, <1>1, <1>2 DEF Up, Down
<1>4. tail = abs_prev /\ prev_sched[k] = abs_prev /\ abs_prev # None
  BY Zenon, <1>1, <1>3 DEF TokenInv, TypeOK
<1>5. tail' = None /\ ~mismatch' /\ mismatch' \in BOOLEAN
  BY Zenon, <1>4 DEF ThreadBootstrap, BootTail, FinishTaskSwitch
<1>6. prev_sched' \in [Tasks -> Tasks \cup {None}]
  BY Zenon DEF ThreadBootstrap, TypeOK
<1>7. Entry(k, k, "kernel")
  BY Zenon, <1>1 DEF Entry
<1> HIDE DEF IInv, Tasks, Threads
<1>8. /\ DOMAIN pc' = Threads /\ pc'[k] = "kernel"
      /\ \A u \in Threads \ {k} : pc'[u] = pc[u]
      /\ sem' \in [Tasks -> 0..1] /\ sem'[k] = 0
      /\ \A y \in Tasks \ {k} : sem'[y] = sem[y]
  BY Zenon, <1>1, DownIs
<1> QED BY Zenon, <1>1, <1>2, <1>3, <1>5, <1>6, <1>7, <1>8, EntryStep

\* thread_join returns: the thread that was killed has exited.
LEMMA JoinedStep ==
  ASSUME IInv, NEW t \in Threads, Joined(t)
  PROVE  IInv'
<1> USE ThreadsAssumption DEF IInv, Tasks, Threads, HostTasks, Joined, Goto
<1>1. /\ pc[t] \in {"join", "killing"} /\ join \in KThreads /\ pc[join] = "exited"
      /\ dead[join] /\ sem[join] = 0 /\ state[join] # "freed" /\ join # current
  BY DEF JoinInv, TypeOK
<1>2. /\ pc' = [pc EXCEPT ![t] = pc'[t]]
      /\ pc'[t] = IF pc[t] = "killing" THEN "cleanup"
                  ELSE IF t = Timer THEN "irq" ELSE "kernel"
  BY Zenon DEF PcInv
<1>3. /\ pc[t] = "join" => pc[Idle] # "exited" /\ \A s \in Threads : pc[s] \in RunLabels => s = t
      /\ pc[t] = "killing" => t \in Hosts /\ pc[Idle] = "exited"
  BY Zenon, <1>1, Alone DEF RunLabels, PcInv, HaltInv
<1>4. \A s \in Threads \ {t} : pc[s] \notin {"join", "killing"}
  <2>1. CASE pc[t] = "join"
    BY Zenon, <1>3, <2>1 DEF RunLabels, PcInv, HaltInv
  <2>2. CASE pc[t] = "killing"
    <3>1. \A s \in Threads : pc[s] = "join" => s = Idle
      BY Zenon, <1>3, <2>2 DEF TokenInv, RunLabels
    <3> QED BY Zenon, <1>3, <2>2, <3>1 DEF PcInv, HaltInv, HaltLabels
  <2> QED BY Zenon, <1>1, <2>1, <2>2
<1>5. t # join /\ Runnable(state') \subseteq Runnable(state)
  BY Zenon, <1>1 DEF Runnable, TypeOK
<1>6. /\ pc'[t] \in {"cleanup", "irq", "kernel"} /\ DOMAIN pc' = Threads
      /\ \A u \in Threads \ {t} : pc'[u] = pc[u]
      /\ state'[join] = "freed" /\ \A y \in Tasks \ {join} : state'[y] = state[y]
      /\ state' \in [Tasks -> States] /\ join' = None
      /\ UNCHANGED <<owner, current, abs_prev, prev_sched, sem, idle_sem, tail, dead,
                     shutdown, tid, idle_pending, mismatch, tls, work>>
  BY Zenon, <1>1, <1>2 DEF PcInv, TypeOK, States
<1>7. /\ pc[t] = "join" /\ t # Timer => pc'[t] = "kernel"
      /\ pc[t] = "join" /\ t = Timer => pc'[t] = "irq"
      /\ pc[t] = "killing" => pc'[t] = "cleanup"
  BY Zenon, <1>2
<1> HIDE DEF Joined, Goto
<1>8. \A u \in Threads :
        /\ pc'[u] \in RunLabels <=> pc[u] \in RunLabels
        /\ pc'[u] \in HaltLabels <=> pc[u] \in HaltLabels
        /\ pc[u] \notin {"join", "killing"} => pc'[u] = pc[u]
  BY Zenon, <1>1, <1>6, <1>7 DEF RunLabels, HaltLabels
<1>9. /\ \A y \in Tasks : (Up(y)' <=> Up(y)) /\ (Waits(y)' <=> Waits(y))
      /\ pc[Idle] \in {"switched", "pending", "exited"} => pc'[Idle] = pc[Idle]
  <2>1. \A y \in Tasks : Up(y)' <=> Up(y)
    BY Zenon, <1>6 DEF Up
  <2>2. \A u \in Threads : pc'[u] \in {"wait0", "wait", "waitd", "switched", "boot"}
                          \/ pc[u] \in {"wait0", "wait", "waitd", "switched", "boot"}
                            => pc'[u] = pc[u]
    BY Zenon, <1>6, <1>8
  <2>3. Waits(Host0)' <=> Waits(Host0)
    BY Zenon, <1>6, <2>2 DEF Waits
  <2>4. \A y \in Tasks \ {Host0} : Waits(y)' <=> Waits(y)
    BY Zenon, <1>6, <2>2 DEF Waits
  <2> QED BY Zenon, <1>8, <2>1, <2>3, <2>4
<1>10. TypeOK'
  BY <1>6 DEF TypeOK, States
<1>11. PcInv'
  <2>1. \A h \in Hosts : pc'[h] \in HostLabels
    <3>1. t \in Hosts => pc'[t] \in {"cleanup", "kernel"}
      BY Zenon, <1>1, <1>7
    <3>2. \A h \in Hosts \ {t} : pc'[h] \in HostLabels
      BY Zenon, <1>6 DEF PcInv
    <3> QED BY Zenon, <3>1, <3>2 DEF HostLabels, RunLabels, HaltLabels
  <2>2. \A k \in KThreads :
          pc'[k] \in {"none", "boot", "kernel", "join", "switched", "exited"}
    <3>1. t \in KThreads => pc'[t] = "kernel"
      BY Zenon, <1>1, <1>3, <1>7
    <3>2. \A k \in KThreads \ {t} : pc'[k] = pc[k]
      BY Zenon, <1>6
    <3> QED BY Zenon, <3>1, <3>2 DEF PcInv
  <2>3. pc'[Idle] \in {"kernel", "join", "switched", "pending", "exited"}
    BY Zenon, <1>1, <1>3, <1>6, <1>7 DEF PcInv
  <2>4. pc'[Timer] \in {"out", "irq", "join"}
    BY Zenon, <1>1, <1>3, <1>6, <1>7 DEF PcInv
  <2> QED BY Zenon, <1>6, <2>1, <2>2, <2>3, <2>4 DEF PcInv
<1>12. TokenInv'
  <2>1. \A u \in Threads : pc'[u] \in RunLabels => owner = u /\ tail = None
    BY Zenon, <1>8 DEF TokenInv
  <2>2. \A y \in Tasks : Up(y)' =>
          /\ y = current /\ owner = tid[y] /\ Waits(y)' /\ tail = abs_prev
          /\ y \in KThreads /\ pc'[y] = "boot" => prev_sched[y] = abs_prev
    BY Zenon, <1>6, <1>9 DEF TokenInv
  <2>3. idle_sem > 0 => /\ owner = Idle /\ current = Idle /\ pc'[Idle] = "pending"
                        /\ tail = None
    BY Zenon, <1>9 DEF TokenInv
  <2>4. owner # None => \/ pc'[owner] \in RunLabels \/ Up(current)' \/ idle_sem > 0
                        \/ pc'[Idle] = "exited"
    <3>1. /\ owner # None => pc'[owner] \in RunLabels <=> pc[owner] \in RunLabels
          /\ Up(current)' <=> Up(current)
      BY Zenon, <1>6, <1>8, <1>9 DEF TypeOK
    <3> QED BY Zenon, <1>9, <3>1 DEF TokenInv
  <2>5. pc'[Idle] = "exited" => pc[Idle] = "exited"
    BY Zenon, <1>6
  <2> QED BY Zenon, <1>6, <2>1, <2>2, <2>3, <2>4, <2>5 DEF TokenInv
<1>13. CurrentInv'
  <2>1. \A u \in Threads \ {Timer} : pc'[u] \in {"kernel", "exit", "join"} => current = u
    BY Zenon, <1>1, <1>6, <1>7 DEF CurrentInv
  <2>2. \A h \in Hosts : pc'[h] \in {"create", "put"} => current = Host0
    BY Zenon, <1>6 DEF CurrentInv
  <2>3. current \in Tasks /\ state'[current] = state[current] /\ (Up(current)' <=> Up(current))
    BY Zenon, <1>1, <1>6, <1>9 DEF TypeOK
  <2>4. ASSUME current \in KThreads \cup Hosts, pc[current] = "join"
        PROVE  pc'[current] = "kernel"
    BY Zenon, <1>4, <1>7, <2>4
  <2>5. current \in KThreads \cup Hosts => pc'[current] = pc[current]
                                         \/ pc[current] \in {"join", "killing"}
    BY Zenon, <1>8
  <2>6. current \in Hosts => pc[current] # "killing" \/ Up(current)
    BY Zenon DEF CurrentInv
  <2>7. /\ current = Idle => pc'[Idle] # "switched" \/ Up(Idle)
        /\ current # Idle => pc'[Idle] \in {"switched", "pending"}
    BY Zenon, <1>6, <1>9 DEF CurrentInv
  <2>8. current \in KThreads => pc'[current] \in {"kernel", "join"} \/ Up(current)'
    BY Zenon, <2>3, <2>4, <2>5 DEF CurrentInv
  <2>9. current \in Hosts =>
          /\ tid[current] = current
          /\ \/ pc'[current] \in {"out", "enter", "delete", "kernel", "exit", "join"}
             \/ Up(current)'
    BY Zenon, <2>3, <2>4, <2>5, <2>6 DEF CurrentInv
  <2> QED BY Zenon, <1>6, <1>9, <2>1, <2>2, <2>3, <2>7, <2>8, <2>9 DEF CurrentInv
<1>14. HostInv'
  <2> SUFFICES ASSUME NEW g \in Hosts PROVE HostTask(g)'
    BY Zenon DEF HostInv
  <2>1. HostTask(g) /\ state'[g] = state[g] /\ (Waits(g)' <=> Waits(g))
    BY Zenon, <1>1, <1>6, <1>9 DEF HostInv
  <2>2. pc[Idle] = "exited" => pc'[Idle] = "exited"
    BY Zenon, <1>9
  <2>3. CASE pc'[g] = pc[g]
    BY Zenon, <1>6, <2>1, <2>2, <2>3 DEF HostTask
  <2>4. CASE g = t /\ pc[g] = "join"
    <3>1. pc'[g] = "kernel" /\ current = g
      BY Zenon, <1>7, <2>4 DEF CurrentInv
    <3> QED BY Zenon, <1>6, <2>1, <2>4, <3>1 DEF HostTask, HaltLabels
  <2>5. CASE g = t /\ pc[g] = "killing"
    <3>1. pc'[g] = "cleanup" /\ pc[g] \in HaltLabels
      BY Zenon, <1>7, <2>5 DEF HaltLabels
    <3> QED BY Zenon, <1>6, <2>1, <2>2, <2>5, <3>1 DEF HostTask, HaltLabels, Waits
  <2> QED BY Zenon, <1>1, <1>6, <2>3, <2>4, <2>5
<1>15. Host0Inv'
  <2>1. /\ state'[Host0] = state[Host0] /\ (Waits(Host0)' <=> Waits(Host0))
        /\ (Up(Host0)' <=> Up(Host0))
    BY Zenon, <1>1, <1>6, <1>9
  <2>2. \A h \in Hosts : pc'[h] = "wait0" => pc[h] = "wait0"
    BY Zenon, <1>6
  <2> QED BY Zenon, <1>6, <1>9, <2>1, <2>2 DEF Host0Inv
<1>16. KThreadInv'
  <2> SUFFICES ASSUME NEW k \in KThreads
               PROVE  /\ pc'[k] = "none" <=> state'[k] = "none"
                      /\ state'[k] # "none" => tid'[k] = k
                      /\ pc'[k] \in {"boot", "kernel", "join"} => state'[k] = "run"
                      /\ pc'[k] = "switched" => state'[k] \in {"run", "sleep", "dead"}
                      /\ pc'[k] = "exited" => dead'[k]
    BY Zenon DEF KThreadInv
  <2>1. CASE k # t /\ k # join
    BY Zenon, <1>6, <2>1 DEF KThreadInv
  <2>2. CASE k = join
    <3>1. pc'[k] = "exited" /\ state'[k] = "freed" /\ dead'[k] /\ state[k] # "none"
      BY Zenon, <1>1, <1>5, <1>6, <2>2 DEF KThreadInv
    <3> QED BY Zenon, <1>6, <3>1 DEF KThreadInv
  <2>3. CASE k = t
    <3>1. pc[k] = "join" /\ pc'[k] = "kernel" /\ state'[k] = state[k]
      BY Zenon, <1>1, <1>3, <1>5, <1>6, <1>7, <2>3
    <3> QED BY Zenon, <1>6, <3>1 DEF KThreadInv
  <2> QED BY Zenon, <2>1, <2>2, <2>3
<1>17. IdleInv'
  <2>1. pc'[Idle] = "pending" <=> pc[Idle] = "pending"
    BY Zenon, <1>6, <1>9
  <2>2. state'[Idle] = state[Idle]
    BY Zenon, <1>1, <1>6
  <2> QED BY Zenon, <1>6, <1>9, <2>1, <2>2 DEF IdleInv
<1>18. JoinInv'
  <2>1. ASSUME NEW y \in Tasks, dead[y]
        PROVE  /\ y \in KThreads /\ y # current /\ state'[y] = "freed"
               /\ pc'[y] = IF sem[y] > 0 THEN "switched" ELSE "exited"
    <3>1. y \in KThreads /\ y # current /\ (state[y] # "freed" => y = join)
      BY Zenon, <2>1 DEF JoinInv
    <3>2. state'[y] = "freed"
      BY Zenon, <1>6, <3>1
    <3>3. pc[y] = (IF sem[y] > 0 THEN "switched" ELSE "exited") /\ pc[y] \in {"switched", "exited"}
      BY Zenon, <2>1 DEF JoinInv
    <3>4. pc'[y] = pc[y]
      BY Zenon, <1>8, <3>1, <3>3
    <3> QED BY Zenon, <3>1, <3>2, <3>3, <3>4
  <2>2. \A u \in Threads : pc'[u] \notin {"join", "killing"}
    BY Zenon, <1>4, <1>6
  <2> QED BY Zenon, <1>6, <2>1, <2>2 DEF JoinInv
<1>19. HaltInv'
  <2>1. \A h \in Hosts : pc[h] \in {"out", "gone"} => pc'[h] = pc[h]
    BY Zenon, <1>8
  <2>2. \A h \in Hosts : pc'[h] \in {"cleanup", "killing", "halted"} => pc'[Idle] = "exited"
    <3>1. pc'[t] \in {"cleanup", "killing", "halted"} => pc[Idle] = "exited"
      BY Zenon, <1>1, <1>3, <1>7
    <3>2. \A h \in Hosts \ {t} : pc'[h] \in {"cleanup", "killing", "halted"}
                                => pc[Idle] = "exited"
      BY Zenon, <1>6 DEF HaltInv
    <3> QED BY Zenon, <1>9, <3>1, <3>2
  <2>3. pc'[Idle] = "exited" => pc[Idle] = "exited"
    BY Zenon, <1>6
  <2>4. pc[Idle] = "exited" => Runnable(state') = {}
    BY Zenon, <1>5 DEF HaltInv
  <2> QED BY Zenon, <1>6, <1>8, <2>1, <2>2, <2>3, <2>4 DEF HaltInv
<1>20. ~mismatch'
  BY Zenon, <1>6
<1> QED BY Zenon, <1>10, <1>11, <1>12, <1>13, <1>14, <1>15, <1>16, <1>17, <1>18, <1>19, <1>20
===============================================================================
