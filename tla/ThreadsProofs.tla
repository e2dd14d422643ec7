---------------------------- MODULE ThreadsProofs ----------------------------
(***************************************************************************)
(* The invariant of ThreadsSteps is inductive: killing a thread, the       *)
(* switches of tasks, and the sum over all actions.  The safety properties *)
(* of Threads follow from it.                                              *)
(***************************************************************************)
EXTENDS ThreadsSteps

\* kill_thread: the kernel thread x is dead and its semaphore up, and t waits at
\* label until it exits.
Killed(t, x, label) ==
  /\ x \in KThreads \ {t, current} /\ pc[x] = "switched"
  /\ state[x] \in {"dead", "sleep"} /\ ~dead[x]
  /\ dead'[x] /\ \A y \in Tasks \ {x} : dead'[y] = dead[y]
  /\ sem'[x] = 1 /\ \A y \in Tasks \ {x} : sem'[y] = sem[y]
  /\ pc'[t] = label /\ \A u \in Threads \ {t} : pc'[u] = pc[u]
  /\ join' = x

\* kill_thread keeps the invariant: the killed thread leaves through its own
\* semaphore, and the killer goes on waiting to join it.
LEMMA KilledStep ==
  ASSUME IInv, NEW t \in Threads, NEW x, NEW label, Killed(t, x, label),
         \/ pc[t] \in {"kernel", "irq"} /\ label = "join"
         \/ pc[t] = "cleanup" /\ label = "killing",
         \A y \in Tasks : ~Up(y), \A y \in Tasks : dead[y] => state[y] = "freed",
         dead' \in [Tasks -> BOOLEAN], sem' \in [Tasks -> 0..1], DOMAIN pc' = Threads,
         UNCHANGED <<owner, current, abs_prev, prev_sched, state, idle_sem, tail,
                     shutdown, tid, idle_pending, mismatch, tls, work>>
  PROVE  IInv'
<1> USE ThreadsAssumption DEF IInv, Tasks, Threads, HostTasks
<1>1. /\ x \in KThreads \ {t, current} /\ pc[x] = "switched" /\ x # Idle
      /\ state[x] \in {"dead", "sleep"}
      /\ dead'[x] /\ \A y \in Tasks \ {x} : dead'[y] = dead[y]
  BY Zenon DEF Killed
<1>2. sem'[x] = 1 /\ join' = x /\ \A y \in Tasks \ {x} : sem'[y] = sem[y]
  BY Zenon DEF Killed
<1>3. pc'[t] = label /\ \A u \in Threads \ {t} : pc'[u] = pc[u]
  BY Zenon DEF Killed
<1>4. \A u \in Threads :
        /\ pc'[u] \in RunLabels <=> pc[u] \in RunLabels
        /\ pc'[u] \in HaltLabels <=> pc[u] \in HaltLabels
        /\ pc[u] \notin {"kernel", "irq", "cleanup"} => pc'[u] = pc[u]
        /\ pc'[u] \notin {"join", "killing"} => pc'[u] = pc[u]
  BY Zenon, <1>3 DEF RunLabels, HaltLabels
<1>5. \A y \in Tasks : ~Up(y)'
  BY Zenon, <1>1, <1>2 DEF Up
<1>6. pc[Idle] \in {"exited", "pending", "switched"} => pc'[Idle] = pc[Idle]
  BY Zenon, <1>4
<1>7. TypeOK'
  BY <1>1, <1>2 DEF TypeOK
<1>8. PcInv'
  BY Zenon, <1>3 DEF PcInv, HostLabels, HaltLabels, RunLabels
<1>9. TokenInv'
  <2>1. \A u \in Threads : pc'[u] \in RunLabels => owner = u /\ tail = None
    BY Zenon, <1>4 DEF TokenInv
  <2>2. idle_sem > 0 => /\ owner = Idle /\ current = Idle /\ pc'[Idle] = "pending"
                        /\ tail = None
    BY Zenon, <1>6 DEF TokenInv
  <2>3. pc'[Idle] = "exited" => pc[Idle] = "exited"
    BY Zenon, <1>4
  <2>4. owner # None => \/ pc'[owner] \in RunLabels \/ idle_sem > 0 \/ pc'[Idle] = "exited"
    BY Zenon, <1>4, <1>6 DEF TokenInv, TypeOK
  <2> QED BY Zenon, <1>5, <2>1, <2>2, <2>3, <2>4 DEF TokenInv
<1>10. CurrentInv'
  <2>1. \A u \in Threads \ {Timer} : pc'[u] \in {"kernel", "exit", "join"} => current = u
    BY Zenon, <1>3 DEF CurrentInv, PcInv, HostLabels, RunLabels, HaltLabels
  <2>2. \A h \in Hosts : pc'[h] \in {"create", "put"} => current = Host0
    BY Zenon, <1>4 DEF CurrentInv
  <2>3. current \in KThreads => pc'[current] \in {"kernel", "join"}
    BY <1>3 DEF CurrentInv
  <2>4. current \in Hosts =>
          pc'[current] \in {"out", "enter", "delete", "kernel", "exit", "join"}
    BY <1>3, <1>6 DEF CurrentInv, HaltInv, HaltLabels
  <2>5. (current = Idle => pc'[Idle] # "switched")
        /\ (current # Idle => pc'[Idle] \in {"switched", "pending"})
    BY Zenon, <1>4, <1>6 DEF CurrentInv
  <2> QED BY Zenon, <2>1, <2>2, <2>3, <2>4, <2>5 DEF CurrentInv
<1>11. HostInv'
  <2> SUFFICES ASSUME NEW g \in Hosts PROVE HostTask(g)'
    BY Zenon DEF HostInv
  <2>1. HostTask(g) /\ dead'[g] = dead[g]
    BY <1>1 DEF HostInv
  <2>2. CASE g # t
    <3>1. pc'[g] = pc[g] /\ (Waits(g)' <=> Waits(g))
      BY <1>3, <2>2 DEF Waits
    <3> QED BY Zenon, <1>6, <2>1, <3>1 DEF HostTask, HaltLabels
  <2>3. CASE g = t /\ label = "join"
    <3>1. pc[g] = "kernel" /\ current = g /\ pc'[g] = "join"
      BY Zenon, <1>3, <2>3 DEF PcInv, CurrentInv, HostLabels, RunLabels, HaltLabels
    <3> QED BY Zenon, <2>1, <3>1 DEF HostTask, HaltLabels
  <2>4. CASE g = t /\ label = "killing"
    <3>1. pc[g] = "cleanup" /\ pc'[g] = "killing" /\ pc'[Idle] = "exited"
      BY Zenon, <1>3, <1>6, <2>4 DEF HaltInv
    <3>2. state[g] # "run"
      BY Zenon, <1>6, <3>1 DEF HaltInv, Runnable
    <3> QED BY Zenon, <2>1, <3>1, <3>2 DEF HostTask, HaltLabels
  <2> QED BY Zenon, <2>2, <2>3, <2>4
<1>12. Host0Inv'
  <2>1. \A h \in Hosts : pc'[h] = "wait0" <=> pc[h] = "wait0"
    BY Zenon, <1>4
  <2>2. (Waits(Host0) => Waits(Host0)') /\ dead'[Host0] = dead[Host0]
    BY <1>1, <2>1 DEF Waits
  <2> QED BY Zenon, <1>6, <2>1, <2>2 DEF Host0Inv
<1>13. KThreadInv'
  <2> SUFFICES ASSUME NEW k \in KThreads
               PROVE  /\ pc'[k] = "none" <=> state[k] = "none"
                      /\ pc'[k] \in {"boot", "kernel", "join"} => state[k] = "run"
                      /\ pc'[k] = "switched" => state[k] \in {"run", "sleep", "dead"}
                      /\ pc'[k] = "exited" => dead'[k]
    BY Zenon DEF KThreadInv
  <2>1. CASE k # t
    BY <1>1, <1>3, <2>1 DEF KThreadInv
  <2>2. CASE k = t
    BY Zenon, <1>3, <2>2 DEF KThreadInv, PcInv
  <2> QED BY Zenon, <2>1, <2>2
<1>14. IdleInv'
  BY Zenon, <1>1, <1>4, <1>6 DEF IdleInv
<1>15. JoinInv'
  <2>1. ASSUME NEW y \in Tasks, dead'[y]
        PROVE  /\ y \in KThreads /\ y # current
               /\ pc'[y] = IF sem'[y] > 0 THEN "switched" ELSE "exited"
               /\ state[y] \in {"dead", "sleep", "freed"}
               /\ state[y] # "freed" => y = x
    <3>1. CASE y = x
      <4>1. pc'[x] = "switched"
        BY Zenon, <1>1, <1>3
      <4>2. sem'[x] > 0
        BY Zenon, <1>2, UpDown
      <4> QED BY Zenon, <1>1, <3>1, <4>1, <4>2
    <3>2. CASE y # x
      <4>1. dead[y] /\ sem'[y] = sem[y] /\ state[y] = "freed"
        BY Zenon, <1>1, <1>2, <2>1, <3>2
      <4>2. pc'[y] = pc[y]
        BY Zenon, <1>4, <4>1 DEF JoinInv
      <4> QED BY Zenon, <4>1, <4>2 DEF JoinInv
    <3> QED BY Zenon, <3>1, <3>2
  <2>2. state[x] # "freed" /\ x \in Tasks /\ pc'[t] \in {"join", "killing"}
    BY Zenon, <1>1, <1>3
  <2> QED BY Zenon, <1>1, <1>2, <2>1, <2>2 DEF JoinInv
<1>16. HaltInv'
  <2>1. \A h \in Hosts : pc[h] \in {"out", "gone"} => pc'[h] = pc[h]
    BY Zenon, <1>4
  <2>2. \A h \in Hosts : pc'[h] \in {"cleanup", "killing", "halted"} => pc'[Idle] = "exited"
    BY Zenon, <1>3, <1>6 DEF HaltInv
  <2>3. pc'[Idle] = "exited" => pc[Idle] = "exited"
    BY Zenon, <1>4
  <2>4. \A h \in Hosts : pc'[h] \in HaltLabels =>
          shutdown /\ \A g \in Hosts \ {h} : pc'[g] \in {"out", "gone"}
    BY Zenon, <1>4, <2>1 DEF HaltInv
  <2>5. shutdown => \A h \in Hosts : pc'[h] \in HaltLabels \cup {"out", "gone"}
    BY Zenon, <1>4, <2>1 DEF HaltInv
  <2> QED BY Zenon, <2>2, <2>3, <2>4, <2>5 DEF HaltInv, Runnable
<1> QED BY Zenon, <1>7, <1>8, <1>9, <1>10, <1>11, <1>12, <1>13, <1>14, <1>15, <1>16

\* The task of a host thread that is gone, or that the cleanup finds, is freed.
LEMMA FreedStep ==
  ASSUME IInv, NEW x \in HostTasks, x # current, state[x] # "none",
         \/ x \in Hosts /\ pc[x] = "gone"
         \/ pc[Idle] = "exited" /\ \A g \in Hosts : pc[g] \in {"out", "gone", "cleanup"},
         state' = [state EXCEPT ![x] = "freed"],
         UNCHANGED <<owner, current, abs_prev, prev_sched, sem, idle_sem, tail, dead, join,
                     shutdown, tid, idle_pending, mismatch, tls, work, pc>>
  PROVE  IInv'
<1> USE ThreadsAssumption DEF IInv, Tasks, Threads, HostTasks
<1>1. state'[x] = "freed" /\ \A y \in Tasks \ {x} : state'[y] = state[y]
  BY DEF TypeOK
<1>2. TypeOK' /\ PcInv'
  <2>1. state' \in [Tasks -> {"none", "run", "sleep", "dead", "freed"}]
    BY Zenon DEF TypeOK
  <2>2. TypeOK'
    BY <2>1 DEF TypeOK
  <2>3. PcInv'
    BY Zenon DEF PcInv
  <2> QED BY Zenon, <2>2, <2>3
<1>3. TokenInv'
  BY Zenon DEF TokenInv, Up, Waits
<1>4. CurrentInv'
  BY Zenon, <1>1 DEF CurrentInv, Up, TypeOK
<1>5. HostInv'
  <2> SUFFICES ASSUME NEW g \in Hosts PROVE HostTask(g)'
    BY Zenon DEF HostInv
  <2>1. HostTask(g) /\ (Waits(g)' <=> Waits(g))
    BY Zenon DEF HostInv, Waits
  <2>2. CASE g # x
    BY Zenon, <1>1, <2>1, <2>2 DEF HostTask, HaltLabels
  <2>3. CASE g = x
    <3>1. pc[g] = "gone" \/ (pc[Idle] = "exited" /\ pc[g] \in {"out", "gone", "cleanup"})
      BY Zenon, <2>3
    <3> QED BY <1>1, <2>1, <2>3, <3>1 DEF HostTask, HaltLabels
  <2> QED BY Zenon, <2>2, <2>3
<1>6. Host0Inv'
  <2>1. CASE x # Host0
    BY Zenon, <1>1, <2>1 DEF Host0Inv, Up, Waits
  <2>2. CASE x = Host0
    <3>1. pc[Idle] = "exited" /\ \A g \in Hosts : pc[g] # "wait0"
      BY Zenon, <2>2
    <3> QED BY Zenon, <1>1, <2>2, <3>1 DEF Host0Inv
  <2> QED BY Zenon, <2>1, <2>2
<1>7. KThreadInv'
  BY <1>1 DEF KThreadInv
<1>8. IdleInv'
  BY Zenon, <1>1 DEF IdleInv
<1>9. JoinInv'
  <2>1. \A y \in Tasks : dead[y] => state'[y] = state[y]
    BY Zenon, <1>1 DEF JoinInv
  <2> QED BY Zenon, <2>1 DEF JoinInv
<1>10. HaltInv'
  <2>1. Runnable(state)' \subseteq Runnable(state)
    BY <1>1 DEF Runnable
  <2> QED BY Zenon, <2>1 DEF HaltInv
<1> QED BY Zenon, <1>2, <1>3, <1>4, <1>5, <1>6, <1>7, <1>8, <1>9, <1>10

\* free_thread_stack of a dead task.
LEMMA FreeThreadStackStep ==
  ASSUME IInv, NEW t \in Threads, FreeThreadStack(t)
  PROVE  IInv'
<1> USE ThreadsAssumption DEF IInv, Tasks, Threads, HostTasks, Goto
<1>1. PICK x \in Tasks : state[x] = "dead" /\ KillThread(t, x)
  BY Zenon DEF FreeThreadStack
<1>2. /\ pc[t] \in {"kernel", "irq"} /\ pc[t] \in RunLabels \ {"join"}
      /\ UNCHANGED <<owner, current, abs_prev, prev_sched, idle_sem, tail, shutdown,
                     tid, idle_pending, mismatch, tls, work>>
  BY Zenon DEF FreeThreadStack, InKernel, RunLabels
<1>3. /\ \A y \in Tasks : ~Up(y)
      /\ \A y \in Tasks : dead[y] => state[y] = "freed"
  BY Zenon, <1>2, Alone
<1>4. x # Idle /\ x # Host0 /\ ~dead[x] /\ sem[x] = 0 /\ x # current
  <2>1. x # Idle
    BY Zenon, <1>1 DEF IdleInv
  <2>2. x # current /\ ~dead[x]
    BY Zenon, <1>1, <1>3, <2>1 DEF CurrentInv
  <2>3. sem[x] = 0
    BY <1>3, <2>2 DEF Up, TypeOK
  <2>4. x # Host0
    BY Zenon, <1>1, <1>2, Alone DEF Host0Inv
  <2> QED BY Zenon, <2>1, <2>2, <2>3, <2>4
<1>5. CASE x \in KThreads
  <2>1. pc[x] = "switched" /\ x # t
    BY Zenon, <1>1, <1>2, <1>4, <1>5 DEF PcInv, KThreadInv
  <2>2. /\ dead' = [dead EXCEPT ![x] = TRUE] /\ sem' = [sem EXCEPT ![x] = 0 + 1]
        /\ join' = x /\ state' = state /\ pc' = [pc EXCEPT ![t] = "join"]
    BY <1>1, <1>2, <1>4, <1>5 DEF KillThread, Joins
  <2>3. dead' \in [Tasks -> BOOLEAN] /\ dead'[x] /\ \A y \in Tasks \ {x} : dead'[y] = dead[y]
    BY Zenon, <2>2 DEF TypeOK
  <2>4. sem' \in [Tasks -> 0..1] /\ sem'[x] = 1 /\ \A y \in Tasks \ {x} : sem'[y] = sem[y]
    BY <2>2 DEF TypeOK
  <2>5. /\ DOMAIN pc' = Threads /\ pc'[t] = "join"
        /\ \A u \in Threads \ {t} : pc'[u] = pc[u]
    BY Zenon, <2>2 DEF PcInv
  <2>6. Killed(t, x, "join")
    BY Zenon, <1>1, <1>4, <1>5, <2>1, <2>2, <2>3, <2>4, <2>5 DEF Killed
  <2> QED BY Zenon, <1>2, <1>3, <2>2, <2>3, <2>4, <2>5, <2>6, KilledStep
<1>6. CASE x \in Hosts
  <2>1. pc[x] = "gone"
    BY Zenon, <1>1, <1>2, <1>6, Alone DEF HostInv, HostTask, PcInv, HostLabels,
      RunLabels, HaltLabels
  <2>2. state' = [state EXCEPT ![x] = "freed"] /\ UNCHANGED <<dead, sem, join, pc>>
    BY Zenon, <1>1, <1>6 DEF KillThread, Joins
  <2> QED BY Zenon, <1>1, <1>2, <1>4, <1>6, <2>1, <2>2, FreedStep
<1> QED BY Zenon, <1>4, <1>5, <1>6

\* threads_cleanup frees what is left, the idle task last.
LEMMA ThreadsCleanupStep ==
  ASSUME IInv, NEW h \in Threads, ThreadsCleanup(h)
  PROVE  IInv'
<1> USE ThreadsAssumption DEF IInv, Tasks, Threads, HostTasks, Goto
<1>1. /\ h \in Hosts /\ pc[h] = "cleanup" /\ pc[Idle] = "exited" /\ shutdown
      /\ \A g \in Hosts \ {h} : pc[g] \in {"out", "gone"}
      /\ UNCHANGED <<owner, current, abs_prev, prev_sched, idle_sem, tail, shutdown,
                     tid, idle_pending, mismatch, tls, work>>
  BY Zenon DEF ThreadsCleanup, HaltInv, HaltLabels
<1>2. owner = Idle /\ \A s \in Threads : pc[s] \notin RunLabels
  BY Zenon, <1>1 DEF TokenInv, RunLabels
<1>3. \A y \in Tasks : ~Up(y)
  BY Zenon, <1>1, <1>2 DEF TokenInv, Waits, HostInv, HostTask, Host0Inv, KThreadInv
<1>4. \A y \in Tasks : dead[y] => state[y] = "freed"
  <2>1. \A s \in Threads : pc[s] \notin {"join", "killing"}
    BY Zenon, <1>1, <1>2 DEF PcInv, RunLabels
  <2> QED BY <2>1 DEF JoinInv, TypeOK
<1>5. current = Idle
  BY Zenon, <1>1, <1>2 DEF HaltInv, CurrentInv, Runnable
<1>6. ASSUME NEW x \in ListedTasks, KillThread(h, x), x \in KThreads PROVE IInv'
  <2>1. state[x] \in {"sleep", "dead"} /\ ~dead[x] /\ sem[x] = 0
    <3>1. x \in Tasks \ {Idle} /\ state[x] \notin {"none", "freed"}
      BY Zenon, <1>6 DEF ListedTasks
    <3>2. state[x] # "run" /\ state[x] \in {"none", "run", "sleep", "dead", "freed"}
      BY Zenon, <1>1, <3>1 DEF HaltInv, Runnable, TypeOK
    <3>3. ~dead[x] /\ ~Up(x)
      BY Zenon, <1>3, <1>4, <3>1
    <3>4. sem[x] = 0
      BY <3>1, <3>3 DEF Up, TypeOK
    <3> QED BY Zenon, <3>1, <3>2, <3>3, <3>4
  <2>2. pc[x] = "switched" /\ x # h /\ x # current
    BY Zenon, <1>1, <1>5, <1>6, <2>1 DEF KThreadInv, PcInv
  <2>3. /\ dead' = [dead EXCEPT ![x] = TRUE] /\ sem' = [sem EXCEPT ![x] = 0 + 1]
        /\ join' = x /\ state' = state /\ pc' = [pc EXCEPT ![h] = "killing"]
    BY <1>1, <1>6, <2>1 DEF KillThread, Joins
  <2>4. dead' \in [Tasks -> BOOLEAN] /\ dead'[x] /\ \A y \in Tasks \ {x} : dead'[y] = dead[y]
    BY Zenon, <1>6, <2>3 DEF TypeOK
  <2>5. sem' \in [Tasks -> 0..1] /\ sem'[x] = 1 /\ \A y \in Tasks \ {x} : sem'[y] = sem[y]
    BY <1>6, <2>3 DEF TypeOK
  <2>6. /\ DOMAIN pc' = Threads /\ pc'[h] = "killing"
        /\ \A u \in Threads \ {h} : pc'[u] = pc[u]
    BY Zenon, <2>3 DEF PcInv
  <2>7. Killed(h, x, "killing")
    BY Zenon, <1>6, <2>1, <2>2, <2>3, <2>4, <2>5, <2>6 DEF Killed
  <2> QED BY Zenon, <1>1, <1>3, <1>4, <2>3, <2>4, <2>5, <2>6, <2>7, KilledStep
<1>7. ASSUME NEW x \in ListedTasks, KillThread(h, x), x \notin KThreads PROVE IInv'
  <2>1. x \in HostTasks /\ state[x] # "none" /\ x # current
    BY Zenon, <1>5, <1>7 DEF ListedTasks
  <2>2. state' = [state EXCEPT ![x] = "freed"] /\ UNCHANGED <<dead, sem, join, pc>>
    BY Zenon, <1>7, <2>1 DEF KillThread, Joins
  <2>3. \A g \in Hosts : pc[g] \in {"out", "gone", "cleanup"}
    BY Zenon, <1>1
  <2> QED BY Zenon, <1>1, <2>1, <2>2, <2>3, FreedStep
<1>8. ASSUME state' = [state EXCEPT ![Idle] = "freed"], pc' = [pc EXCEPT ![h] = "halted"],
             UNCHANGED <<dead, sem, join>>
      PROVE  IInv'
  <2>1. state'[Idle] = "freed" /\ \A y \in Tasks \ {Idle} : state'[y] = state[y]
    BY <1>8 DEF TypeOK
  <2>2. /\ DOMAIN pc' = Threads /\ pc'[h] = "halted"
        /\ \A u \in Threads \ {h} : pc'[u] = pc[u]
    BY Zenon, <1>8 DEF PcInv
  <2>3. \A y \in Tasks : ~Up(y)'
    BY Zenon, <1>3, <1>8 DEF Up
  <2>4. TypeOK'
    <3>1. state' \in [Tasks -> {"none", "run", "sleep", "dead", "freed"}]
      BY Zenon, <1>8 DEF TypeOK
    <3> QED BY <1>1, <1>8, <3>1 DEF TypeOK
  <2>5. PcInv'
    BY Zenon, <1>1, <2>2 DEF PcInv, HostLabels, HaltLabels
  <2>6. \A u \in Threads : pc'[u] \notin RunLabels /\ (pc'[Idle] = "exited")
    BY Zenon, <1>1, <1>2, <2>2 DEF RunLabels
  <2>7. TokenInv'
    BY Zenon, <1>1, <2>3, <2>6 DEF TokenInv
  <2>8. CurrentInv'
    BY Zenon, <1>1, <1>5, <2>6 DEF CurrentInv, RunLabels
  <2>9. HostInv'
    <3> SUFFICES ASSUME NEW g \in Hosts PROVE HostTask(g)'
      BY Zenon DEF HostInv
    <3>1. HostTask(g) /\ state'[g] = state[g] /\ g # Idle
      BY Zenon, <2>1 DEF HostInv
    <3>2. state[g] # "run"
      BY Zenon, <1>1 DEF HaltInv, Runnable
    <3>3. pc'[g] \in {"out", "gone", "halted"} /\ (pc'[g] = "gone" => pc[g] = "gone")
      BY Zenon, <1>1, <2>2
    <3> QED BY Zenon, <1>1, <1>8, <2>6, <3>1, <3>2, <3>3 DEF HostTask, HaltLabels
  <2>10. Host0Inv'
    <3>1. \A g \in Hosts : pc'[g] # "wait0"
      BY Zenon, <1>1, <2>2
    <3>2. state[Host0] # "run" /\ state'[Host0] = state[Host0]
      BY Zenon, <1>1, <2>1 DEF HaltInv, Runnable
    <3> QED BY Zenon, <1>1, <1>8, <2>6, <3>1, <3>2 DEF Host0Inv
  <2>11. KThreadInv'
    <3>1. \A k \in KThreads : pc'[k] = pc[k] /\ state'[k] = state[k]
      BY Zenon, <1>1, <2>1, <2>2
    <3> QED BY <1>1, <1>8, <3>1 DEF KThreadInv
  <2>12. IdleInv'
    BY Zenon, <1>1, <1>8, <2>1, <2>6 DEF IdleInv
  <2>13. JoinInv'
    <3>1. \A y \in Tasks : dead[y] => state'[y] = state[y] /\ pc'[y] = pc[y]
      BY Zenon, <1>1, <2>1, <2>2 DEF JoinInv, IdleInv
    <3>2. \A u \in Threads : pc'[u] \in {"join", "killing"} => pc[u] \in {"join", "killing"}
      BY Zenon, <2>2
    <3>3. \A u \in Threads : pc[u] \in {"join", "killing"} => pc'[u] = pc[u]
      BY Zenon, <1>1, <2>2
    <3> QED BY <1>1, <1>8, <3>1, <3>2, <3>3 DEF JoinInv
  <2>14. HaltInv'
    <3>1. Runnable(state)' = {}
      BY Zenon, <1>1, <2>1 DEF HaltInv, Runnable
    <3>2. \A g \in Hosts \ {h} : pc'[g] \in {"out", "gone"}
      BY Zenon, <1>1, <2>2
    <3> QED BY Zenon, <1>1, <1>2, <1>5, <2>2, <2>6, <3>1, <3>2 DEF HaltInv, HaltLabels
  <2> QED BY Zenon, <1>1, <2>4, <2>5, <2>7, <2>8, <2>9, <2>10, <2>11, <2>12, <2>13, <2>14
<1> QED BY Zenon, <1>6, <1>7, <1>8 DEF ThreadsCleanup

\* cond_resched: the task stays runnable and its thread waits.
LEMMA YieldStep ==
  ASSUME IInv, NEW t \in Threads, Yield(t)
  PROVE  IInv'
<1> USE ThreadsAssumption DEF IInv, Tasks, Threads, HostTasks, exitVars
<1>1. /\ t \in Hosts \cup KThreads /\ pc[t] = "kernel" /\ pc[t] \in RunLabels
      /\ current = t /\ SwitchTo(t, state, tid, "switched") /\ work' \in 0..MaxWork
      /\ UNCHANGED <<dead, join, shutdown, idle_pending, mismatch, tls>>
  BY DEF Yield, Switch, Work, RunLabels, CurrentInv, TypeOK
<1>2. /\ idle_sem = 0 /\ \A y \in Tasks : ~Up(y)
      /\ \A s \in Threads : pc[s] \in RunLabels => s = t
      /\ pc[Idle] # "exited"
      /\ \A y \in Tasks : dead[y] => state[y] = "freed"
  BY Zenon, <1>1, Alone
<1>3. Switched(t, state, tid, "switched") /\ TokenInv' /\ CurrentInv'
  <2>1. pc' = [pc EXCEPT ![t] = "switched"] /\ tid' = tid
    BY Zenon, <1>1 DEF SwitchTo, Goto
  <2>2. \A x \in Runnable(state) \ {current} : Waits(x)' /\ ~dead[x]
    BY Zenon, <1>1, <2>1, StillReady
  <2> QED BY Zenon, <1>1, <2>2, SwitchResult DEF TypeOK, States, RunLabels, IdleInv
<1>4. tid[t] = t /\ state[t] = "run"
  BY Zenon, <1>1 DEF HostInv, HostTask, KThreadInv, CurrentInv
<1>5. Handover(t, "switched") /\ state' = state /\ tid' = tid
  BY Zenon, <1>1, <1>3, SwitchedHandsOver
<1>6. state'[t] = "run" /\ \A x \in Tasks \ {t} : state'[x] = state[x]
  BY Zenon, <1>1, <1>4, <1>5 DEF TypeOK
<1>7. TypeOK' /\ PcInv'
  <2>1. TypeOK'
    BY Zenon, <1>1, <1>3 DEF TypeOK, Switched
  <2>2. PcInv'
    BY Zenon, <1>1, <1>5 DEF Handover, PcInv, HostLabels
  <2> QED BY Zenon, <2>1, <2>2
<1>8. HostInv'
  <2> SUFFICES ASSUME NEW g \in Hosts PROVE HostTask(g)'
    BY Zenon DEF HostInv
  <2>1. CASE g = t
    <3>1. pc'[g] = "switched" /\ state'[g] = "run" /\ HostTask(g)
      BY Zenon, <1>5, <1>6, <2>1 DEF Handover, HostInv
    <3>2. tid'[g] = g /\ state[g] = "run" /\ current' # g
      BY Zenon, <1>1, <1>4, <1>5, <2>1 DEF Handover
    <3> QED BY Zenon, <1>1, <3>1, <3>2 DEF HostTask, Waits, HaltLabels
  <2>2. CASE g # t
    <3>1. pc'[g] = pc[g] /\ state'[g] = state[g] /\ tid'[g] = tid[g] /\ g # current
      BY Zenon, <1>1, <1>5, <1>6, <2>2 DEF Handover
    <3> QED BY Zenon, <1>1, <1>2, <3>1, HostKept
  <2> QED BY Zenon, <2>1, <2>2
<1>9. Host0Inv'
  BY Zenon, <1>1, <1>5, <1>6, Host0Kept
<1>10. KThreadInv'
  <2>1. \A k \in KThreads :
          \/ state'[k] = state[k] /\ k # t
          \/ pc'[k] = "switched" /\ state'[k] \in {"run", "sleep", "dead"}
    BY Zenon, <1>1, <1>5, <1>6 DEF Handover
  <2>2. \A k \in KThreads : state[k] = "none" => state'[k] = "none"
    BY Zenon, <1>4, <1>6
  <2> QED BY Zenon, <1>1, <1>5, <2>1, <2>2, KThreadKept
<1>11. IdleInv'
  BY Zenon, <1>1, <1>5, <1>6 DEF Handover, IdleInv
<1>12. JoinInv'
  <2>1. pc[t] \in RunLabels \ {"join"} /\ \A x \in Tasks : dead[x] => state'[x] = state[x]
    BY Zenon, <1>1, <1>4, <1>6
  <2> QED BY Zenon, <1>1, <1>5, <2>1, JoinKept
<1>13. HaltInv'
  BY Zenon, <1>1, <1>5, HaltKept DEF IdleInv, RunLabels, HaltLabels
<1> QED BY Zenon, <1>1, <1>3, <1>7, <1>8, <1>9, <1>10, <1>11, <1>12, <1>13

\* A task waits for something.
LEMMA BlockStep ==
  ASSUME IInv, NEW t \in Threads, Block(t)
  PROVE  IInv'
<1> USE ThreadsAssumption DEF IInv, Tasks, Threads, HostTasks, exitVars
<1>1. /\ t \in Hosts \cup KThreads /\ pc[t] = "kernel" /\ pc[t] \in RunLabels
      /\ current = t /\ SwitchTo(t, [state EXCEPT ![t] = "sleep"], tid, "switched")
      /\ work' \in 0..MaxWork
      /\ UNCHANGED <<dead, join, shutdown, idle_pending, mismatch, tls>>
  BY DEF Block, Switch, Work, RunLabels, CurrentInv, TypeOK
<1>2. /\ idle_sem = 0 /\ \A y \in Tasks : ~Up(y)
      /\ \A s \in Threads : pc[s] \in RunLabels => s = t
      /\ pc[Idle] # "exited"
      /\ \A y \in Tasks : dead[y] => state[y] = "freed"
  BY Zenon, <1>1, Alone
<1>3. /\ Switched(t, [state EXCEPT ![t] = "sleep"], tid, "switched")
      /\ TokenInv' /\ CurrentInv'
  <2>1. pc' = [pc EXCEPT ![t] = "switched"] /\ tid' = tid
    BY Zenon, <1>1 DEF SwitchTo, Goto
  <2>2. \A x \in Runnable([state EXCEPT ![t] = "sleep"]) \ {current} :
          x \in Runnable(state) \ {current}
    BY Zenon, <1>1 DEF Runnable, TypeOK
  <2>3. \A x \in Runnable([state EXCEPT ![t] = "sleep"]) \ {current} : Waits(x)' /\ ~dead[x]
    BY Zenon, <1>1, <2>1, <2>2, StillReady
  <2>4. [state EXCEPT ![t] = "sleep"] \in [Tasks -> States]
    BY Zenon DEF TypeOK, States
  <2> QED BY Zenon, <1>1, <2>3, <2>4, SwitchResult DEF TypeOK, RunLabels, IdleInv
<1>4. tid[t] = t /\ state[t] = "run" /\ ~dead[t]
  BY Zenon, <1>1, <1>2 DEF HostInv, HostTask, KThreadInv, CurrentInv
<1>5. Handover(t, "switched") /\ state' = [state EXCEPT ![t] = "sleep"] /\ tid' = tid
  BY Zenon, <1>1, <1>3, SwitchedHandsOver
<1>6. state'[t] = "sleep" /\ \A x \in Tasks \ {t} : state'[x] = state[x]
  BY Zenon, <1>1, <1>4, <1>5 DEF TypeOK
<1>7. TypeOK' /\ PcInv'
  <2>1. TypeOK'
    BY Zenon, <1>1, <1>3 DEF TypeOK, Switched
  <2>2. PcInv'
    BY Zenon, <1>1, <1>5 DEF Handover, PcInv, HostLabels
  <2> QED BY Zenon, <2>1, <2>2
<1>8. HostInv'
  <2> SUFFICES ASSUME NEW g \in Hosts PROVE HostTask(g)'
    BY Zenon DEF HostInv
  <2>1. CASE g = t
    <3>1. pc'[g] = "switched" /\ state'[g] = "sleep" /\ HostTask(g)
      BY Zenon, <1>5, <1>6, <2>1 DEF Handover, HostInv
    <3>2. tid'[g] = g /\ state[g] = "run" /\ current' # g
      BY Zenon, <1>1, <1>4, <1>5, <2>1 DEF Handover
    <3> QED BY Zenon, <1>1, <3>1, <3>2 DEF HostTask, Waits, HaltLabels
  <2>2. CASE g # t
    <3>1. pc'[g] = pc[g] /\ state'[g] = state[g] /\ tid'[g] = tid[g] /\ g # current
      BY Zenon, <1>1, <1>5, <1>6, <2>2 DEF Handover
    <3> QED BY Zenon, <1>1, <1>2, <3>1, HostKept
  <2> QED BY Zenon, <2>1, <2>2
<1>9. Host0Inv'
  BY Zenon, <1>1, <1>5, <1>6, Host0Kept
<1>10. KThreadInv'
  <2>1. \A k \in KThreads :
          \/ state'[k] = state[k] /\ k # t
          \/ pc'[k] = "switched" /\ state'[k] \in {"run", "sleep", "dead"}
    BY Zenon, <1>1, <1>5, <1>6 DEF Handover
  <2>2. \A k \in KThreads : state[k] = "none" => state'[k] = "none"
    BY Zenon, <1>4, <1>6
  <2> QED BY Zenon, <1>1, <1>5, <2>1, <2>2, KThreadKept
<1>11. IdleInv'
  BY Zenon, <1>1, <1>5, <1>6 DEF Handover, IdleInv
<1>12. JoinInv'
  <2>1. pc[t] \in RunLabels \ {"join"} /\ \A x \in Tasks : dead[x] => state'[x] = state[x]
    BY Zenon, <1>1, <1>4, <1>6
  <2> QED BY Zenon, <1>1, <1>5, <2>1, JoinKept
<1>13. HaltInv'
  BY Zenon, <1>1, <1>5, HaltKept DEF IdleInv, RunLabels, HaltLabels
<1> QED BY Zenon, <1>1, <1>3, <1>7, <1>8, <1>9, <1>10, <1>11, <1>12, <1>13

\* do_exit of a kernel thread: its thread waits to be killed.
LEMMA DoExitStep ==
  ASSUME IInv, NEW k \in Threads, DoExit(k)
  PROVE  IInv'
<1> USE ThreadsAssumption DEF IInv, Tasks, Threads, HostTasks, exitVars
<1>1. /\ k \in KThreads /\ pc[k] = "kernel" /\ pc[k] \in RunLabels
      /\ current = k /\ SwitchTo(k, [state EXCEPT ![k] = "dead"], tid, "switched")
      /\ UNCHANGED <<dead, join, shutdown, idle_pending, mismatch, tls, work>>
  BY Zenon DEF DoExit, Switch, RunLabels, CurrentInv
<1>2. /\ idle_sem = 0 /\ \A y \in Tasks : ~Up(y)
      /\ \A s \in Threads : pc[s] \in RunLabels => s = k
      /\ pc[Idle] # "exited"
      /\ \A y \in Tasks : dead[y] => state[y] = "freed"
  BY Zenon, <1>1, Alone
<1>3. /\ Switched(k, [state EXCEPT ![k] = "dead"], tid, "switched")
      /\ TokenInv' /\ CurrentInv'
  <2>1. pc' = [pc EXCEPT ![k] = "switched"] /\ tid' = tid
    BY Zenon, <1>1 DEF SwitchTo, Goto
  <2>2. \A x \in Runnable([state EXCEPT ![k] = "dead"]) \ {current} :
          x \in Runnable(state) \ {current}
    BY Zenon, <1>1 DEF Runnable, TypeOK
  <2>3. \A x \in Runnable([state EXCEPT ![k] = "dead"]) \ {current} : Waits(x)' /\ ~dead[x]
    BY Zenon, <1>1, <2>1, <2>2, StillReady
  <2>4. [state EXCEPT ![k] = "dead"] \in [Tasks -> States]
    BY Zenon DEF TypeOK, States
  <2> QED BY Zenon, <1>1, <2>3, <2>4, SwitchResult DEF TypeOK, RunLabels, IdleInv
<1>4. tid[k] = k /\ state[k] = "run" /\ ~dead[k]
  BY Zenon, <1>1, <1>2 DEF KThreadInv, CurrentInv
<1>5. Handover(k, "switched") /\ state' = [state EXCEPT ![k] = "dead"] /\ tid' = tid
  BY Zenon, <1>1, <1>3, SwitchedHandsOver
<1>6. state'[k] = "dead" /\ \A x \in Tasks \ {k} : state'[x] = state[x]
  BY Zenon, <1>1, <1>4, <1>5 DEF TypeOK
<1>7. TypeOK' /\ PcInv'
  <2>1. TypeOK'
    BY Zenon, <1>1, <1>3 DEF TypeOK, Switched
  <2>2. PcInv'
    BY Zenon, <1>1, <1>5 DEF Handover, PcInv, HostLabels
  <2> QED BY Zenon, <2>1, <2>2
<1>8. HostInv'
  <2> SUFFICES ASSUME NEW g \in Hosts PROVE HostTask(g)'
    BY Zenon DEF HostInv
  <2>1. pc'[g] = pc[g] /\ state'[g] = state[g] /\ tid'[g] = tid[g] /\ g # current
    BY Zenon, <1>1, <1>5, <1>6 DEF Handover
  <2> QED BY Zenon, <1>1, <1>2, <2>1, HostKept
<1>9. Host0Inv'
  BY Zenon, <1>1, <1>5, <1>6, Host0Kept
<1>10. KThreadInv'
  <2>1. \A m \in KThreads :
          \/ state'[m] = state[m] /\ m # k
          \/ pc'[m] = "switched" /\ state'[m] \in {"run", "sleep", "dead"}
    BY Zenon, <1>1, <1>5, <1>6 DEF Handover
  <2>2. \A m \in KThreads : state[m] = "none" => state'[m] = "none"
    BY Zenon, <1>4, <1>6
  <2> QED BY Zenon, <1>1, <1>5, <2>1, <2>2, KThreadKept
<1>11. IdleInv'
  BY Zenon, <1>1, <1>5, <1>6 DEF Handover, IdleInv
<1>12. JoinInv'
  <2>1. pc[k] \in RunLabels \ {"join"} /\ \A x \in Tasks : dead[x] => state'[x] = state[x]
    BY Zenon, <1>1, <1>4, <1>6
  <2> QED BY Zenon, <1>1, <1>5, <2>1, JoinKept
<1>13. HaltInv'
  BY Zenon, <1>1, <1>5, HaltKept DEF IdleInv, RunLabels, HaltLabels
<1> QED BY Zenon, <1>1, <1>3, <1>7, <1>8, <1>9, <1>10, <1>11, <1>12, <1>13

\* del_host_task: the task is dead and its thread gone.
LEMMA DelHostTaskStep ==
  ASSUME IInv, NEW h \in Threads, DelHostTask(h)
  PROVE  IInv'
<1> USE ThreadsAssumption DEF IInv, Tasks, Threads, HostTasks, exitVars
<1>1. /\ h \in Hosts /\ pc[h] = "exit" /\ pc[h] \in RunLabels
      /\ current = h /\ SwitchTo(h, [state EXCEPT ![h] = "dead"], tid, "gone")
      /\ UNCHANGED <<dead, join, shutdown, idle_pending, mismatch, tls, work>>
  BY Zenon DEF DelHostTask, Switch, RunLabels, CurrentInv
<1>2. /\ idle_sem = 0 /\ \A y \in Tasks : ~Up(y)
      /\ \A s \in Threads : pc[s] \in RunLabels => s = h
      /\ pc[Idle] # "exited"
      /\ \A y \in Tasks : dead[y] => state[y] = "freed"
  BY Zenon, <1>1, Alone
<1>3. /\ Switched(h, [state EXCEPT ![h] = "dead"], tid, "gone")
      /\ TokenInv' /\ CurrentInv'
  <2>1. pc' = [pc EXCEPT ![h] = "gone"] /\ tid' = tid
    BY Zenon, <1>1 DEF SwitchTo, Goto
  <2>2. \A x \in Runnable([state EXCEPT ![h] = "dead"]) \ {current} :
          x \in Runnable(state) \ {current}
    BY Zenon, <1>1 DEF Runnable, TypeOK
  <2>3. \A x \in Runnable([state EXCEPT ![h] = "dead"]) \ {current} : Waits(x)' /\ ~dead[x]
    BY Zenon, <1>1, <2>1, <2>2, StillReady
  <2>4. [state EXCEPT ![h] = "dead"] \in [Tasks -> States]
    BY Zenon DEF TypeOK, States
  <2> QED BY Zenon, <1>1, <2>3, <2>4, SwitchResult DEF TypeOK, RunLabels, IdleInv
<1>4. tid[h] = h /\ state[h] = "run" /\ ~dead[h] /\ ~shutdown
  BY Zenon, <1>1, <1>2 DEF HostInv, HostTask, CurrentInv, HaltInv, HaltLabels
<1>5. Handover(h, "gone") /\ state' = [state EXCEPT ![h] = "dead"] /\ tid' = tid
  BY Zenon, <1>1, <1>3, SwitchedHandsOver
<1>6. state'[h] = "dead" /\ \A x \in Tasks \ {h} : state'[x] = state[x]
  BY Zenon, <1>1, <1>4, <1>5 DEF TypeOK
<1>7. TypeOK' /\ PcInv'
  <2>1. TypeOK'
    BY Zenon, <1>1, <1>3 DEF TypeOK, Switched
  <2>2. PcInv'
    BY Zenon, <1>1, <1>5 DEF Handover, PcInv, HostLabels
  <2> QED BY Zenon, <2>1, <2>2
<1>8. HostInv'
  <2> SUFFICES ASSUME NEW g \in Hosts PROVE HostTask(g)'
    BY Zenon DEF HostInv
  <2>1. CASE g = h
    <3>1. pc'[g] = "gone" /\ state'[g] = "dead" /\ HostTask(g)
      BY Zenon, <1>5, <1>6, <2>1 DEF Handover, HostInv
    <3>2. tid'[g] = g /\ state[g] = "run" /\ current' # g
      BY Zenon, <1>1, <1>4, <1>5, <2>1 DEF Handover
    <3> QED BY Zenon, <1>1, <3>1, <3>2 DEF HostTask, Waits, HaltLabels
  <2>2. CASE g # h
    <3>1. pc'[g] = pc[g] /\ state'[g] = state[g] /\ tid'[g] = tid[g] /\ g # current
      BY Zenon, <1>1, <1>5, <1>6, <2>2 DEF Handover
    <3> QED BY Zenon, <1>1, <1>2, <3>1, HostKept
  <2> QED BY Zenon, <2>1, <2>2
<1>9. Host0Inv'
  BY Zenon, <1>1, <1>5, <1>6, Host0Kept
<1>10. KThreadInv'
  <2>1. \A k \in KThreads :
          \/ state'[k] = state[k] /\ k # h
          \/ pc'[k] = "switched" /\ state'[k] \in {"run", "sleep", "dead"}
    BY Zenon, <1>1, <1>5, <1>6 DEF Handover
  <2>2. \A k \in KThreads : state[k] = "none" => state'[k] = "none"
    BY Zenon, <1>4, <1>6
  <2> QED BY Zenon, <1>1, <1>5, <2>1, <2>2, KThreadKept
<1>11. IdleInv'
  BY Zenon, <1>1, <1>5, <1>6 DEF Handover, IdleInv
<1>12. JoinInv'
  <2>1. pc[h] \in RunLabels \ {"join"} /\ \A x \in Tasks : dead[x] => state'[x] = state[x]
    BY Zenon, <1>1, <1>4, <1>6
  <2> QED BY Zenon, <1>1, <1>5, <2>1, JoinKept
<1>13. HaltInv'
  BY Zenon, <1>1, <1>5, HaltKept DEF IdleInv, RunLabels, HaltLabels
<1> QED BY Zenon, <1>1, <1>3, <1>7, <1>8, <1>9, <1>10, <1>11, <1>12, <1>13

\* The idle loop schedules a runnable task.
LEMMA IdleScheduleStep ==
  ASSUME IInv, IdleSchedule
  PROVE  IInv'
<1> USE ThreadsAssumption DEF IInv, Tasks, Threads, HostTasks, exitVars
<1>1. /\ pc[Idle] = "kernel" /\ pc[Idle] \in RunLabels
      /\ current = Idle /\ SwitchTo(Idle, state, tid, "switched")
      /\ UNCHANGED <<dead, join, shutdown, idle_pending, mismatch, tls, work>>
  BY Zenon DEF IdleSchedule, Switch, RunLabels, CurrentInv
<1>2. /\ idle_sem = 0 /\ \A y \in Tasks : ~Up(y)
      /\ \A s \in Threads : pc[s] \in RunLabels => s = Idle
      /\ pc[Idle] # "exited"
      /\ \A y \in Tasks : dead[y] => state[y] = "freed"
  BY Zenon, <1>1, Alone
<1>3. Switched(Idle, state, tid, "switched") /\ TokenInv' /\ CurrentInv'
  <2>1. pc' = [pc EXCEPT ![Idle] = "switched"] /\ tid' = tid
    BY Zenon, <1>1 DEF SwitchTo, Goto
  <2>2. \A x \in Runnable(state) \ {current} : Waits(x)' /\ ~dead[x]
    BY Zenon, <1>1, <2>1, StillReady
  <2> QED BY Zenon, <1>1, <2>2, SwitchResult DEF TypeOK, States, RunLabels, IdleInv
<1>4. Handover(Idle, "switched") /\ state' = state /\ tid' = tid
  BY Zenon, <1>3, SwitchedHandsOver
<1>5. TypeOK'
  BY Zenon, <1>1, <1>3 DEF TypeOK, Switched
<1>6. PcInv'
  BY Zenon, <1>4 DEF Handover, PcInv
<1>7. HostInv'
  <2> SUFFICES ASSUME NEW g \in Hosts PROVE HostTask(g)'
    BY Zenon DEF HostInv
  <2>1. pc'[g] = pc[g] /\ g # current
    BY Zenon, <1>1, <1>4 DEF Handover
  <2> QED BY Zenon, <1>1, <1>2, <1>4, <2>1, HostKept
<1>8. Host0Inv'
  BY Zenon, <1>1, <1>4, Host0Kept
<1>9. KThreadInv'
  BY Zenon, <1>1, <1>4, KThreadKept
<1>10. IdleInv'
  BY Zenon, <1>1, <1>4 DEF Handover, IdleInv
<1>11. JoinInv'
  <2>1. pc[Idle] \in RunLabels \ {"join"}
    BY Zenon, <1>1
  <2> QED BY Zenon, <1>1, <1>4, <2>1, JoinKept
<1>12. HaltInv'
  BY Zenon, <1>1, <1>4, HaltKept DEF IdleInv, RunLabels, HaltLabels
<1> QED BY Zenon, <1>1, <1>3, <1>5, <1>6, <1>7, <1>8, <1>9, <1>10, <1>11, <1>12

\* the switch to it by longjmp and is pending.
LEMMA ArchCpuIdleIrqStep ==
  ASSUME IInv, ArchCpuIdleIrq
  PROVE  IInv'
<1> USE ThreadsAssumption DEF IInv, Tasks, Threads, HostTasks, exitVars
<1>1. PICK x \in Waiting : SwitchTo(Idle, [state EXCEPT ![x] = "run"], tid, "pending")
  BY Zenon DEF ArchCpuIdleIrq, Switch
<1>2. /\ pc[Idle] = "kernel" /\ pc[Idle] \in RunLabels /\ current = Idle
      /\ idle_pending' = TRUE /\ work' \in 0..MaxWork /\ ~shutdown
      /\ UNCHANGED <<dead, join, shutdown, mismatch, tls>>
  BY DEF ArchCpuIdleIrq, Work, SetPending, RunLabels, CurrentInv, TypeOK
<1>3. /\ idle_sem = 0 /\ \A y \in Tasks : ~Up(y)
      /\ \A s \in Threads : pc[s] \in RunLabels => s = Idle
      /\ pc[Idle] # "exited"
      /\ \A y \in Tasks : dead[y] => state[y] = "freed"
  BY Zenon, <1>2, Alone
<1>4. /\ x \in Hosts \cup KThreads /\ state[x] = "sleep" /\ pc[x] = "switched"
      /\ tid[x] = x /\ ~dead[x]
  BY Zenon, <1>1, <1>3 DEF Waiting, HostInv, HostTask, KThreadInv
<1>5. /\ Switched(Idle, [state EXCEPT ![x] = "run"], tid, "pending")
      /\ TokenInv' /\ CurrentInv'
  <2>1. pc' = [pc EXCEPT ![Idle] = "pending"] /\ tid' = tid
    BY Zenon, <1>1 DEF SwitchTo, Goto
  <2>2. \A y \in Runnable([state EXCEPT ![x] = "run"]) \ {current} :
          y = x \/ y \in Runnable(state) \ {current}
    BY Zenon DEF Runnable, TypeOK
  <2>3. Waits(x)' /\ ~dead[x]
    BY Zenon, <1>4, <2>1 DEF Waits, PcInv
  <2>4. \A y \in Runnable([state EXCEPT ![x] = "run"]) \ {current} : Waits(y)' /\ ~dead[y]
    BY Zenon, <1>2, <2>1, <2>2, <2>3, StillReady
  <2>5. [state EXCEPT ![x] = "run"] \in [Tasks -> States]
    BY Zenon DEF TypeOK, States
  <2> QED BY Zenon, <1>1, <1>2, <2>4, <2>5, SwitchResult DEF TypeOK, RunLabels, IdleInv
<1>6. TypeOK'
  BY Zenon, <1>2, <1>5 DEF TypeOK, Switched
<1>7. Handover(Idle, "pending") /\ state' = [state EXCEPT ![x] = "run"] /\ tid' = tid
  BY Zenon, <1>5, SwitchedHandsOver
<1>8. state'[x] = "run" /\ \A y \in Tasks \ {x} : state'[y] = state[y]
  BY Zenon, <1>4, <1>7 DEF TypeOK
<1>9. PcInv'
  BY Zenon, <1>7 DEF Handover, PcInv
<1>10. HostInv'
  <2> SUFFICES ASSUME NEW g \in Hosts PROVE HostTask(g)'
    BY Zenon DEF HostInv
  <2>0. pc'[g] = pc[g] /\ HostTask(g) /\ tid'[g] = tid[g] /\ g # current
    BY Zenon, <1>2, <1>7 DEF Handover, HostInv
  <2>1. CASE g = x
    <3>1. /\ pc'[g] = "switched" /\ pc[g] = "switched" /\ state'[g] = "run"
          /\ state[g] = "sleep" /\ tid'[g] = g
      BY Zenon, <1>4, <1>8, <2>0, <2>1
    <3> QED BY Zenon, <1>2, <2>0, <3>1 DEF HostTask, Waits, HaltLabels
  <2>2. CASE g # x
    <3>1. state'[g] = state[g]
      BY Zenon, <1>8, <2>2
    <3> QED BY Zenon, <1>2, <1>3, <2>0, <3>1, HostKept
  <2> QED BY Zenon, <2>1, <2>2
<1>11. Host0Inv'
  <2>1. state'[Host0] = state[Host0] /\ current # Host0
    BY Zenon, <1>2, <1>4, <1>8
  <2> QED BY Zenon, <1>2, <1>7, <2>1, Host0Kept
<1>12. KThreadInv'
  <2>1. \A k \in KThreads : k # Idle /\ (k # x => state'[k] = state[k])
    BY Zenon, <1>8
  <2>2. x \in KThreads => pc'[x] = "switched"
    BY Zenon, <1>4, <1>7 DEF Handover
  <2>3. \A k \in KThreads :
          \/ state'[k] = state[k] /\ k # Idle
          \/ pc'[k] = "switched" /\ state'[k] \in {"run", "sleep", "dead"}
    BY Zenon, <1>8, <2>1, <2>2
  <2>4. \A k \in KThreads : state[k] = "none" => state'[k] = "none"
    BY Zenon, <1>4, <2>1
  <2> QED BY Zenon, <1>2, <1>7, <2>3, <2>4, KThreadKept
<1>13. IdleInv'
  BY Zenon, <1>2, <1>4, <1>7, <1>8 DEF Handover, IdleInv
<1>14. JoinInv'
  <2>1. pc[Idle] \in RunLabels \ {"join"} /\ \A y \in Tasks : dead[y] => state'[y] = state[y]
    BY Zenon, <1>2, <1>4, <1>8
  <2> QED BY Zenon, <1>2, <1>7, <2>1, JoinKept
<1>15. HaltInv'
  BY Zenon, <1>2, <1>7, HaltKept DEF IdleInv, RunLabels, HaltLabels
<1> QED BY Zenon, <1>2, <1>5, <1>6, <1>9, <1>10, <1>11, <1>12, <1>13, <1>14, <1>15

\* A put that schedules: the host task that is current is parked.
LEMMA PutReschedStep ==
  ASSUME IInv, NEW t \in Threads, PutResched(t)
  PROVE  IInv'
<1> USE ThreadsAssumption DEF IInv, Tasks, Threads, HostTasks, exitVars
<1>1. /\ t \in Hosts \cup {Timer} /\ pc[t] \in {"kernel", "put", "irq"} /\ pc[t] \in RunLabels
      /\ SwitchTo(t, Park, tid, "out")
      /\ UNCHANGED <<dead, join, shutdown, idle_pending, mismatch, tls, work>>
  BY Zenon DEF PutResched, AtPut, Switch, RunLabels
<1>2. /\ owner = t /\ idle_sem = 0 /\ \A y \in Tasks : ~Up(y)
      /\ \A s \in Threads : pc[s] \in RunLabels => s = t
      /\ pc[Idle] # "exited"
      /\ \A y \in Tasks : dead[y] => state[y] = "freed"
  BY Zenon, <1>1, Alone
<1>3. /\ ~shutdown /\ current \in Hosts \cup {Host0, Idle}
      /\ t \in Hosts => current = t \/ state[t] = "none"
      /\ current \in Hosts => current = t \/ pc[current] = "out"
  <2>1. ~shutdown
    BY Zenon, <1>1, <1>2 DEF HaltInv
  <2>2. current \in Hosts \cup {Host0, Idle}
    <3>1. current \notin KThreads
      BY Zenon, <1>1, <1>2 DEF CurrentInv, RunLabels
    <3> QED BY Zenon, <3>1 DEF TypeOK
  <2>3. t \in Hosts => current = t \/ state[t] = "none"
    BY Zenon, <1>1 DEF CurrentInv, HostInv, HostTask, PcInv, HostLabels, RunLabels, HaltLabels
  <2>4. current \in Hosts => current = t \/ pc[current] = "out"
    BY Zenon, <1>2 DEF CurrentInv, RunLabels
  <2> QED BY Zenon, <2>1, <2>2, <2>3, <2>4
<1>4. /\ Park \in [Tasks -> States] /\ \A x \in Tasks \ {current} : Park[x] = state[x]
      /\ Park[Idle] = state[Idle] /\ (current # Idle => Park[current] = "sleep")
  BY Zenon, <1>3 DEF Park, TypeOK, States
<1>5. Switched(t, Park, tid, "out") /\ TokenInv' /\ CurrentInv'
  <2>1. pc' = [pc EXCEPT ![t] = "out"] /\ tid' = tid
    BY Zenon, <1>1 DEF SwitchTo, Goto
  <2>2. \A x \in Runnable(Park) \ {current} : x \in Runnable(state) \ {current}
    BY Zenon, <1>4 DEF Runnable
  <2>3. \A x \in Runnable(Park) \ {current} : Waits(x)' /\ ~dead[x]
    BY Zenon, <1>1, <2>1, <2>2, StillReady
  <2> QED BY Zenon, <1>1, <1>4, <2>3, SwitchResult DEF TypeOK, RunLabels, IdleInv
<1>6. TypeOK'
  BY Zenon, <1>1, <1>4, <1>5 DEF TypeOK, Switched, States
<1>7. /\ Handover(t, "out") /\ state' = Park /\ tid' = tid
  BY Zenon, <1>5, SwitchedHandsOver
<1>8. PcInv'
  BY Zenon, <1>1, <1>7 DEF Handover, PcInv, HostLabels
<1>9. HostInv'
  <2>1. current # Idle => state[current] = "run"
    BY Zenon DEF CurrentInv
  <2> SUFFICES ASSUME NEW h \in Hosts PROVE HostTask(h)'
    BY Zenon DEF HostInv
  <2>2. HostTask(h) /\ tid'[h] = tid[h] /\ current' # current
    BY Zenon, <1>7 DEF HostInv, Handover
  <2>3. CASE h = current
    <3>1. pc'[h] = "out" /\ state'[h] = "sleep" /\ state[h] = "run"
      BY Zenon, <1>3, <1>4, <1>7, <2>1, <2>3 DEF Handover
    <3> QED BY Zenon, <1>1, <2>2, <3>1 DEF HostTask, HaltLabels
  <2>4. CASE h # current /\ h = t
    <3>1. pc'[h] = "out" /\ state'[h] = "none" /\ state[h] = "none"
      BY Zenon, <1>3, <1>4, <1>7, <2>4 DEF Handover
    <3> QED BY Zenon, <1>1, <2>2, <3>1 DEF HostTask, HaltLabels
  <2>5. CASE h # current /\ h # t
    <3>1. pc'[h] = pc[h] /\ state'[h] = state[h]
      BY Zenon, <1>4, <1>7, <2>5 DEF Handover
    <3> QED BY Zenon, <1>1, <1>2, <2>2, <2>5, <3>1, HostKept
  <2> QED BY Zenon, <2>3, <2>4, <2>5
<1>10. Host0Inv'
  <2>1. CASE current = Host0
    <3>1. /\ state'[Host0] = "sleep" /\ current' # Host0 /\ tid'[Host0] = tid[Host0]
          /\ \A h \in Hosts : pc'[h] # "wait0"
      BY Zenon, <1>2, <1>4, <1>7, <2>1 DEF Handover, Host0Inv
    <3> QED BY Zenon, <1>1, <3>1 DEF Host0Inv
  <2>2. CASE current # Host0
    <3>1. state'[Host0] = state[Host0]
      BY Zenon, <1>4, <1>7, <2>2
    <3> QED BY Zenon, <1>1, <1>7, <2>2, <3>1, Host0Kept
  <2> QED BY Zenon, <2>1, <2>2
<1>11. KThreadInv'
  <2>1. \A k \in KThreads : state'[k] = state[k] /\ k # t
    BY Zenon, <1>1, <1>3, <1>4, <1>7
  <2> QED BY Zenon, <1>1, <1>7, <2>1, KThreadKept
<1>12. IdleInv'
  BY Zenon, <1>1, <1>4, <1>7 DEF Handover, IdleInv
<1>13. JoinInv'
  <2>1. pc[t] \in RunLabels \ {"join"} /\ \A x \in Tasks : dead[x] => state'[x] = state[x]
    BY Zenon, <1>1, <1>3, <1>4, <1>7 DEF JoinInv
  <2> QED BY Zenon, <1>1, <1>7, <2>1, JoinKept
<1>14. HaltInv'
  BY Zenon, <1>1, <1>7, HaltKept DEF IdleInv, RunLabels, HaltLabels
<1> QED BY Zenon, <1>1, <1>5, <1>6, <1>8, <1>9, <1>10, <1>11, <1>12, <1>13, <1>14

\* lkl_sys_halt: the last system call leaves the CPU to kernel threads and idle.
LEMMA RebootStep ==
  ASSUME IInv, NEW h \in Threads, Reboot(h)
  PROVE  IInv'
<1> USE ThreadsAssumption DEF IInv, Tasks, Threads, HostTasks, exitVars
<1>1. /\ h \in Hosts /\ pc[h] = "kernel" /\ pc[h] \in RunLabels /\ current = h
      /\ \A g \in Hosts \ {h} : pc[g] \in {"out", "gone"}
      /\ SwitchTo(h, Park, tid, "halting") /\ ~shutdown /\ shutdown' = TRUE
      /\ UNCHANGED <<dead, join, idle_pending, mismatch, tls, work>>
  BY Zenon DEF Reboot, Switch, RunLabels, CurrentInv
<1>2. /\ owner = h /\ idle_sem = 0 /\ \A y \in Tasks : ~Up(y)
      /\ \A s \in Threads : pc[s] \in RunLabels => s = h
      /\ pc[Idle] # "exited"
      /\ \A y \in Tasks : dead[y] => state[y] = "freed"
  BY Zenon, <1>1, Alone
<1>3. /\ Park = [state EXCEPT ![h] = "sleep"] /\ Park \in [Tasks -> States]
  BY Zenon, <1>1 DEF Park, TypeOK, States
<1>4. Switched(h, Park, tid, "halting") /\ TokenInv' /\ CurrentInv'
  <2>1. pc' = [pc EXCEPT ![h] = "halting"] /\ tid' = tid
    BY Zenon, <1>1 DEF SwitchTo, Goto
  <2>2. \A x \in Runnable(Park) \ {current} : x \in Runnable(state) \ {current}
    BY Zenon, <1>1, <1>3 DEF Runnable, TypeOK
  <2>3. \A x \in Runnable(Park) \ {current} : Waits(x)' /\ ~dead[x]
    BY Zenon, <1>1, <2>1, <2>2, StillReady
  <2> QED BY Zenon, <1>1, <1>3, <2>3, SwitchResult DEF TypeOK, RunLabels, IdleInv
<1>5. TypeOK'
  <2>1. shutdown' \in BOOLEAN
    BY <1>1, Zenon
  <2> QED BY <1>1, <1>3, <1>4, <2>1 DEF TypeOK, Switched, States
<1>6. /\ Handover(h, "halting") /\ state' = Park /\ tid' = tid
  BY Zenon, <1>4, SwitchedHandsOver
<1>7. state'[h] = "sleep" /\ \A x \in Tasks \ {h} : state'[x] = state[x]
  BY Zenon, <1>1, <1>3, <1>6 DEF TypeOK
<1>8. PcInv'
  BY Zenon, <1>1, <1>6 DEF Handover, PcInv, HostLabels, HaltLabels
<1>9. HostInv'
  <2> SUFFICES ASSUME NEW g \in Hosts PROVE HostTask(g)'
    BY Zenon DEF HostInv
  <2>1. HostTask(g) /\ tid'[g] = tid[g]
    BY Zenon, <1>6 DEF HostInv
  <2>2. CASE g = h
    <3>1. /\ pc'[g] = "halting" /\ state'[g] = "sleep" /\ state[g] = "run"
          /\ pc[g] = "kernel"
      BY Zenon, <1>1, <1>6, <1>7, <2>1, <2>2 DEF Handover, HostTask
    <3> QED BY Zenon, <1>1, <2>1, <3>1 DEF HostTask, HaltLabels
  <2>3. CASE g # h
    <3>1. pc'[g] = pc[g] /\ state'[g] = state[g] /\ g # current
      BY Zenon, <1>1, <1>6, <1>7, <2>3 DEF Handover
    <3> QED BY Zenon, <1>1, <1>2, <2>1, <3>1, HostKept
  <2> QED BY Zenon, <2>2, <2>3
<1>10. Host0Inv'
  <2>1. state'[Host0] = state[Host0] /\ current # Host0
    BY Zenon, <1>1, <1>7
  <2> QED BY Zenon, <1>1, <1>6, <2>1, Host0Kept
<1>11. KThreadInv'
  <2>1. \A k \in KThreads : state'[k] = state[k] /\ k # h
    BY Zenon, <1>1, <1>7
  <2> QED BY Zenon, <1>1, <1>6, <2>1, KThreadKept
<1>12. IdleInv'
  BY Zenon, <1>1, <1>6, <1>7 DEF Handover, IdleInv
<1>13. JoinInv'
  <2>1. pc[h] \in RunLabels \ {"join"} /\ \A x \in Tasks : dead[x] => state'[x] = state[x]
    BY Zenon, <1>1, <1>7 DEF JoinInv
  <2> QED BY Zenon, <1>1, <1>6, <2>1, JoinKept
<1>14. HaltInv'
  <2>1. current' \in KThreads \cup {Idle} /\ owner' = current'
    BY Zenon, <1>1, <1>6 DEF Handover, Waits, IdleInv
  <2>2. pc'[Idle] # "exited" /\ pc'[h] = "halting"
    BY Zenon, <1>1, <1>2, <1>6 DEF Handover
  <2>3. \A g \in Hosts \ {h} : pc'[g] \in {"out", "gone"}
    BY Zenon, <1>1, <1>6 DEF Handover
  <2> QED BY Zenon, <1>1, <2>1, <2>2, <2>3 DEF HaltInv, HaltLabels
<1> QED BY Zenon, <1>1, <1>4, <1>5, <1>8, <1>9, <1>10, <1>11, <1>12, <1>13, <1>14

\* The uses of switch_to_host_task.
HostSwitch(h, task, label, wait, done) ==
  \/ task = Host0 /\ label = "new" /\ wait = "wait0" /\ done = "create"
  \/ task = h /\ label = "enter" /\ wait = "wait" /\ done = "kernel"
  \/ task = h /\ label = "delete" /\ wait = "waitd" /\ done = "exit"

\* switch_to_host_task to the task that is current.
LEMMA EnterCurrentStep ==
  ASSUME IInv, NEW h \in Hosts, NEW task \in Tasks, NEW label, NEW wait, NEW done,
         HostSwitch(h, task, label, wait, done), pc[h] = label,
         current = task, Goto(h, done),
         UNCHANGED <<switchVars, tid, exitVars, idle_pending, mismatch, tls, work>>
  PROVE  IInv'
<1> USE ThreadsAssumption DEF IInv, Tasks, Threads, HostTasks, exitVars, switchVars,
     Goto, HostSwitch
<1>1. pc[h] \in RunLabels /\ done \in RunLabels /\ pc' = [pc EXCEPT ![h] = done]
  BY Zenon DEF RunLabels
<1>2. /\ owner = h /\ tail = None /\ idle_sem = 0 /\ \A y \in Tasks : ~Up(y)
      /\ \A s \in Threads : pc[s] \in RunLabels => s = h
      /\ pc[Idle] # "exited"
      /\ \A y \in Tasks : dead[y] => state[y] = "freed"
  BY Zenon, <1>1, Alone DEF RunLabels
<1>3. task = h => state[h] = "run"
  BY Zenon DEF CurrentInv
<1> USE <1>1, <1>2, <1>3
<1>4. TypeOK'
  <2>1. TypeOK /\ UNCHANGED <<switchVars, tid, exitVars, idle_pending, mismatch, tls, work>>
    BY Zenon
  <2> HIDE <1>1, <1>2, <1>3 DEF IInv, HostSwitch, Goto
  <2> QED BY <2>1 DEF TypeOK
<1>5. PcInv'
  BY DEF PcInv, HostLabels, HaltLabels, RunLabels
<1>6. TokenInv'
  <2>1. \A s \in Threads : pc'[s] \in RunLabels => s = h
    BY Zenon DEF PcInv
  <2>2. \A y \in Tasks : ~Up(y)'
    BY Zenon DEF Up
  <2> QED BY Zenon, <2>1, <2>2 DEF PcInv, TokenInv, RunLabels
<1>7. CurrentInv'
  <2>1. \A s \in Threads : pc'[s] \in {"kernel", "exit", "join"} => s = current
    BY Zenon DEF PcInv, RunLabels
  <2>2. \A g \in Hosts : pc'[g] \in {"create", "put"} => current = Host0
    BY Zenon DEF PcInv, RunLabels
  <2>3. current \in Hosts => pc'[current] \in {"kernel", "exit"}
    BY Zenon DEF PcInv
  <2>4. current \in Hosts \cup {Host0}
    BY Zenon
  <2>5. pc'[Idle] = pc[Idle]
    BY Zenon DEF PcInv
  <2> QED BY Zenon, <2>1, <2>2, <2>3, <2>4, <2>5 DEF CurrentInv
<1>8. HostInv'
  <2> SUFFICES ASSUME NEW g \in Hosts PROVE HostTask(g)'
    BY Zenon DEF HostInv
  <2>1. HostTask(g) /\ pc'[Idle] = pc[Idle]
    BY Zenon DEF HostInv, PcInv
  <2>2. CASE g # h
    <3>1. pc'[g] = pc[g] /\ (Waits(g)' <=> Waits(g))
      BY Zenon, <2>2 DEF Waits, PcInv
    <3> QED BY Zenon, <2>1, <3>1 DEF HostTask, HaltLabels
  <2>3. CASE g = h
    <3>1. \/ pc'[g] = "create" /\ pc[g] = "new"
          \/ pc'[g] \in {"kernel", "exit"} /\ current = g /\ state[g] = "run"
      BY Zenon, <2>3 DEF PcInv
    <3> QED BY Zenon, <2>1, <2>3, <3>1 DEF HostTask, HaltLabels
  <2> QED BY Zenon, <2>2, <2>3
<1>9. Host0Inv'
  <2>1. \A g \in Hosts : pc'[g] = "wait0" <=> pc[g] = "wait0"
    BY Zenon DEF PcInv, RunLabels
  <2>2. Waits(Host0) => Waits(Host0)'
    BY Zenon, <2>1 DEF Waits
  <2>3. pc'[Idle] = pc[Idle]
    BY Zenon DEF PcInv
  <2> QED BY Zenon, <2>1, <2>2, <2>3 DEF Host0Inv
<1>10. KThreadInv'
  <2>1. \A k \in KThreads : pc'[k] = pc[k]
    BY Zenon DEF PcInv
  <2>2. KThreadInv /\ state' = state /\ tid' = tid /\ dead' = dead
    BY Zenon
  <2> HIDE <1>1, <1>2, <1>3 DEF IInv, HostSwitch, Goto
  <2> QED BY <2>1, <2>2 DEF KThreadInv
<1>11. IdleInv'
  BY Zenon DEF PcInv, IdleInv
<1>12. JoinInv'
  BY DEF PcInv, JoinInv
<1>13. HaltInv'
  BY Zenon DEF PcInv, HaltInv, HaltLabels, Runnable
<1>14. ~mismatch'
  BY Zenon DEF FinishTaskSwitch
<1> QED BY Zenon, <1>4, <1>5, <1>6, <1>7, <1>8, <1>9, <1>10, <1>11, <1>12, <1>13, <1>14

\* a host task that was current is parked.
LEMMA EnterOtherStep ==
  ASSUME IInv, OneNewcomer, NEW h \in Hosts, NEW task \in Tasks, NEW label, NEW wait, NEW done,
         HostSwitch(h, task, label, wait, done), pc[h] = label,
         current # task,
         NEW st, st = [Park EXCEPT ![task] = "run"],
         NEW tids, tids = [tid EXCEPT ![task] = h], SwitchTo(h, st, tids, wait),
         UNCHANGED <<exitVars, idle_pending, mismatch, tls, work>>
  PROVE  IInv'
<1> USE ThreadsAssumption DEF IInv, Tasks, Threads, HostTasks, exitVars, HostSwitch
<1>1. /\ pc[h] \in RunLabels /\ pc[h] # "join" /\ wait \notin RunLabels \cup HaltLabels
      /\ task \in HostTasks /\ task # Idle /\ task \notin KThreads
  BY Zenon DEF RunLabels, HaltLabels
<1>2. /\ owner = h /\ idle_sem = 0 /\ \A y \in Tasks : ~Up(y)
      /\ \A s \in Threads : pc[s] \in RunLabels => s = h
      /\ pc[Idle] # "exited"
      /\ \A y \in Tasks : dead[y] => state[y] = "freed"
  BY Zenon, <1>1, Alone
<1>3. /\ ~shutdown /\ current \in Hosts \cup {Host0, Idle}
      /\ current \in Hosts => pc[current] = "out" \/ current = h
      /\ current # h /\ join = None
      /\ current # Idle => state[current] = "run"
  <2>1. ~shutdown
    BY Zenon, <1>1, <1>2 DEF HaltInv
  <2>2. current \in Hosts \cup {Host0, Idle}
    BY Zenon, <1>1, <1>2 DEF CurrentInv, RunLabels, TypeOK
  <2>3. current \in Hosts => pc[current] = "out" \/ current = h
    BY Zenon, <1>2 DEF CurrentInv, RunLabels
  <2>4. current # Idle => state[current] = "run"
    BY Zenon DEF CurrentInv
  <2>5. current # h
    BY Zenon, <2>4 DEF HostInv, HostTask
  <2>6. join = None
    BY Zenon, <1>1, <1>2, <2>1 DEF JoinInv, HaltInv, HaltLabels, RunLabels, PcInv
  <2> QED BY Zenon, <2>1, <2>2, <2>3, <2>4, <2>5, <2>6
<1>4. /\ st \in [Tasks -> States] /\ st[task] = "run"
      /\ \A x \in Tasks \ {task, current} : st[x] = state[x]
      /\ st[Idle] = state[Idle] /\ (current # Idle => st[current] = "sleep")
      /\ tids \in [Tasks -> Threads \cup {None}] /\ tids[task] = h
      /\ \A x \in Tasks \ {task} : tids[x] = tid[x]
  BY Zenon, <1>1, <1>3 DEF Park, TypeOK, States
<1>5. Switched(h, st, tids, wait) /\ TokenInv' /\ CurrentInv'
  <2>1. pc' = [pc EXCEPT ![h] = wait] /\ tid' = tids
    BY Zenon DEF SwitchTo, Goto
  <2>2. ASSUME NEW x \in Runnable(st) \ {current} PROVE Waits(x)' /\ ~dead[x]
    <3>1. CASE x = task
      <4>1. ~dead[x]
        BY Zenon, <1>1, <3>1 DEF JoinInv
      <4> QED BY <1>4, <2>1, <3>1, <4>1 DEF Waits, PcInv
    <3>2. CASE x # task
      <4>1. x \in Runnable(state) \ {current} /\ x # h
        BY <1>4, <2>2, <3>2 DEF Runnable, HostInv, HostTask
      <4>2. ~dead[x] /\ Waits(x)
        BY Zenon, <1>1, <4>1, Ready
      <4> QED BY Zenon, <1>4, <2>1, <3>2, <4>1, <4>2 DEF Waits, PcInv, Runnable
    <3> QED BY Zenon, <3>1, <3>2
  <2>3. wait \notin RunLabels \cup {"exited"} /\ tids[Idle] = Idle /\ h # Idle /\ dead' = dead
    BY Zenon, <1>1, <1>4 DEF IdleInv
  <2>4. \A x \in Runnable(st) \ {current} : Waits(x)' /\ ~dead[x]
    BY Zenon, <2>2
  <2>5. h \in Threads /\ pc[h] \in RunLabels /\ st \in [Tasks -> States]
        /\ tids \in [Tasks -> Threads \cup {None}]
    BY Zenon, <1>1, <1>4
  <2> HIDE DEF IInv, Tasks, Threads, HostTasks, exitVars
  <2> QED BY Zenon, <2>3, <2>4, <2>5, SwitchResult
<1>6. /\ state' = st /\ tid' = tids /\ pc' = [pc EXCEPT ![h] = wait]
      /\ current' \in Tasks \ {current}
  BY Zenon, <1>5 DEF Switched
<1>7. TypeOK'
  BY Zenon, <1>4, <1>5 DEF TypeOK, Switched, States
<1>8. PcInv'
  BY Zenon, <1>6 DEF PcInv, HostLabels
<1>9. HostInv'
  <2> SUFFICES ASSUME NEW g \in Hosts PROVE HostTask(g)'
    BY Zenon DEF HostInv
  <2>1. HostTask(g)
    BY Zenon DEF HostInv
  <2>2. CASE g = h /\ task = h
    <3>1. /\ pc'[g] = wait /\ state'[g] = "run" /\ tid'[g] = g /\ wait \in {"wait", "waitd"}
          /\ state[g] \in {"run", "sleep"}
      BY Zenon, <1>4, <1>6, <2>1, <2>2 DEF PcInv, HostTask
    <3> QED BY Zenon, <2>1, <3>1 DEF HostTask, Waits, HaltLabels
  <2>3. CASE g = h /\ task # h
    <3>1. /\ pc'[g] = "wait0" /\ state'[g] = "none" /\ state[g] = "none" /\ tid'[g] = tid[g]
      BY Zenon, <1>3, <1>4, <1>6, <2>1, <2>3 DEF PcInv, HostTask
    <3> QED BY Zenon, <2>1, <3>1 DEF HostTask, HaltLabels
  <2>4. CASE g # h /\ g = current
    <3>1. /\ pc'[g] = "out" /\ pc[g] = "out" /\ state'[g] = "sleep" /\ state[g] = "run"
          /\ tid'[g] = tid[g]
      BY Zenon, <1>3, <1>4, <1>6, <2>4 DEF PcInv
    <3> QED BY Zenon, <2>1, <3>1 DEF HostTask, HaltLabels
  <2>5. CASE g # h /\ g # current
    <3>1. pc'[g] = pc[g] /\ state'[g] = state[g] /\ tid'[g] = tid[g]
      BY <1>4, <1>6, <2>5
    <3> QED BY Zenon, <1>2, <2>1, <2>5, <3>1, HostKept
  <2> QED BY Zenon, <2>2, <2>3, <2>4, <2>5
<1>10. Host0Inv'
  <2>1. CASE task = Host0
    <3>1. tid'[Host0] = h /\ state'[Host0] = "run" /\ pc'[h] = "wait0"
      BY Zenon, <1>4, <1>6, <2>1 DEF PcInv
    <3>2. \A g \in Hosts : pc'[g] = "wait0" => g = h
      BY Zenon, <1>6, <2>1 DEF OneNewcomer, Newcomer, PcInv
    <3>3. current' = Host0 => Up(Host0)'
      BY Zenon, <1>5 DEF Switched
    <3> QED BY Zenon, <3>1, <3>2, <3>3 DEF Host0Inv, Waits
  <2>2. CASE task = h
    <3>1. /\ tid'[Host0] = tid[Host0] /\ pc'[h] \in {"wait", "waitd"}
          /\ \A g \in Hosts \ {h} : pc'[g] = pc[g]
      BY <1>4, <1>6, <2>2 DEF PcInv
    <3>2. current' = Host0 => Up(Host0)' /\ state'[Host0] = "run"
      BY Zenon, <1>5 DEF Switched
    <3>3. CASE current = Host0
      <4>1. \A g \in Hosts : pc'[g] # "wait0"
        BY Zenon, <1>2, <3>1, <3>3 DEF Host0Inv
      <4>2. state'[Host0] = "sleep"
        BY Zenon, <1>4, <1>6, <3>3
      <4> QED BY Zenon, <3>1, <4>1, <4>2 DEF Host0Inv
    <3>4. CASE current # Host0
      <4>1. state'[Host0] = state[Host0]
        BY Zenon, <1>4, <1>6, <2>2, <3>4
      <4>2. state[Host0] = "run" => Waits(Host0)'
        BY <1>6, <2>2, <3>1, <3>4 DEF Host0Inv, Waits, PcInv
      <4> QED BY Zenon, <1>2, <3>1, <3>2, <4>1, <4>2 DEF Host0Inv
    <3> QED BY Zenon, <3>3, <3>4
  <2> QED BY Zenon, <2>1, <2>2
<1>11. KThreadInv'
  <2>1. \A k \in KThreads : state'[k] = state[k] /\ tid'[k] = tid[k] /\ pc'[k] = pc[k]
    BY <1>1, <1>3, <1>4, <1>6 DEF PcInv
  <2> QED BY <2>1 DEF KThreadInv
<1>12. IdleInv'
  <2>1. pc'[Idle] = pc[Idle] /\ state'[Idle] = state[Idle] /\ tid'[Idle] = tid[Idle]
    BY Zenon, <1>1, <1>4, <1>6 DEF PcInv
  <2> QED BY Zenon, <2>1 DEF IdleInv
<1>13. JoinInv'
  <2>1. ASSUME NEW x \in Tasks, dead[x] PROVE state'[x] = state[x]
    <3>1. x # task /\ x # current
      BY Zenon, <1>1, <2>1 DEF JoinInv
    <3> QED BY Zenon, <1>4, <1>6, <3>1
  <2>2. Handover(h, wait)
    BY Zenon, <1>5, SwitchedHandsOver
  <2>3. wait \notin {"join", "killing"} /\ pc[h] \in RunLabels \ {"join"}
    BY Zenon, <1>1
  <2> QED BY Zenon, <2>1, <2>2, <2>3, JoinKept
<1>14. HaltInv'
  <2>1. ~shutdown' /\ \A g \in Hosts : pc'[g] \notin HaltLabels
    BY Zenon, <1>1, <1>3, <1>6 DEF HaltInv, PcInv
  <2>2. pc'[Idle] # "exited"
    BY Zenon, <1>2, <1>6 DEF PcInv
  <2> QED BY Zenon, <2>1, <2>2 DEF HaltInv, HaltLabels
<1>15. ~mismatch'
  BY Zenon, <1>1, <1>2, <1>3, <1>4, <1>5, <1>6 DEF FinishTaskSwitch, Switched
<1> QED BY Zenon, <1>7, <1>8, <1>5, <1>9, <1>10, <1>11, <1>12, <1>13, <1>14, <1>15

\* switch_to_host_task, to any of the tasks that a host thread switches to.
LEMMA EnterTaskStep ==
  ASSUME IInv, OneNewcomer, NEW h \in Threads, EnterTask(h)
  PROVE  IInv'
<1>1. h \in Hosts
  BY Zenon DEF EnterTask
<1>2. CASE SwitchToHostTask(h, Host0, "new", "wait0", "create")
  <2>1. /\ pc[h] = "new" /\ Host0 \in Tasks
        /\ HostSwitch(h, Host0, "new", "wait0", "create")
        /\ UNCHANGED <<exitVars, idle_pending, mismatch, tls, work>>
    BY Zenon, <1>1, <1>2 DEF SwitchToHostTask, HostSwitch, Tasks
  <2>2. CASE current = Host0 /\ Goto(h, "create") /\ UNCHANGED <<switchVars, tid>>
    BY Zenon, <1>1, <2>1, <2>2, EnterCurrentStep
  <2>3. CASE /\ current # Host0
             /\ SwitchTo(h, [Park EXCEPT ![Host0] = "run"], [tid EXCEPT ![Host0] = h], "wait0")
    BY Zenon, <1>1, <2>1, <2>3, EnterOtherStep
  <2> QED BY Zenon, <1>2, <2>2, <2>3 DEF SwitchToHostTask, Tid
<1>3. CASE SwitchToHostTask(h, h, "enter", "wait", "kernel")
  <2>1. /\ pc[h] = "enter" /\ h \in Tasks
        /\ HostSwitch(h, h, "enter", "wait", "kernel")
        /\ UNCHANGED <<exitVars, idle_pending, mismatch, tls, work>>
    BY Zenon, <1>1, <1>3 DEF SwitchToHostTask, HostSwitch, Tasks
  <2>2. CASE current = h /\ Goto(h, "kernel") /\ UNCHANGED <<switchVars, tid>>
    BY Zenon, <1>1, <2>1, <2>2, EnterCurrentStep
  <2>3. CASE /\ current # h
             /\ SwitchTo(h, [Park EXCEPT ![h] = "run"], [tid EXCEPT ![h] = h], "wait")
    BY Zenon, <1>1, <2>1, <2>3, EnterOtherStep
  <2> QED BY Zenon, <1>3, <2>2, <2>3 DEF SwitchToHostTask, Tid
<1>4. CASE SwitchToHostTask(h, h, "delete", "waitd", "exit")
  <2>1. /\ pc[h] = "delete" /\ h \in Tasks
        /\ HostSwitch(h, h, "delete", "waitd", "exit")
        /\ UNCHANGED <<exitVars, idle_pending, mismatch, tls, work>>
    BY Zenon, <1>1, <1>4 DEF SwitchToHostTask, HostSwitch, Tasks
  <2>2. CASE current = h /\ Goto(h, "exit") /\ UNCHANGED <<switchVars, tid>>
    BY Zenon, <1>1, <2>1, <2>2, EnterCurrentStep
  <2>3. CASE /\ current # h
             /\ SwitchTo(h, [Park EXCEPT ![h] = "run"], [tid EXCEPT ![h] = h], "waitd")
    BY Zenon, <1>1, <2>1, <2>3, EnterOtherStep
  <2> QED BY Zenon, <1>4, <2>2, <2>3 DEF SwitchToHostTask, Tid
<1> QED BY Zenon, <1>2, <1>3, <1>4 DEF EnterTask

(***************************************************************************)
(* The invariant is inductive.                                             *)
(***************************************************************************)
\* lkl_start_kernel leaves a state in which the invariant holds.
LEMMA InitInv == Init => IInv
<1> SUFFICES ASSUME Init PROVE IInv
  BY Zenon
<1> USE ThreadsAssumption DEF Tasks, Threads, HostTasks
<1>1. /\ owner = Main /\ current = Host0 /\ tail = None /\ idle_sem = 0
      /\ join = None /\ tls = {} /\ ~shutdown /\ ~mismatch /\ work = 0
      /\ sem = [x \in Tasks |-> 0] /\ dead = [x \in Tasks |-> FALSE]
      /\ pc[Main] = "put" /\ DOMAIN pc = Threads
      /\ \A h \in Hosts \ {Main} : pc[h] = "out"
      /\ \A k \in KThreads \ {Kthreadd} : pc[k] = "none"
      /\ pc[Kthreadd] = "switched" /\ pc[Timer] = "out"
      /\ pc[Idle] = IF idle_pending THEN "pending" ELSE "switched"
  <2>1. /\ owner = Main /\ current = Host0 /\ tail = None /\ idle_sem = 0
        /\ join = None /\ tls = {} /\ ~shutdown /\ ~mismatch /\ work = 0
        /\ sem = [x \in Tasks |-> 0] /\ dead = [x \in Tasks |-> FALSE]
    BY Zenon DEF Init
  <2>2. /\ pc[Main] = "put" /\ DOMAIN pc = Threads
        /\ \A h \in Hosts \ {Main} : pc[h] = "out"
        /\ \A k \in KThreads \ {Kthreadd} : pc[k] = "none"
    BY Zenon DEF Init
  <2>3. pc[Kthreadd] = "switched" /\ pc[Timer] = "out"
    BY Zenon DEF Init
  <2>4. pc[Idle] = IF idle_pending THEN "pending" ELSE "switched"
    BY Zenon DEF Init
  <2> QED BY Zenon, <2>1, <2>2, <2>3, <2>4
<1>2. /\ state[Host0] = "run" /\ state[Idle] = "run" /\ state[Kthreadd] = "sleep"
      /\ \A x \in Tasks \ {Host0, Idle, Kthreadd} : state[x] = "none" /\ tid[x] = None
      /\ tid[Host0] = Main /\ tid[Idle] = Idle /\ tid[Kthreadd] = Kthreadd
      /\ \A x \in Tasks : ~Up(x)
  BY <1>1 DEF Init, Up
<1>3. TypeOK
  <2>1. idle_pending \in BOOLEAN /\ mismatch \in BOOLEAN /\ shutdown \in BOOLEAN
    BY Zenon DEF Init
  <2>2. dead \in [Tasks -> BOOLEAN]
    BY <1>1, Zenon
  <2>3. /\ state \in [Tasks -> {"none", "run", "sleep", "dead", "freed"}]
        /\ tid \in [Tasks -> Threads \cup {None}]
    BY Zenon DEF Init
  <2>4. /\ prev_sched \in [Tasks -> Tasks \cup {None}] /\ abs_prev \in Tasks
        /\ sem \in [Tasks -> 0..1]
    BY DEF Init
  <2> QED BY <1>1, <2>1, <2>2, <2>3, <2>4 DEF TypeOK
<1>4. PcInv
  BY Zenon, <1>1 DEF PcInv, HostLabels, RunLabels
<1> USE <1>1, <1>2
<1>5. TokenInv
  BY DEF TokenInv, RunLabels
<1>6. CurrentInv
  BY Zenon DEF CurrentInv
<1>7. HostInv
  BY DEF HostInv, HostTask, HaltLabels
<1>8. Host0Inv
  BY Zenon DEF Host0Inv
<1>9. KThreadInv
  BY Zenon DEF KThreadInv
<1>10. IdleInv
  BY Zenon DEF IdleInv
<1>11. JoinInv
  BY Zenon DEF JoinInv
<1>12. HaltInv
  BY Zenon DEF HaltInv, HaltLabels
<1> QED BY Zenon, <1>3, <1>4, <1>5, <1>6, <1>7, <1>8, <1>9, <1>10, <1>11, <1>12 DEF IInv

\* Every step preserves it, while no two threads borrow host0.
LEMMA NextInv == IInv /\ OneNewcomer /\ [Next]_vars => IInv'
<1> SUFFICES ASSUME IInv, OneNewcomer, [Next]_vars PROVE IInv'
  BY Zenon
<1>1. ASSUME NEW t \in Threads, Step(t) PROVE IInv'
  <2>1. CASE SwitchedBack(t)
    BY Zenon, <2>1, SwitchedBackStep
  <2>2. CASE Get(t)
    BY Zenon, <2>2, GetStep
  <2>3. CASE EnterTask(t)
    BY Zenon, <2>3, EnterTaskStep
  <2>4. CASE TaskEntered(t)
    BY Zenon, <2>4, TaskEnteredStep
  <2>5. CASE NewHostTask(t)
    BY Zenon, <2>5, NewHostTaskStep
  <2>6. CASE DelHostTask(t)
    BY Zenon, <2>6, DelHostTaskStep
  <2>7. CASE Put(t)
    BY Zenon, <2>7, PutStep
  <2>8. CASE PutResched(t)
    BY Zenon, <2>8, PutReschedStep
  <2>9. CASE Block(t)
    BY Zenon, <2>9, BlockStep
  <2>10. CASE Yield(t)
    BY Zenon, <2>10, YieldStep
  <2>11. CASE ThreadBootstrap(t)
    BY Zenon, <2>11, ThreadBootstrapStep
  <2>12. CASE DoExit(t)
    BY Zenon, <2>12, DoExitStep
  <2>13. CASE FreeThreadStack(t)
    BY Zenon, <2>13, FreeThreadStackStep
  <2>14. CASE Joined(t)
    BY Zenon, <2>14, JoinedStep
  <2>15. CASE Reboot(t)
    BY Zenon, <2>15, RebootStep
  <2>16. CASE ShutdownSeen(t)
    BY Zenon, <2>16, ShutdownSeenStep
  <2>17. CASE ThreadsCleanup(t)
    BY Zenon, <2>17, ThreadsCleanupStep
  <2>18. CASE \E x \in Hosts \cup KThreads : WakeUp(t, x)
    BY Zenon, <2>18, WakeUpStep
  <2> QED BY Zenon, <1>1, <2>1, <2>2, <2>3, <2>4, <2>5, <2>6, <2>7, <2>8, <2>9, <2>10, <2>11,
             <2>12, <2>13, <2>14, <2>15, <2>16, <2>17, <2>18 DEF Step
<1>2. CASE \E k \in KThreads : KernelThread(k)
  BY Zenon, <1>2, KernelThreadStep
<1>3. CASE TriggerIrq
  BY Zenon, <1>3, TriggerIrqStep
<1>4. CASE IdleSchedule
  BY Zenon, <1>4, IdleScheduleStep
<1>5. CASE ArchCpuIdle
  BY Zenon, <1>5, ArchCpuIdleStep
<1>6. CASE ArchCpuIdleIrq
  BY Zenon, <1>6, ArchCpuIdleIrqStep
<1>7. CASE IdleWoken
  BY Zenon, <1>7, IdleWokenStep
<1>8. CASE IdleShutdown
  BY Zenon, <1>8, IdleShutdownStep
<1>9. CASE UNCHANGED vars
  <2> USE <1>9 DEF vars, switchVars, exitVars, IInv
  <2>1. TypeOK' /\ ~mismatch'
    BY Zenon DEF TypeOK
  <2>2. PcInv' /\ KThreadInv' /\ IdleInv' /\ JoinInv'
    BY DEF PcInv, KThreadInv, IdleInv, JoinInv
  <2>3. TokenInv'
    BY Zenon DEF TokenInv, Up, Waits
  <2>4. CurrentInv'
    BY Zenon DEF CurrentInv, Up
  <2>5. HostInv'
    BY DEF HostInv, HostTask, Waits
  <2>6. Host0Inv'
    BY Zenon DEF Host0Inv, Up, Waits
  <2>7. HaltInv'
    BY Zenon DEF HaltInv, Runnable
  <2> QED BY Zenon, <2>1, <2>2, <2>3, <2>4, <2>5, <2>6, <2>7
<1> QED BY Zenon, <1>1, <1>2, <1>3, <1>4, <1>5, <1>6, <1>7, <1>8, <1>9 DEF Next

(***************************************************************************)
(* Two threads that make system calls, as in node-lkl: the main thread and *)
(* the worker.  They never borrow host0 at once.                           *)
(***************************************************************************)
TwoHosts == \A a, b, c \in Hosts : a = b \/ a = c \/ b = c

\* lkl_cpu_put leaves the idle task current only when nothing is runnable.
PutInv == owner = None /\ current = Idle => Runnable(state) = {}

\* While a thread waits for host0 the CPU is free only when another host task is
\* current; its thread has its own task and does not need host0.
LEMMA BorrowAlone ==
  ASSUME IInv, PutInv, NEW h \in Hosts, Newcomer(h), owner = None
  PROVE  current \in Hosts \ {h} /\ current \in tls
<1> USE ThreadsAssumption DEF IInv, Tasks, Threads, HostTasks
<1>1. pc[h] = "wait0"
  BY Zenon DEF Newcomer, TokenInv, RunLabels
<1>2. state[Host0] = "run" /\ (current = Host0 => Up(Host0)) /\ tid[Host0] = h
  BY Zenon, <1>1 DEF Host0Inv
<1>3. current # Host0
  BY Zenon, <1>2 DEF TokenInv
<1>4. current # Idle
  BY Zenon, <1>2 DEF PutInv, Runnable
<1>5. current \notin KThreads
  BY DEF CurrentInv, TokenInv, RunLabels, Waits
<1>6. current \in Hosts /\ state[current] = "run"
  BY Zenon, <1>3, <1>4, <1>5 DEF TypeOK, CurrentInv
<1> QED BY Zenon, <1>1, <1>6 DEF HostInv, HostTask

\* A step of the put: PutInv is preserved.
LEMMA PutInvStep ==
  ASSUME IInv, IInv', PutInv, [Next]_vars
  PROVE  PutInv'
<1> USE ThreadsAssumption DEF Tasks, Threads, HostTasks, switchVars, exitVars
<1> SUFFICES ASSUME owner' = None, current' = Idle PROVE Runnable(state)' = {}
  BY Zenon DEF PutInv
<1>1. \A t \in Threads : \A st, tids, label : ~SwitchTo(t, st, tids, label)
  <2> SUFFICES ASSUME NEW t \in Threads, NEW st, NEW tids, NEW label,
                      SwitchTo(t, st, tids, label)
               PROVE  FALSE
    BY Zenon
  <2>1. owner' = tid'[current']
    BY Zenon DEF SwitchTo
  <2> QED BY Zenon, <2>1 DEF IInv, IdleInv
<1>2. ASSUME UNCHANGED <<owner, current, state>> PROVE Runnable(state)' = {}
  BY Zenon, <1>2 DEF PutInv, Runnable
<1>3. \A t \in Threads : pc[t] \in RunLabels => owner # None
  BY Zenon DEF IInv, TokenInv
<1>4. pc[Idle] = "exited" => owner # None
  BY Zenon DEF IInv, TokenInv
<1>5. ASSUME NEW t \in Threads, Step(t) PROVE Runnable(state)' = {}
  <2>1. CASE SwitchedBack(t)
    BY Zenon, <1>2, <2>1 DEF SwitchedBack
  <2>2. CASE Get(t)
    BY Zenon, <2>2 DEF Get
  <2>3. CASE EnterTask(t)
    BY Zenon, <1>1, <1>2, <2>3 DEF EnterTask, SwitchToHostTask
  <2>4. CASE TaskEntered(t)
    BY Zenon, <1>2, <2>4 DEF TaskEntered, SwitchedToHostTask
  <2>5. CASE NewHostTask(t)
    BY Zenon, <1>3, <2>5 DEF NewHostTask, RunLabels
  <2>6. CASE DelHostTask(t)
    BY Zenon, <1>1, <2>6 DEF DelHostTask, Switch
  <2>7. CASE Put(t)
    BY Zenon, <2>7 DEF Put, Runnable
  <2>8. CASE PutResched(t)
    BY Zenon, <1>1, <2>8 DEF PutResched, Switch
  <2>9. CASE Block(t) \/ Yield(t) \/ DoExit(t) \/ Reboot(t)
    BY Zenon, <1>1, <2>9 DEF Block, Yield, DoExit, Reboot, Switch
  <2>10. CASE ThreadBootstrap(t)
    BY Zenon, <1>2, <2>10 DEF ThreadBootstrap
  <2>11. CASE FreeThreadStack(t)
    BY Zenon, <1>3, <2>11 DEF FreeThreadStack, InKernel, RunLabels
  <2>12. CASE Joined(t)
    <3>1. owner # None
      BY Zenon, <1>3, <1>4, <2>12 DEF Joined, RunLabels, IInv, HaltInv, PcInv
    <3> QED BY Zenon, <2>12, <3>1 DEF Joined
  <2>13. CASE ShutdownSeen(t)
    BY Zenon, <1>2, <2>13 DEF ShutdownSeen
  <2>14. CASE ThreadsCleanup(t)
    <3>1. owner # None
      BY Zenon, <1>4, <2>14 DEF ThreadsCleanup, IInv, HaltInv
    <3> QED BY Zenon, <2>14, <3>1 DEF ThreadsCleanup
  <2>15. CASE \E x \in Hosts \cup KThreads : WakeUp(t, x)
    BY Zenon, <1>3, <2>15 DEF WakeUp, InKernel, RunLabels
  <2> QED BY Zenon, <1>5, <2>1, <2>2, <2>3, <2>4, <2>5, <2>6, <2>7, <2>8, <2>9, <2>10, <2>11,
             <2>12, <2>13, <2>14, <2>15 DEF Step
<1>6. CASE \E k \in KThreads : KernelThread(k)
  BY Zenon, <1>3, <1>6 DEF KernelThread, RunLabels
<1>7. CASE TriggerIrq
  BY Zenon, <1>7 DEF TriggerIrq
<1>8. CASE IdleSchedule \/ ArchCpuIdleIrq
  BY Zenon, <1>1, <1>8 DEF IdleSchedule, ArchCpuIdleIrq, Switch
<1>9. CASE ArchCpuIdle
  BY Zenon, <1>9 DEF ArchCpuIdle, Runnable
<1>10. CASE IdleWoken \/ IdleShutdown
  BY Zenon, <1>2, <1>10 DEF IdleWoken, IdleShutdown
<1>11. CASE UNCHANGED vars
  BY Zenon, <1>2, <1>11 DEF vars
<1> QED BY Zenon, <1>5, <1>6, <1>7, <1>8, <1>9, <1>10, <1>11 DEF Next

\* A thread comes into new_host_task by a Get, which finds the CPU free.
LEMMA OneNewcomerStep ==
  ASSUME IInv, PutInv, OneNewcomer, TwoHosts, [Next]_vars
  PROVE  OneNewcomer'
<1> USE ThreadsAssumption DEF Tasks, Threads, HostTasks, switchVars, exitVars
<1>1. ASSUME NEW g \in Hosts, Newcomer(g)', ~Newcomer(g)
      PROVE  owner = None /\ g \notin tls /\ \A h \in Hosts \ {g} : pc'[h] = pc[h]
  <2> USE <1>1 DEF Newcomer, IInv, PcInv, Goto
  <2>1. ASSUME NEW t \in Threads, Step(t)
        PROVE  owner = None /\ g \notin tls /\ \A h \in Hosts \ {g} : pc'[h] = pc[h]
    <3>1. CASE Get(t)
      BY Zenon, <3>1 DEF Get
    <3>2. CASE SwitchedBack(t) \/ ThreadBootstrap(t) \/ ShutdownSeen(t)
      BY <3>2 DEF SwitchedBack, ThreadBootstrap, ShutdownSeen
    <3>3. CASE EnterTask(t) \/ TaskEntered(t)
      <4>1. CASE EnterTask(t)
        BY Zenon, <4>1 DEF EnterTask, SwitchToHostTask, SwitchTo
      <4>2. CASE TaskEntered(t)
        BY Zenon, <4>2 DEF TaskEntered, SwitchedToHostTask
      <4> QED BY Zenon, <3>3, <4>1, <4>2
    <3>4. CASE NewHostTask(t) \/ Put(t)
      BY Zenon, <3>4 DEF NewHostTask, Put
    <3>5. CASE DelHostTask(t) \/ PutResched(t) \/ Reboot(t)
      <4>1. CASE DelHostTask(t)
        BY Zenon, <4>1 DEF DelHostTask, Switch, SwitchTo
      <4>2. CASE PutResched(t)
        BY Zenon, <4>2 DEF PutResched, Switch, SwitchTo
      <4>3. CASE Reboot(t)
        BY Zenon, <4>3 DEF Reboot, Switch, SwitchTo
      <4> QED BY Zenon, <3>5, <4>1, <4>2, <4>3
    <3>6. CASE Block(t) \/ Yield(t) \/ DoExit(t)
      BY Zenon, <3>6 DEF Block, Yield, DoExit, Switch, SwitchTo
    <3>7. CASE FreeThreadStack(t) \/ ThreadsCleanup(t)
      BY <3>7 DEF FreeThreadStack, ThreadsCleanup, KillThread
    <3>8. CASE Joined(t)
      BY Zenon, <3>8 DEF Joined
    <3>9. CASE \E x \in Hosts \cup KThreads : WakeUp(t, x)
      BY Zenon, <3>9 DEF WakeUp
    <3> QED BY Zenon, <2>1, <3>1, <3>2, <3>3, <3>4, <3>5, <3>6, <3>7, <3>8, <3>9 DEF Step
  <2>2. CASE \E k \in KThreads : KernelThread(k)
    BY Zenon, <2>2 DEF KernelThread
  <2>3. CASE TriggerIrq \/ ArchCpuIdle \/ IdleWoken \/ IdleShutdown
    BY Zenon, <2>3 DEF TriggerIrq, ArchCpuIdle, IdleWoken, IdleShutdown
  <2>4. CASE IdleSchedule \/ ArchCpuIdleIrq
    BY Zenon, <2>4 DEF IdleSchedule, ArchCpuIdleIrq, Switch, SwitchTo
  <2>5. CASE UNCHANGED vars
    BY Zenon, <2>5 DEF vars
  <2> QED BY Zenon, <2>1, <2>2, <2>3, <2>4, <2>5 DEF Next
<1>2. ASSUME NEW g \in Hosts, NEW h \in Hosts, Newcomer(g)', Newcomer(h)', g # h,
             ~Newcomer(g)
      PROVE  FALSE
  <2>1. owner = None /\ g \notin tls /\ Newcomer(h)
    BY Zenon, <1>1, <1>2 DEF Newcomer
  <2>2. current \in Hosts \ {h} /\ current \in tls
    BY Zenon, <2>1, BorrowAlone
  <2> QED BY Zenon, <1>2, <2>1, <2>2 DEF TwoHosts
<1> QED BY Zenon, <1>2 DEF OneNewcomer

(***************************************************************************)
(* The properties.                                                         *)
(***************************************************************************)
\* For any number of threads: the invariant holds as long as no two threads are
\* in new_host_task at once.
THEOREM Inductive == Spec /\ []OneNewcomer => []IInv
<1> QED BY InitInv, NextInv, PTL DEF Spec

\* Two threads that make system calls never are.
THEOREM NewcomerAlone == TwoHosts => (Spec => []OneNewcomer)
<1> SUFFICES ASSUME TwoHosts PROVE Spec => []OneNewcomer
  BY Zenon
<1>1. Init => IInv /\ PutInv /\ OneNewcomer
  <2>1. ASSUME Init PROVE PutInv
    BY Zenon, <2>1, ThreadsAssumption DEF Init, PutInv, Threads
  <2>2. ASSUME Init PROVE OneNewcomer
    BY Zenon, <2>2, ThreadsAssumption DEF Init, OneNewcomer, Newcomer, Threads, Tasks, HostTasks
  <2> QED BY Zenon, <2>1, <2>2, InitInv
<1>2. IInv /\ PutInv /\ OneNewcomer /\ [Next]_vars => (IInv /\ PutInv /\ OneNewcomer)'
  BY Zenon, NextInv, PutInvStep, OneNewcomerStep
<1> QED BY <1>1, <1>2, PTL DEF Spec

\* The empty set counts 0 and a one-element set 1, from the definition of
\* Cardinality: all that the count of tokens below needs.
LEMMA SmallSets == Cardinality({}) = 0 /\ \A x : Cardinality({x}) = 1
<1> DEFINE Sub(S) == SUBSET S
           Rest(T) == T \ {CHOOSE x : x \in T}
           Is(S, c) == c = [T \in Sub(S) |-> IF T = {} THEN 0 ELSE 1 + c[Rest(T)]]
<1>1. ASSUME NEW S, NEW c, Is(S, c), \A d : Is(S, d) => d[S] = c[S] PROVE Cardinality(S) = c[S]
  <2>1. Is(S, CHOOSE d : Is(S, d))
    BY Zenon, <1>1
  <2>2. Cardinality(S) = (CHOOSE d : Is(S, d))[S]
    BY Zenon DEF Cardinality
  <2> QED BY Zenon, <1>1, <2>1, <2>2
<1>2. Cardinality({}) = 0
  <2> DEFINE c == [T \in Sub({}) |-> 0]
  <2>1. \A T \in Sub({}) : T = {}
    BY Zenon
  <2>2. Is({}, c) /\ c[{}] = 0
    BY <2>1
  <2>3. \A d : Is({}, d) => d[{}] = c[{}]
    BY <2>1, <2>2
  <2> HIDE DEF Is, c
  <2> QED BY Zenon, <1>1, <2>2, <2>3
<1>3. ASSUME NEW x PROVE Cardinality({x}) = 1
  <2> DEFINE c == [T \in Sub({x}) |-> IF T = {} THEN 0 ELSE 1]
  <2>1. \A T \in Sub({x}) : T = {} \/ T = {x}
    BY Zenon
  <2>2. Rest({x}) = {} /\ {} \in Sub({x}) /\ {x} \in Sub({x}) /\ {x} # {}
    BY Zenon
  <2>3. c[{}] = 0 /\ c[{x}] = 1
    BY Zenon, <2>2
  <2>4. \A T \in Sub({x}) : c[T] = IF T = {} THEN 0 ELSE 1 + c[Rest(T)]
    <3>1. 1 = 1 + 0
      OBVIOUS
    <3> HIDE DEF c, Rest
    <3> QED BY Zenon, <2>1, <2>2, <2>3, <3>1
  <2>5. Is({x}, c)
    BY Zenon, <2>4
  <2>6. ASSUME NEW d, Is({x}, d) PROVE d[{x}] = c[{x}]
    <3>1. \A T \in Sub({x}) : d[T] = IF T = {} THEN 0 ELSE 1 + d[Rest(T)]
      BY Zenon, <2>6
    <3>2. d[{}] = 0 /\ d[{x}] = 1 + d[{}]
      <4> HIDE DEF Rest, Sub
      <4> QED BY Zenon, <2>2, <3>1
    <3> HIDE DEF c
    <3> QED BY <2>3, <3>2
  <2> HIDE DEF Is, c
  <2> QED BY Zenon, <1>1, <2>3, <2>5, <2>6
<1> QED BY Zenon, <1>2, <1>3

\* The tasks whose semaphore lets a thread in.
UpTasks == {x \in Tasks : sem[x] > 0 /\ ~dead[x]}

\* The invariant counts one token while the CPU has an owner.
LEMMA OneToken ==
  ASSUME IInv, pc[Idle] # "exited"
  PROVE  Cardinality(Running) + idle_sem + Cardinality(UpTasks)
           = (IF owner = None THEN 0 ELSE 1)
<1> USE ThreadsAssumption DEF IInv, Tasks, Threads, HostTasks
<1>1. Running = {t \in Threads : pc[t] \in RunLabels}
  BY Zenon DEF Running, RunLabels
<1>2. UpTasks = {x \in Tasks : Up(x)}
  BY Zenon DEF UpTasks, Up
<1>3. CASE owner = None
  <2>1. Running = {} /\ UpTasks = {} /\ idle_sem = 0
    <3>1. Running = {}
      BY Zenon, <1>1, <1>3 DEF TokenInv
    <3>2. UpTasks = {}
      BY Zenon, <1>2, <1>3 DEF TokenInv, Waits, IdleInv
    <3>3. idle_sem = 0
      BY <1>3 DEF TokenInv, TypeOK
    <3> QED BY Zenon, <3>1, <3>2, <3>3
  <2> QED BY <1>3, <2>1, SmallSets
<1>4. CASE owner # None /\ pc[owner] \in RunLabels
  <2>1. owner \in Threads
    BY Zenon, <1>4 DEF TypeOK
  <2>2. Running = {owner} /\ UpTasks = {} /\ idle_sem = 0
    BY Zenon, <1>1, <1>2, <1>4, <2>1, Alone
  <2>3. Cardinality({owner}) = 1 /\ Cardinality({}) = 0
    BY Zenon, SmallSets
  <2> QED BY <1>4, <2>2, <2>3
<1>5. CASE owner # None /\ pc[owner] \notin RunLabels /\ Up(current)
  <2>1. Running = {}
    BY Zenon, <1>1, <1>5 DEF TokenInv
  <2>2. UpTasks = {current}
    BY <1>2, <1>5 DEF TokenInv, TypeOK
  <2>3. idle_sem = 0
    BY <1>5 DEF TokenInv, TypeOK, Waits
  <2>4. Cardinality({current}) = 1 /\ Cardinality({}) = 0
    BY Zenon, SmallSets
  <2> QED BY <1>5, <2>1, <2>2, <2>3, <2>4
<1>6. CASE owner # None /\ pc[owner] \notin RunLabels /\ ~Up(current)
  <2>1. Running = {}
    BY Zenon, <1>1, <1>6 DEF TokenInv
  <2>2. UpTasks = {}
    BY Zenon, <1>2, <1>6 DEF TokenInv
  <2>3. idle_sem = 1
    BY <1>6 DEF TokenInv, TypeOK
  <2> QED BY <1>6, <2>1, <2>2, <2>3, SmallSets
<1> QED BY Zenon, <1>3, <1>4, <1>5, <1>6

\* What the invariant says of the three properties.
LEMMA IInvImplies == IInv => OneThreadRuns /\ SwitchFinished /\ NoFreedSemaphore
<1> SUFFICES ASSUME IInv PROVE OneThreadRuns /\ SwitchFinished /\ NoFreedSemaphore
  BY Zenon
<1> USE ThreadsAssumption DEF IInv, Tasks, Threads, HostTasks
<1>1. Running = {t \in Threads : pc[t] \in RunLabels}
  BY Zenon DEF Running, RunLabels
<1>2. OneThreadRuns
  <2>1. \A t \in Running : owner = t
    BY Zenon, <1>1 DEF TokenInv
  <2>2. \A t \in Running : pc[t] \in {"kernel", "create", "exit"} => current = RunsAs(t)
    BY Zenon, <1>1 DEF CurrentInv, RunsAs, PcInv
  <2>3. \A t \in Running \ {Idle} : current = Idle => idle_pending /\ pc[Idle] = "pending"
    <3> SUFFICES ASSUME NEW t \in Running \ {Idle}, current = Idle
                 PROVE  idle_pending /\ pc[Idle] = "pending"
      BY Zenon
    <3>1. pc[Idle] \notin RunLabels /\ pc[Idle] # "exited" /\ ~Up(Idle)
      BY Zenon, <1>1, Alone
    <3> QED BY Zenon, <3>1 DEF PcInv, CurrentInv, IdleInv, RunLabels
  <2>4. pc[Idle] # "exited" =>
          Cardinality(Running) + idle_sem
            + Cardinality({x \in Tasks : sem[x] > 0 /\ ~dead[x]}) = (IF owner = None THEN 0 ELSE 1)
    BY Zenon, OneToken DEF UpTasks
  <2> QED BY Zenon, <2>1, <2>2, <2>3, <2>4 DEF OneThreadRuns
<1>3. SwitchFinished
  BY Zenon, <1>1 DEF SwitchFinished, TokenInv
<1>4. NoFreedSemaphore
  <2>1. ASSUME NEW x \in Tasks, state[x] = "freed"
        PROVE  /\ sem[x] = 0
               /\ x \in KThreads \cup {Idle} => pc[x] = "exited"
               /\ x \in Hosts => pc[x] \in {"out", "gone", "cleanup", "killing", "halted"}
    <3>1. ~Up(x)
      BY Zenon, <2>1 DEF TokenInv, CurrentInv, IdleInv, Waits
    <3>2. CASE x \in KThreads
      BY <2>1, <3>1, <3>2 DEF KThreadInv, PcInv, JoinInv, Up, TypeOK
    <3>3. CASE x = Idle
      BY <2>1, <3>1, <3>3 DEF IdleInv, Up, TypeOK
    <3>4. CASE x \in Hosts
      BY <2>1, <3>1, <3>4 DEF HostInv, HostTask, PcInv, HostLabels, RunLabels,
           HaltLabels, Up, TypeOK
    <3>5. CASE x = Host0
      BY <2>1, <3>1, <3>5 DEF Host0Inv, Up, TypeOK
    <3> QED BY Zenon, <3>2, <3>3, <3>4, <3>5
  <2>2. (\E h \in Hosts : pc[h] \in {"cleanup", "killing"}) => Runnable(state) = {}
    BY Zenon DEF HaltInv
  <2> QED BY Zenon, <2>1, <2>2 DEF NoFreedSemaphore
<1> QED BY Zenon, <1>2, <1>3, <1>4

\* While no two threads are in new_host_task at once, one thread runs in the
\* kernel: lkl_cpu_put's "unbalanced put" and the BUG_ON of __switch_to never fire.
THEOREM OneThread == Spec /\ []OneNewcomer => []OneThreadRuns
<1> QED BY Inductive, IInvImplies, PTL

\* Each switch of tasks is finished once, for the task that was left.
THEOREM SwitchSafety == Spec /\ []OneNewcomer => []SwitchFinished
<1> QED BY Inductive, IInvImplies, PTL

\* kill_thread and threads_cleanup free no semaphore that a thread waits on.
THEOREM SemaphoreSafety == Spec /\ []OneNewcomer => []NoFreedSemaphore
<1> QED BY Inductive, IInvImplies, PTL

\* With two threads that make system calls, node-lkl's main thread and worker,
\* the three hold without a condition, for any number of kernel threads.
THEOREM NodeLklThreads ==
  TwoHosts => (Spec => [](OneThreadRuns /\ SwitchFinished /\ NoFreedSemaphore))
<1> QED BY NewcomerAlone, Inductive, IInvImplies, PTL
=============================================================================
