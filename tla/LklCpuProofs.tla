---------------------------- MODULE LklCpuProofs ----------------------------
(***************************************************************************)
(* Proofs about LklCpu, for any finite sets of calling and interrupting    *)
(* threads and any number of operations.  The inductive invariant IInv     *)
(* says who may own the CPU and where its owner is, how cpu.count counts   *)
(* gets, which threads shutdown_gate and cpu.sleepers count, and who will  *)
(* deliver an interrupt that is marked.                                    *)
(***************************************************************************)
EXTENDS LklCpu, FiniteSetTheorems, TLAPS

(***************************************************************************)
(* The inductive invariant.                                                *)
(***************************************************************************)
\* The owner of the CPU: how often it has got it, where it is, and that only it
\* disables interrupts.  A nested get comes from an interrupt.
OwnerInv ==
  /\ \A t \in Threads : pc[t] \in InKernel => owner = t
  /\ owner = None => count = 0 /\ enabled
  /\ owner # None => count # 0
  /\ pc[Idle] \in {"out", "in", "put", "runindex", "run", "spin", "dead"}
  /\ owner = Idle <=> pc[Idle] # "out"
  /\ owner = Idle => count = 1 /\ enabled
  /\ \A t \in Callers : owner = t =>
       /\ pc[t] \in (InKernel \ {"spin"}) \cup {"lock"}
       /\ pc[t] = "lock" => op[t] = "irq"
       /\ count = 2 => op[t] = "irq" /\ pc[t] \in {"got", "irq", "runindex", "run", "put"}
       /\ ~enabled => \/ pc[t] \in {"in", "lock", "enable"}
                      \/ count = 2 /\ pc[t] \in {"got", "irq", "put"}

\* cpu.lock is held between two steps only to mark an interrupt for the owner.
LockInv ==
  /\ \A t \in Callers : lock = t <=> pc[t] = "mark"
  /\ lock # None => owner # None

\* A marked interrupt has somebody who will deliver it.
IrqInv ==
  status # {} =>
    \/ lock # None
    \/ \E t \in Threads : owner = t /\ pc[t] \in {"run", "enable"}
    \/ index /\ (pending \/ ~enabled \/ \E t \in Threads : owner = t /\ pc[t] = "runindex")

\* The threads between the two updates of the gate, and those that sleep.
Gated == {t \in Callers : pc[t] \in {"lock", "mark", "sleep", "retry", "leave", "got"}}
Asleep == {t \in Callers : pc[t] = "sleep"}

\* A thread has shut the CPU down.
Halting == \E t \in Hosts : pc[t] \in {"halting", "halt", "done"}

\* The shutdown: who owns the CPU from then on, and what the gate counts.
HaltInv ==
  /\ gate = Cardinality(Gated) + (IF Halting THEN MAX_THREADS ELSE 0)
  /\ Halting => \/ owner = Idle /\ pc[Idle] \in {"in", "spin", "dead"}
                \/ owner \in Hosts /\ pc[owner] = "halting"
  /\ pc[Idle] \in {"spin", "dead"} => Halting
  /\ \A t \in Callers :
       pc[t] # "dead" /\ (pc[t] \in {"halting", "halt", "done"} => t \in Hosts)
  /\ freed <=> pc[Idle] = "dead"

\* cpu.sleepers and the semaphore count the threads asleep, until the shutdown
\* has woken them all.
SleepInv ==
  Cardinality(Asleep) =
    IF pc[Idle] \in {"spin", "dead"} THEN sem ELSE sleepers + sem

IInv ==
  /\ TypeOK /\ OwnerInv /\ LockInv /\ IrqInv /\ HaltInv /\ SleepInv
  /\ NoLostWakeup /\ NoUseAfterFree /\ NoIrqLost

(***************************************************************************)
(* Counting threads.                                                       *)
(***************************************************************************)
\* The gate and the sleepers count sets of callers, which are smaller than
\* MAX_THREADS and than the width of cpu.sleepers.
LEMMA Counted ==
  ASSUME NEW S \in SUBSET Callers
  PROVE  /\ IsFiniteSet(S) /\ Cardinality(S) \in Nat
         /\ Cardinality(S) < MAX_THREADS /\ Cardinality(S) < UintMod
         /\ S = {} <=> Cardinality(S) = 0
<1>1. IsFiniteSet(Callers) /\ Idle \notin Callers
  BY Zenon, ThreadsAssumption
<1>2. IsFiniteSet(S) /\ Cardinality(S) <= Cardinality(Callers)
  BY Zenon, <1>1, FS_Subset
<1>3. Cardinality(Threads) = Cardinality(Callers) + 1
  BY Zenon, <1>1, FS_AddElement DEF Threads
<1>4. Cardinality(S) \in Nat /\ Cardinality(Callers) \in Nat
  BY Zenon, <1>1, <1>2, FS_CardinalityType
<1>5. S = {} <=> Cardinality(S) = 0
  BY Zenon, <1>2, FS_EmptySet
<1> QED BY <1>2, <1>3, <1>4, <1>5, GateAssumption

\* The shutdown gate is closed exactly when a thread has shut the CPU down.
LEMMA GateClosed ==
  ASSUME TypeOK, HaltInv
  PROVE  ShutDown <=> Halting
<1>1. Gated \in SUBSET Callers
  BY Zenon DEF Gated
<1> QED BY <1>1, Counted, GateAssumption DEF HaltInv, ShutDown

\* A thread that joins or leaves a set changes the count by one.
LEMMA CountedChange ==
  ASSUME NEW S \in SUBSET Callers, NEW t \in Callers
  PROVE  /\ t \notin S => Cardinality(S \cup {t}) = Cardinality(S) + 1
         /\ t \in S => Cardinality(S \ {t}) = Cardinality(S) - 1
BY Zenon, Counted, FS_AddElement, FS_RemoveElement

(***************************************************************************)
(* One lemma per action: it preserves the invariant.                       *)
(***************************************************************************)
LEMMA InitInv == Init => IInv
<1> SUFFICES ASSUME Init PROVE IInv
  BY Zenon
<1> USE ThreadsAssumption, GateAssumption, MaxOpsAssumption DEF Init, Threads
<1>1. TypeOK
  <2>1. pc \in [Threads -> Labels] /\ op \in [Threads -> {"get", "irq"}]
    BY Zenon DEF Labels
  <2>2. ops \in [Threads -> 0 .. MaxOps]
    OBVIOUS
  <2>3. /\ gate \in 0 .. 2 * MAX_THREADS - 1 /\ sleepers \in 0 .. UintMod - 1
        /\ count \in 0 .. 2 /\ sem \in Nat
    BY Counted, {} \in SUBSET Callers
  <2> QED BY <2>1, <2>2, <2>3, Zenon DEF TypeOK
<1>2. OwnerInv /\ LockInv /\ IrqInv
  BY Zenon DEF OwnerInv, LockInv, IrqInv, InKernel, Callers
<1>3. Gated = {} /\ Asleep = {} /\ ~Halting
  BY Zenon DEF Gated, Asleep, Halting, Callers
<1>4. HaltInv /\ SleepInv
  BY <1>3, FS_EmptySet DEF HaltInv, SleepInv, Callers
<1>5. NoLostWakeup /\ NoUseAfterFree /\ NoIrqLost
  BY Zenon DEF NoLostWakeup, NoUseAfterFree, NoIrqLost, Callers
<1> QED BY Zenon, <1>1, <1>2, <1>4, <1>5 DEF IInv

\* fetch_and_add: a thread joins the gate, by the lock or, after a shutdown, on
\* its way out.
LEMMA StartStep ==
  ASSUME IInv, NEW t \in Callers, NEW what \in {"get", "irq"}, Start(t, what)
  PROVE  IInv'
<1> USE ThreadsAssumption DEF IInv, Start, Goto, Threads, cpuVars, irqVars
<1>1. pc[t] \in {"out", "in"} /\ pc' = [pc EXCEPT ![t] = pc'[t]]
  BY Zenon DEF TypeOK
<1>2. pc'[t] = IF Halting THEN "leave" ELSE "lock"
  BY Zenon, GateClosed DEF TypeOK, ShutDown
<1>3. Gated' = Gated \cup {t} /\ t \notin Gated /\ Asleep' = Asleep
  BY <1>1, <1>2 DEF TypeOK, Gated, Asleep
<1>4. Halting' = Halting
  BY Zenon, <1>1, <1>2 DEF TypeOK, Halting, Callers
<1>5. HaltInv'
  <2>1. Cardinality(Gated') = Cardinality(Gated) + 1
    BY Zenon, <1>3, CountedChange DEF Gated
  <2>2. Cardinality(Gated) \in Nat
    BY Zenon, Counted DEF Gated
  <2>3. gate' = Cardinality(Gated') + (IF Halting' THEN MAX_THREADS ELSE 0)
    BY <1>4, <2>1, <2>2, GateAssumption DEF HaltInv
  <2> QED BY Zenon, <1>1, <1>2, <1>4, <2>3 DEF HaltInv, TypeOK, Callers
<1>6. TypeOK'
  <2>1. gate' \in 0 .. 2 * MAX_THREADS - 1
    BY <1>5, Counted, GateAssumption DEF HaltInv, Gated
  <2>2. ops' \in [Threads -> 0 .. MaxOps]
    BY MaxOpsAssumption DEF TypeOK
  <2> QED BY Zenon, <1>1, <1>2, <2>1, <2>2 DEF TypeOK, Labels
<1>7. OwnerInv'
  BY <1>1, <1>2 DEF TypeOK, OwnerInv, HaltInv, InKernel, Callers
<1>8. LockInv' /\ IrqInv' /\ SleepInv'
  BY Zenon, <1>1, <1>2, <1>3 DEF TypeOK, LockInv, IrqInv, SleepInv
<1>9. NoLostWakeup' /\ NoUseAfterFree' /\ NoIrqLost'
  BY Zenon, <1>1, <1>2 DEF TypeOK, NoLostWakeup, NoUseAfterFree, NoIrqLost, HaltInv
<1> QED BY Zenon, <1>5, <1>6, <1>7, <1>8, <1>9

\* __cpu_try_get_lock under the lock: the gate is closed, or the CPU has another
\* owner and the thread sleeps or marks its interrupt, or the thread gets it.
LEMMA TryGetLockStep ==
  ASSUME IInv, NEW t \in Threads, TryGetLock(t)
  PROVE  IInv'
<1> USE ThreadsAssumption DEF IInv, Goto, Threads, cpuVars, irqVars
<1>1. t \in Callers /\ pc[t] = "lock" /\ lock = None /\ UNCHANGED <<gate, freed, op, ops>>
  BY Zenon DEF TryGetLock, OwnerInv
<1>2. pc' = [pc EXCEPT ![t] = pc'[t]] /\ pc'[t] \in {"leave", "sleep", "mark", "got"}
  BY Zenon, <1>1 DEF TryGetLock, Sleep, TypeOK
<1>3. Gated' = Gated /\ Halting' = Halting
  BY <1>1, <1>2 DEF Gated, Halting, TypeOK, Callers
<1>4. ShutDown <=> Halting
  BY Zenon, GateClosed
<1>5. ~freed
  BY Zenon, <1>1 DEF NoUseAfterFree, TypeOK
<1>6. CASE ShutDown
  <2>1. pc'[t] = "leave" /\ UNCHANGED <<lock, cpuVars, irqVars>>
    BY Zenon, <1>1, <1>6 DEF TryGetLock, TypeOK
  <2>2. owner \notin {None, t}
    BY Zenon, <1>1, <1>4, <1>6 DEF HaltInv, Callers
  <2>3. Asleep' = Asleep
    BY Zenon, <1>1, <1>2, <2>1 DEF Asleep, TypeOK
  <2>4. TypeOK'
    BY <1>1, <1>2, <2>1 DEF TypeOK, Labels
  <2>5. OwnerInv' /\ LockInv'
    BY <1>1, <1>2, <2>1, <2>2 DEF TypeOK, OwnerInv, LockInv, InKernel
  <2>6. IrqInv' /\ NoIrqLost'
    BY Zenon, <1>1, <1>2, <2>1, <2>2 DEF TypeOK, IrqInv, NoIrqLost
  <2>7. HaltInv' /\ SleepInv'
    BY Zenon, <1>1, <1>2, <1>3, <2>1, <2>3 DEF TypeOK, HaltInv, SleepInv, Callers
  <2>8. NoLostWakeup' /\ NoUseAfterFree'
    BY Zenon, <1>1, <1>2, <1>5, <2>1, <2>2 DEF NoLostWakeup, NoUseAfterFree
  <2> QED BY Zenon, <2>4, <2>5, <2>6, <2>7, <2>8
<1>7. CASE ~ShutDown /\ OwnedByAnother(t) /\ op[t] = "get"
  <2>1. /\ pc'[t] = "sleep" /\ sleepers' = sleepers + 1
        /\ UNCHANGED <<lock, owner, count, sem, irqVars>>
    BY Zenon, <1>1, <1>7 DEF TryGetLock, Sleep, TypeOK
  <2>2. owner \notin {None, t}
    BY Zenon, <1>7 DEF OwnedByAnother
  <2>3. Asleep' = Asleep \cup {t} /\ t \notin Asleep
    BY <1>1, <1>2, <2>1 DEF Asleep, TypeOK
  <2>4. pc[Idle] \notin {"spin", "dead"}
    BY Zenon, <1>4, <1>7 DEF HaltInv
  <2>5. HaltInv'
    BY Zenon, <1>1, <1>2, <1>3, <2>1 DEF TypeOK, HaltInv, Callers
  <2>6. SleepInv'
    <3>1. Cardinality(Asleep') = Cardinality(Asleep) + 1 /\ Cardinality(Asleep) \in Nat
      BY Zenon, <1>1, <2>3, Counted, CountedChange DEF Asleep
    <3> QED BY <1>1, <1>2, <2>1, <2>4, <3>1 DEF TypeOK, SleepInv
  <2>7. TypeOK'
    <3>1. sleepers' < UintMod
      BY <1>1, <1>2, <2>1, <2>4, <2>6, Counted, GateAssumption
         DEF SleepInv, Asleep, TypeOK
    <3> QED BY <1>1, <1>2, <2>1, <3>1, GateAssumption DEF TypeOK, Labels
  <2>8. OwnerInv' /\ LockInv'
    BY <1>1, <1>2, <2>1, <2>2 DEF TypeOK, OwnerInv, LockInv, InKernel
  <2>9. IrqInv' /\ NoIrqLost'
    BY Zenon, <1>1, <1>2, <2>1, <2>2 DEF TypeOK, IrqInv, NoIrqLost
  <2>10. NoLostWakeup' /\ NoUseAfterFree'
    BY Zenon, <1>1, <1>2, <1>5, <2>1, <2>2 DEF NoLostWakeup, NoUseAfterFree
  <2> QED BY Zenon, <2>5, <2>6, <2>7, <2>8, <2>9, <2>10
<1>8. CASE ~ShutDown /\ OwnedByAnother(t) /\ op[t] = "irq"
  <2>1. /\ pc'[t] = "mark" /\ lock' = t /\ status' = status \cup {t}
        /\ UNCHANGED <<cpuVars, pending, index, enabled>>
    BY <1>1, <1>8 DEF TryGetLock, SetIrqPending, TypeOK
  <2>2. owner \notin {None, t}
    BY Zenon, <1>8 DEF OwnedByAnother
  <2>3. Asleep' = Asleep
    BY Zenon, <1>1, <1>2, <2>1 DEF Asleep, TypeOK
  <2>4. TypeOK'
    BY <1>1, <1>2, <2>1 DEF TypeOK, Labels
  <2>5. OwnerInv' /\ LockInv'
    BY <1>1, <1>2, <2>1, <2>2 DEF TypeOK, OwnerInv, LockInv, InKernel
  <2>6. IrqInv' /\ NoIrqLost'
    BY Zenon, <1>1, <1>2, <2>1, <2>2 DEF TypeOK, IrqInv, NoIrqLost
  <2>7. HaltInv' /\ SleepInv'
    BY Zenon, <1>1, <1>2, <1>3, <2>1, <2>3 DEF TypeOK, HaltInv, SleepInv, Callers
  <2>8. NoLostWakeup' /\ NoUseAfterFree'
    BY Zenon, <1>1, <1>2, <1>5, <2>1, <2>2 DEF NoLostWakeup, NoUseAfterFree
  <2> QED BY Zenon, <2>4, <2>5, <2>6, <2>7, <2>8
<1>9. CASE ~ShutDown /\ ~OwnedByAnother(t)
  <2>1. /\ pc'[t] = "got" /\ owner' = t /\ count' = count + 1
        /\ UNCHANGED <<lock, sleepers, sem, irqVars>>
    BY Zenon, <1>1, <1>9 DEF TryGetLock, TypeOK
  <2>2. owner \in {None, t}
    BY Zenon, <1>9 DEF OwnedByAnother
  <2>3. Asleep' = Asleep
    BY Zenon, <1>1, <1>2, <2>1 DEF Asleep, TypeOK
  <2>4. count \in {0, 1} /\ (count = 1 => op[t] = "irq") /\ (count = 0 => enabled)
    BY <1>1, <2>2 DEF OwnerInv, TypeOK
  <2>5. TypeOK'
    <3>1. count' \in 0 .. 2 /\ owner' \in Threads
      BY <2>1, <2>4
    <3>2. pc' \in [Threads -> Labels]
      BY <1>1, <1>2, <2>1 DEF TypeOK, Labels, InKernel
    <3> QED BY Zenon, <1>1, <2>1, <3>1, <3>2 DEF TypeOK
  <2>6. OwnerInv'
    BY <1>1, <1>2, <2>1, <2>2, <2>4 DEF TypeOK, OwnerInv, InKernel
  <2>7. LockInv'
    BY Zenon, <1>1, <1>2, <2>1 DEF TypeOK, LockInv
  <2>8. IrqInv' /\ NoIrqLost'
    BY Zenon, <1>1, <1>2, <2>1, <2>2 DEF TypeOK, IrqInv, NoIrqLost, OwnerInv
  <2>9. HaltInv' /\ SleepInv'
    BY Zenon, <1>1, <1>2, <1>3, <1>4, <1>9, <2>1, <2>3 DEF TypeOK, HaltInv, SleepInv, Callers
  <2>10. NoLostWakeup' /\ NoUseAfterFree'
    BY Zenon, <1>1, <1>2, <1>5, <2>1, <2>2 DEF NoLostWakeup, NoUseAfterFree
  <2> QED BY Zenon, <2>5, <2>6, <2>7, <2>8, <2>9, <2>10
<1> QED BY Zenon, <1>6, <1>7, <1>8, <1>9 DEF TryGetLock

\* The interrupt is marked in the status, under the lock, before the index.
LEMMA MarkIrqStep ==
  ASSUME IInv, NEW t \in Threads, MarkIrq(t)
  PROVE  IInv'
<1> USE ThreadsAssumption DEF IInv, MarkIrq, SetIrqPending, Goto, Threads, cpuVars
<1>1. t \in Callers /\ pc[t] = "mark" /\ lock = t /\ owner # t /\ owner # None
  BY Zenon DEF OwnerInv, LockInv, InKernel
<1>2. pc' = [pc EXCEPT ![t] = "leave"]
  BY Zenon
<1>3. Gated' = Gated /\ Asleep' = Asleep /\ Halting' = Halting
  BY <1>1, <1>2 DEF TypeOK, Gated, Asleep, Halting, Callers
<1>4. TypeOK'
  BY <1>2 DEF TypeOK, Labels
<1>5. OwnerInv'
  BY <1>1, <1>2 DEF TypeOK, OwnerInv, InKernel
<1>6. LockInv' /\ IrqInv'
  BY <1>1, <1>2 DEF TypeOK, LockInv, IrqInv
<1>7. HaltInv' /\ SleepInv'
  BY Zenon, <1>1, <1>2, <1>3 DEF TypeOK, HaltInv, SleepInv, Callers
<1>8. NoLostWakeup' /\ NoUseAfterFree' /\ NoIrqLost'
  BY Zenon, <1>1, <1>2 DEF TypeOK, NoLostWakeup, NoUseAfterFree, NoIrqLost
<1> QED BY Zenon, <1>4, <1>5, <1>6, <1>7, <1>8

\* One sleeper less for one post consumed.
LEMMA SemDownStep ==
  ASSUME IInv, NEW t \in Threads, SemDown(t)
  PROVE  IInv'
<1> USE ThreadsAssumption DEF IInv, SemDown, Goto, Threads, irqVars
<1>1. t \in Callers /\ pc[t] = "sleep" /\ owner # t /\ ~freed
  BY Zenon DEF OwnerInv, InKernel, NoUseAfterFree, TypeOK
<1>2. pc' = [pc EXCEPT ![t] = "retry"]
  BY Zenon
<1>3. Gated' = Gated /\ Halting' = Halting
  BY <1>1, <1>2 DEF TypeOK, Gated, Halting, Callers
<1>4. Asleep' = Asleep \ {t} /\ t \in Asleep
  BY <1>1, <1>2 DEF TypeOK, Asleep
<1>5. TypeOK'
  BY <1>2 DEF TypeOK, Labels
<1>6. OwnerInv' /\ LockInv'
  BY <1>1, <1>2 DEF TypeOK, OwnerInv, LockInv, InKernel
<1>7. IrqInv' /\ NoIrqLost'
  BY Zenon, <1>1, <1>2 DEF TypeOK, IrqInv, NoIrqLost
<1>8. HaltInv'
  BY Zenon, <1>1, <1>2, <1>3 DEF TypeOK, HaltInv, Callers
<1>9. SleepInv'
  <2>1. Cardinality(Asleep') = Cardinality(Asleep) - 1
    BY Zenon, <1>1, <1>4, CountedChange DEF Asleep
  <2> QED BY <1>1, <1>2, <2>1 DEF TypeOK, SleepInv
<1>10. NoLostWakeup' /\ NoUseAfterFree'
  BY Zenon, <1>1, <1>2 DEF TypeOK, NoLostWakeup, NoUseAfterFree
<1> QED BY Zenon, <1>5, <1>6, <1>7, <1>8, <1>9, <1>10

\* A thread woken up goes back to the lock, or leaves after a shutdown.
LEMMA RetryStep ==
  ASSUME IInv, NEW t \in Threads, Retry(t)
  PROVE  IInv'
<1> USE ThreadsAssumption DEF IInv, Retry, Goto, Threads, cpuVars, irqVars
<1>1. t \in Callers /\ pc[t] = "retry" /\ owner # t /\ ~freed
  BY Zenon DEF OwnerInv, InKernel, NoUseAfterFree, TypeOK
<1>2. /\ pc' = [pc EXCEPT ![t] = pc'[t]]
      /\ pc'[t] = IF Halting THEN "leave" ELSE "lock"
  BY Zenon, GateClosed DEF TypeOK
<1>3. Gated' = Gated /\ Asleep' = Asleep /\ Halting' = Halting
  BY <1>1, <1>2 DEF TypeOK, Gated, Asleep, Halting, Callers
<1>4. TypeOK'
  BY Zenon, <1>2 DEF TypeOK, Labels
<1>5. OwnerInv' /\ LockInv'
  BY Zenon, <1>1, <1>2 DEF TypeOK, OwnerInv, LockInv, InKernel
<1>6. IrqInv' /\ NoIrqLost'
  BY Zenon, <1>1, <1>2 DEF TypeOK, IrqInv, NoIrqLost
<1>7. HaltInv' /\ SleepInv'
  BY Zenon, <1>1, <1>2, <1>3 DEF TypeOK, HaltInv, SleepInv, Callers
<1>8. Halting => owner # None
  BY Zenon DEF HaltInv, Callers
<1>9. NoLostWakeup' /\ NoUseAfterFree'
  BY Zenon, <1>1, <1>2, <1>8 DEF TypeOK, NoLostWakeup, NoUseAfterFree
<1> QED BY Zenon, <1>4, <1>5, <1>6, <1>7, <1>9

\* fetch_and_sub: a thread leaves the gate, as the owner or empty-handed.
LEMMA LeaveStep ==
  ASSUME IInv, NEW t \in Threads, Leave(t)
  PROVE  IInv'
<1> USE ThreadsAssumption DEF IInv, Leave, Goto, Threads, cpuVars, irqVars
<1>1. t \in Callers /\ pc[t] \in {"leave", "got"} /\ (owner = t <=> pc[t] = "got")
  BY Zenon DEF OwnerInv, InKernel
<1>2. /\ pc' = [pc EXCEPT ![t] = pc'[t]]
      /\ pc'[t] = IF pc[t] = "leave" THEN "out"
                  ELSE IF op[t] = "get" THEN "in" ELSE "irq"
  BY Zenon DEF TypeOK
<1>3. Gated' = Gated \ {t} /\ t \in Gated
  BY Zenon, <1>1, <1>2 DEF TypeOK, Gated
<1>4. Asleep' = Asleep /\ Halting' = Halting
  BY Zenon, <1>1, <1>2 DEF TypeOK, Asleep, Halting, Callers
<1>5. HaltInv'
  <2>1. Cardinality(Gated') = Cardinality(Gated) - 1 /\ Cardinality(Gated) \in Nat
    BY <1>1, <1>3, Counted, CountedChange DEF Gated
  <2>2. gate' = Cardinality(Gated') + (IF Halting' THEN MAX_THREADS ELSE 0)
    BY <1>4, <2>1, GateAssumption DEF HaltInv
  <2> QED BY Zenon, <1>1, <1>2, <1>4, <2>2 DEF HaltInv, TypeOK, Callers
<1>6. TypeOK'
  <2>1. gate' \in 0 .. 2 * MAX_THREADS - 1
    BY <1>5, Counted, GateAssumption DEF HaltInv, Gated
  <2> QED BY Zenon, <1>1, <1>2, <2>1 DEF TypeOK, Labels, InKernel
<1>7. OwnerInv'
  BY <1>1, <1>2 DEF TypeOK, OwnerInv, InKernel
<1>8. LockInv' /\ IrqInv' /\ SleepInv'
  BY Zenon, <1>1, <1>2, <1>4 DEF TypeOK, LockInv, IrqInv, SleepInv
<1>9. NoLostWakeup' /\ NoUseAfterFree' /\ NoIrqLost'
  BY Zenon, <1>1, <1>2 DEF TypeOK, NoLostWakeup, NoUseAfterFree, NoIrqLost
<1> QED BY Zenon, <1>5, <1>6, <1>7, <1>8, <1>9

\* A step of one thread that leaves the CPU, the gate and the sleepers alone.
OwnerStep(t) ==
  /\ pc' = [pc EXCEPT ![t] = pc'[t]]
  /\ UNCHANGED <<gate, lock, cpuVars, freed, op, ops>>

\* Such a step of the owner, in the kernel, disturbs none of the invariants about
\* the lock, the gate and the sleepers.
LEMMA OwnerStepInv ==
  ASSUME IInv, NEW t \in Threads, OwnerStep(t),
         pc[t] \in InKernel \ {"got", "spin", "halting"},
         pc'[t] \in InKernel \ {"got", "spin", "halting"},
         t = Idle => pc'[t] \in {"in", "put", "run", "runindex"}
                     /\ (Halting => pc'[t] = "in")
  PROVE  LockInv' /\ HaltInv' /\ SleepInv' /\ NoLostWakeup' /\ NoUseAfterFree'
<1> USE ThreadsAssumption DEF IInv, OwnerStep, Threads, cpuVars, InKernel
<1>1. owner = t
  BY Zenon DEF OwnerInv
<1>2. Gated' = Gated /\ Asleep' = Asleep /\ Halting' = Halting
  BY DEF TypeOK, Gated, Asleep, Halting, Callers
<1>3. LockInv'
  BY Zenon DEF TypeOK, LockInv
<1>4. HaltInv'
  BY Zenon, <1>1, <1>2 DEF TypeOK, HaltInv, Callers
<1>5. SleepInv'
  BY Zenon, <1>2 DEF TypeOK, SleepInv
<1>6. NoLostWakeup' /\ NoUseAfterFree'
  BY Zenon, <1>1 DEF TypeOK, NoLostWakeup, NoUseAfterFree
<1> QED BY Zenon, <1>3, <1>4, <1>5, <1>6

\* run_irq, or the marking of the interrupt while interrupts are disabled.
LEMMA RunIrqStep ==
  ASSUME IInv, NEW t \in Threads, RunIrq(t)
  PROVE  IInv'
<1> USE ThreadsAssumption DEF IInv, RunIrq, Goto, Threads, cpuVars, InKernel
<1>1. t \in Callers /\ owner = t /\ pc[t] = "irq"
  BY Zenon DEF OwnerInv
<1>2. OwnerStep(t) /\ pc'[t] = IF enabled THEN "runindex" ELSE "put"
  BY Zenon DEF OwnerStep, TypeOK
<1>3. LockInv' /\ HaltInv' /\ SleepInv' /\ NoLostWakeup' /\ NoUseAfterFree'
  BY Zenon, <1>1, <1>2, OwnerStepInv
<1>4. TypeOK'
  <2>1. pc' \in [Threads -> Labels]
    BY <1>1, <1>2 DEF OwnerStep, TypeOK, Labels
  <2>2. status' \subseteq Callers /\ index' \in BOOLEAN
    BY <1>1, Zenon DEF TypeOK
  <2> QED BY <2>1, <2>2, Zenon DEF TypeOK
<1>5. OwnerInv'
  BY <1>1, <1>2 DEF OwnerStep, TypeOK, OwnerInv
<1>6. IrqInv' /\ NoIrqLost'
  BY Zenon, <1>1, <1>2 DEF OwnerStep, TypeOK, IrqInv, NoIrqLost
<1> QED BY Zenon, <1>3, <1>4, <1>5, <1>6

\* arch_local_irq_disable by the owner of the CPU.
LEMMA DisableIrqsStep ==
  ASSUME IInv, NEW t \in Threads, DisableIrqs(t)
  PROVE  IInv'
<1> USE ThreadsAssumption DEF IInv, DisableIrqs, Threads, cpuVars, InKernel
<1>1. t \in Callers /\ owner = t /\ pc[t] = "in"
  BY Zenon DEF OwnerInv
<1>2. OwnerStep(t) /\ pc'[t] = "in"
  BY Zenon DEF OwnerStep, TypeOK
<1>3. LockInv' /\ HaltInv' /\ SleepInv' /\ NoLostWakeup' /\ NoUseAfterFree'
  BY Zenon, <1>1, <1>2, OwnerStepInv
<1>4. TypeOK'
  BY Zenon DEF TypeOK
<1>5. OwnerInv'
  BY Zenon, <1>1 DEF TypeOK, OwnerInv
<1>6. IrqInv' /\ NoIrqLost'
  BY Zenon, <1>1 DEF TypeOK, IrqInv, NoIrqLost
<1> QED BY Zenon, <1>3, <1>4, <1>5, <1>6

\* arch_local_irq_restore enables interrupts only after it has found no index
\* marked, or else goes on with the status.
LEMMA EnableIrqsStep ==
  ASSUME IInv, NEW t \in Threads, EnableIrqs(t)
  PROVE  IInv'
<1> USE ThreadsAssumption DEF IInv, EnableIrqs, Goto, Threads, cpuVars, InKernel
<1>1. t \in Callers /\ owner = t /\ pc[t] = "in"
  BY Zenon DEF OwnerInv
<1>2. OwnerStep(t) /\ pc'[t] = IF index THEN "enable" ELSE "in"
  BY Zenon DEF OwnerStep, TypeOK
<1>3. LockInv' /\ HaltInv' /\ SleepInv' /\ NoLostWakeup' /\ NoUseAfterFree'
  BY <1>1, <1>2, OwnerStepInv
<1>4. TypeOK'
  <2>1. pc' \in [Threads -> Labels]
    BY Zenon DEF TypeOK, Labels
  <2> QED BY <2>1, Zenon DEF TypeOK
<1>5. OwnerInv'
  BY <1>1, <1>2 DEF OwnerStep, TypeOK, OwnerInv
<1>6. IrqInv' /\ NoIrqLost'
  BY Zenon, <1>1, <1>2 DEF OwnerStep, TypeOK, IrqInv, NoIrqLost
<1> QED BY Zenon, <1>3, <1>4, <1>5, <1>6

\* The status is cleared as it is read: nothing is marked afterwards.
LEMMA CheckIrqStatusStep ==
  ASSUME IInv, NEW t \in Threads, CheckIrqStatus(t)
  PROVE  IInv'
<1> USE ThreadsAssumption DEF IInv, CheckIrqStatus, Goto, Threads, cpuVars, InKernel
<1>1. owner = t /\ pc[t] \in {"enable", "run"} /\ (t = Idle => pc[t] = "run")
  BY Zenon DEF OwnerInv
<1>2. OwnerStep(t) /\ pc'[t] \in {"in", "runindex", "put"}
      /\ (pc'[t] = "in" <=> pc[t] = "enable")
  BY Zenon, <1>1 DEF OwnerStep, TypeOK
<1>3. LockInv' /\ HaltInv' /\ SleepInv' /\ NoLostWakeup' /\ NoUseAfterFree'
  <2>1. t = Idle => ~Halting
    BY Zenon, <1>1 DEF HaltInv, Callers
  <2> QED BY Zenon, <1>1, <1>2, <2>1, OwnerStepInv
<1>4. TypeOK'
  BY <1>1, <1>2 DEF OwnerStep, TypeOK, Labels
<1>5. OwnerInv'
  BY <1>1, <1>2 DEF OwnerStep, TypeOK, OwnerInv, Callers
<1>6. IrqInv' /\ NoIrqLost'
  BY Zenon DEF IrqInv, NoIrqLost
<1> QED BY Zenon, <1>3, <1>4, <1>5, <1>6

\* The owner of the CPU begins lkl_cpu_put.
LEMMA StartPutStep ==
  ASSUME IInv, NEW t \in Threads, StartPut(t)
  PROVE  IInv'
<1> USE ThreadsAssumption DEF IInv, StartPut, Goto, Threads, cpuVars, irqVars, InKernel
<1>1. owner = t /\ pc[t] = "in"
  BY Zenon DEF OwnerInv
<1>2. OwnerStep(t) /\ pc'[t] = "put"
  BY Zenon DEF OwnerStep, TypeOK
<1>3. LockInv' /\ HaltInv' /\ SleepInv' /\ NoLostWakeup' /\ NoUseAfterFree'
  <2>1. t = Idle => ~Halting
    BY Zenon, GateClosed
  <2> QED BY Zenon, <1>1, <1>2, <2>1, OwnerStepInv
<1>4. TypeOK'
  BY <1>1, <1>2 DEF OwnerStep, TypeOK, Labels
<1>5. OwnerInv'
  BY <1>1, <1>2 DEF OwnerStep, TypeOK, OwnerInv, Callers
<1>6. IrqInv' /\ NoIrqLost'
  BY Zenon, <1>1, <1>2 DEF OwnerStep, TypeOK, IrqInv, NoIrqLost
<1> QED BY Zenon, <1>3, <1>4, <1>5, <1>6

\* irqs_pending is cleared, and what it announced is looked for.
LEMMA PutIrqsStep ==
  ASSUME IInv, NEW t \in Threads, PutIrqs(t)
  PROVE  IInv'
<1> USE ThreadsAssumption DEF IInv, PutIrqs, Goto, Threads, cpuVars, InKernel
<1>1. owner = t /\ pc[t] = "put"
  BY Zenon DEF OwnerInv
<1>2. OwnerStep(t) /\ pc'[t] = "runindex"
  BY Zenon DEF OwnerStep, TypeOK
<1>3. LockInv' /\ HaltInv' /\ SleepInv' /\ NoLostWakeup' /\ NoUseAfterFree'
  <2>1. t = Idle => ~Halting
    BY Zenon, <1>1 DEF HaltInv, Callers
  <2> QED BY Zenon, <1>1, <1>2, <2>1, OwnerStepInv
<1>4. TypeOK'
  BY Zenon, <1>1, <1>2 DEF OwnerStep, TypeOK, Labels
<1>5. OwnerInv'
  BY <1>1, <1>2 DEF OwnerStep, TypeOK, OwnerInv, Callers
<1>6. IrqInv' /\ NoIrqLost'
  BY Zenon, <1>1, <1>2 DEF OwnerStep, TypeOK, IrqInv, NoIrqLost
<1> QED BY Zenon, <1>3, <1>4, <1>5, <1>6

\* run_irqs finds the index unmarked only when nothing is marked, or when the
\* thread that marks the status still holds the lock.
LEMMA RunIrqsStep ==
  ASSUME IInv, NEW t \in Threads, RunIrqs(t)
  PROVE  IInv'
<1> USE ThreadsAssumption DEF IInv, RunIrqs, Goto, Threads, cpuVars, InKernel
<1>1. owner = t /\ pc[t] = "runindex"
  BY Zenon DEF OwnerInv
<1>2. OwnerStep(t) /\ pc'[t] = IF index THEN "run" ELSE "put"
  BY Zenon DEF OwnerStep, TypeOK
<1>3. LockInv' /\ HaltInv' /\ SleepInv' /\ NoLostWakeup' /\ NoUseAfterFree'
  <2>1. t = Idle => ~Halting
    BY Zenon, <1>1 DEF HaltInv, Callers
  <2> QED BY <1>1, <1>2, <2>1, OwnerStepInv
<1>4. TypeOK'
  BY Zenon, <1>1, <1>2 DEF OwnerStep, TypeOK, Labels
<1>5. OwnerInv'
  BY <1>1, <1>2 DEF OwnerStep, TypeOK, OwnerInv, Callers
<1>6. IrqInv' /\ NoIrqLost'
  BY Zenon, <1>1, <1>2 DEF OwnerStep, TypeOK, IrqInv, NoIrqLost
<1> QED BY Zenon, <1>3, <1>4, <1>5, <1>6

\* Nothing is marked when the owner of a last get lets the CPU go: it holds the
\* lock and has found nothing pending.
LEMMA PutFindsNothing ==
  ASSUME IInv, NEW t \in Threads,
         pc[t] = "put", lock = None, ~(pending /\ enabled), count = 1
  PROVE  owner = t /\ enabled /\ status = {}
<1>1. owner = t /\ enabled
  BY ThreadsAssumption DEF IInv, TypeOK, OwnerInv, InKernel, Threads
<1> QED BY Zenon, <1>1 DEF IInv, TypeOK, IrqInv

\* A hand-over to the idle thread or to the next task.
LEMMA PutReschedStep ==
  ASSUME IInv, NEW t \in Threads, PutResched(t)
  PROVE  IInv'
<1> USE ThreadsAssumption DEF IInv, PutResched, Threads, irqVars
<1>1. t \in Callers /\ owner = t /\ enabled /\ status = {} /\ pc[Idle] = "out"
  BY Zenon, PutFindsNothing DEF TypeOK, OwnerInv
<1>2. ~Halting
  BY Zenon, <1>1 DEF HaltInv
<1>3. Gated' = Gated /\ Asleep' = Asleep /\ ~Halting'
  BY Zenon, <1>1, <1>2 DEF TypeOK, Gated, Asleep, Halting, Callers
<1>4. TypeOK'
  BY Zenon DEF TypeOK, Labels, InKernel
<1>5. OwnerInv' /\ LockInv'
  BY <1>1 DEF TypeOK, OwnerInv, LockInv, InKernel
<1>6. IrqInv' /\ NoIrqLost'
  BY Zenon, <1>1 DEF IrqInv, NoIrqLost
<1>7. HaltInv' /\ SleepInv'
  BY Zenon, <1>1, <1>2, <1>3 DEF TypeOK, HaltInv, SleepInv, Callers
<1>8. NoLostWakeup' /\ NoUseAfterFree'
  BY Zenon, <1>1 DEF TypeOK, NoLostWakeup, NoUseAfterFree, HaltInv
<1> QED BY Zenon, <1>4, <1>5, <1>6, <1>7, <1>8

\* lkl_cpu_put: the last put frees the CPU and posts for one sleeper, if any.
LEMMA PutStep ==
  ASSUME IInv, NEW t \in Threads, Put(t)
  PROVE  IInv'
<1> USE ThreadsAssumption DEF IInv, Put, Goto, Threads, irqVars
<1>1. owner = t /\ pc[t] = "put" /\ ~Halting /\ pc[Idle] \notin {"spin", "dead"}
  BY Zenon DEF OwnerInv, InKernel, HaltInv, Callers
<1>2. pc' = [pc EXCEPT ![t] = pc'[t]] /\ pc'[t] \in {"in", "out"}
  BY Zenon DEF TypeOK
<1>3. Gated' = Gated /\ Asleep' = Asleep /\ ~Halting'
  BY <1>1, <1>2 DEF TypeOK, Gated, Asleep, Halting, Callers
<1>4. LockInv'
  BY Zenon, <1>1, <1>2 DEF TypeOK, LockInv
<1>5. CASE count > 1
  <2>1. /\ t \in Callers /\ count = 2 /\ count' = 1 /\ pc'[t] = "in" /\ op[t] = "irq"
        /\ UNCHANGED <<owner, sleepers, sem>>
    BY <1>1, <1>5 DEF TypeOK, OwnerInv
  <2>2. TypeOK'
    BY <1>2, <2>1 DEF TypeOK, Labels, InKernel
  <2>3. OwnerInv'
    BY <1>1, <1>2, <2>1 DEF TypeOK, OwnerInv, InKernel
  <2>4. IrqInv' /\ NoIrqLost'
    BY Zenon, <1>1, <1>2, <2>1 DEF TypeOK, IrqInv, NoIrqLost
  <2>5. HaltInv' /\ SleepInv'
    BY Zenon, <1>1, <1>2, <1>3, <2>1 DEF TypeOK, HaltInv, SleepInv, Callers
  <2>6. NoLostWakeup' /\ NoUseAfterFree'
    BY Zenon, <1>1, <1>2, <2>1 DEF TypeOK, NoLostWakeup, NoUseAfterFree
  <2> QED BY Zenon, <1>4, <2>2, <2>3, <2>4, <2>5, <2>6
<1>6. CASE count = 1
  <2>1. count' = 0 /\ owner' = None /\ WakeSleeper /\ pc'[t] = "out"
    BY <1>6 DEF TypeOK
  <2>2. enabled /\ status = {}
    BY Zenon, <1>6, PutFindsNothing
  <2>3. sleepers' + sem' = sleepers + sem /\ sleepers' \in 0 .. UintMod - 1
        /\ sem' \in Nat /\ (sleepers > 0 => sem' > 0)
    BY <2>1, GateAssumption DEF WakeSleeper, TypeOK
  <2>4. TypeOK'
    BY <1>2, <2>1, <2>3 DEF TypeOK, Labels
  <2>5. OwnerInv'
    BY <1>1, <1>2, <2>1, <2>2 DEF TypeOK, OwnerInv, InKernel
  <2>6. IrqInv' /\ NoIrqLost'
    BY Zenon, <2>2 DEF IrqInv, NoIrqLost
  <2>7. HaltInv'
    BY Zenon, <1>1, <1>2, <1>3, <2>1 DEF TypeOK, HaltInv, Callers
  <2>8. SleepInv'
    BY Zenon, <1>1, <1>2, <1>3, <2>1, <2>3 DEF TypeOK, SleepInv
  <2>9. NoLostWakeup'
    <3> SUFFICES ASSUME NEW s \in Callers, pc'[s] = "sleep" PROVE sem' > 0
      BY Zenon DEF NoLostWakeup
    <3>1. Asleep # {}
      BY Zenon, <1>3 DEF Asleep
    <3>2. Cardinality(Asleep) \in Nat \ {0}
      BY Zenon, <3>1, Counted DEF Asleep
    <3>3. sleepers + sem > 0
      BY <1>1, <3>2 DEF SleepInv
    <3> QED BY <2>1, <3>3 DEF WakeSleeper, TypeOK
  <2>10. NoUseAfterFree'
    BY Zenon, <1>1, <1>2, <2>1 DEF TypeOK, NoUseAfterFree
  <2> QED BY Zenon, <1>4, <2>4, <2>5, <2>6, <2>7, <2>8, <2>9, <2>10
<1> QED BY Zenon, <1>5, <1>6

\* lkl_cpu_shutdown closes the gate, once.
LEMMA HaltStep ==
  ASSUME IInv, NEW t \in Threads, Halt(t)
  PROVE  IInv'
<1> USE ThreadsAssumption DEF IInv, Halt, Goto, Threads, cpuVars, irqVars
<1>1. t \in Callers /\ owner = t /\ pc[t] = "in" /\ pc[Idle] = "out" /\ count = 1
  BY DEF OwnerInv, InKernel, Callers, TypeOK
<1>2. ~Halting /\ Halting'
  BY Zenon, <1>1 DEF HaltInv, Halting, TypeOK
<1>3. Gated' = Gated /\ Asleep' = Asleep
  BY Zenon, <1>1 DEF TypeOK, Gated, Asleep
<1>4. HaltInv'
  <2>1. gate' = Cardinality(Gated') + MAX_THREADS
    BY <1>2, <1>3, Counted, GateAssumption DEF HaltInv, Gated
  <2> QED BY Zenon, <1>1, <1>2, <2>1 DEF HaltInv, TypeOK
<1>5. TypeOK'
  <2>1. gate' \in 0 .. 2 * MAX_THREADS - 1
    BY <1>2, <1>4, Counted, GateAssumption DEF HaltInv, Gated
  <2> QED BY Zenon, <2>1 DEF TypeOK, Labels, InKernel
<1>6. OwnerInv' /\ LockInv'
  BY Zenon, <1>1 DEF TypeOK, OwnerInv, LockInv, InKernel
<1>7. IrqInv' /\ NoIrqLost' /\ SleepInv'
  BY Zenon, <1>1, <1>3 DEF TypeOK, IrqInv, NoIrqLost, SleepInv
<1>8. NoLostWakeup' /\ NoUseAfterFree'
  BY Zenon, <1>1 DEF TypeOK, NoLostWakeup, NoUseAfterFree
<1> QED BY Zenon, <1>4, <1>5, <1>6, <1>7, <1>8

\* The halting thread leaves the CPU to the idle thread for good.
LEMMA HaltScheduleStep ==
  ASSUME IInv, NEW t \in Threads, HaltSchedule(t)
  PROVE  IInv'
<1> USE ThreadsAssumption DEF IInv, HaltSchedule, Threads, irqVars
<1>1. /\ t \in Hosts /\ t \in Callers /\ owner = t /\ pc[Idle] = "out"
      /\ enabled /\ count = 1
  BY DEF TypeOK, OwnerInv, InKernel, HaltInv, Callers
<1>2. Gated' = Gated /\ Asleep' = Asleep /\ Halting /\ Halting'
  BY Zenon, <1>1 DEF TypeOK, Gated, Asleep, Halting
<1>3. TypeOK'
  BY Zenon DEF TypeOK, Labels, InKernel
<1>4. OwnerInv' /\ LockInv'
  BY <1>1 DEF TypeOK, OwnerInv, LockInv, InKernel
<1>5. IrqInv' /\ NoIrqLost'
  BY Zenon, <1>1 DEF TypeOK, IrqInv, NoIrqLost
<1>6. HaltInv' /\ SleepInv'
  BY Zenon, <1>1, <1>2 DEF TypeOK, HaltInv, SleepInv, Callers
<1>7. NoLostWakeup' /\ NoUseAfterFree'
  BY Zenon, <1>1 DEF TypeOK, NoLostWakeup, NoUseAfterFree, HaltInv
<1> QED BY Zenon, <1>3, <1>4, <1>5, <1>6, <1>7

\* Every sleeper has a post when cpu.sleepers wraps around.
LEMMA IdleDrainStep ==
  ASSUME IInv, IdleDrain
  PROVE  IInv'
<1> USE ThreadsAssumption DEF IInv, IdleDrain, WakeAll, Goto, Threads, irqVars
<1>1. owner = Idle /\ Halting
  BY Zenon, GateClosed DEF OwnerInv
<1>2. Gated' = Gated /\ Asleep' = Asleep /\ Halting' = Halting
  BY Zenon DEF TypeOK, Gated, Asleep, Halting, Callers
<1>3. TypeOK'
  BY Counted, {} \in SUBSET Callers, GateAssumption DEF TypeOK, Labels, InKernel
<1>4. OwnerInv' /\ LockInv'
  BY Zenon, <1>1 DEF TypeOK, OwnerInv, LockInv, InKernel
<1>5. IrqInv' /\ NoIrqLost'
  BY Zenon, <1>1 DEF TypeOK, IrqInv, NoIrqLost
<1>6. HaltInv'
  BY Zenon, <1>1, <1>2 DEF TypeOK, HaltInv, Callers
<1>7. SleepInv'
  BY <1>2 DEF TypeOK, SleepInv
<1>8. NoLostWakeup' /\ NoUseAfterFree'
  BY Zenon, <1>1 DEF TypeOK, NoLostWakeup, NoUseAfterFree
<1> QED BY Zenon, <1>3, <1>4, <1>5, <1>6, <1>7, <1>8

\* With the gate at MAX_THREADS nobody is inside it, and none is the owner.
LEMMA CleanupStep ==
  ASSUME IInv, Cleanup
  PROVE  IInv'
<1> USE ThreadsAssumption DEF IInv, Cleanup, GateEmpty, Goto, Threads, cpuVars, irqVars
<1>1. owner = Idle /\ Halting
  BY Zenon DEF OwnerInv, InKernel, HaltInv
<1>2. Gated' = Gated /\ Asleep' = Asleep /\ Halting' = Halting
  BY Zenon DEF TypeOK, Gated, Asleep, Halting, Callers
<1>3. TypeOK'
  BY Zenon DEF TypeOK, Labels
<1>4. OwnerInv' /\ LockInv'
  BY Zenon, <1>1 DEF TypeOK, OwnerInv, LockInv, InKernel
<1>5. IrqInv' /\ NoIrqLost'
  BY Zenon, <1>1 DEF TypeOK, IrqInv, NoIrqLost
<1>6. HaltInv' /\ SleepInv'
  BY Zenon, <1>1, <1>2 DEF TypeOK, HaltInv, SleepInv, Callers
<1>7. NoLostWakeup'
  BY Zenon, <1>1 DEF NoLostWakeup
<1>8. NoUseAfterFree'
  <2>1. Cardinality(Gated) = 0
    BY <1>1, Counted, GateAssumption DEF HaltInv, TypeOK, Gated
  <2>2. Gated = {}
    BY Zenon, <2>1, Counted DEF Gated
  <2>3. \A t \in Callers : pc[t] \notin InKernel /\ t # Idle
    BY Zenon, <1>1 DEF OwnerInv
  <2>4. \A t \in Callers : pc[t] \in {"out", "leave", "halt", "done"}
    BY Zenon, <2>2, <2>3 DEF Gated, TypeOK, Labels, HaltInv
  <2> QED BY Zenon, <2>3, <2>4 DEF NoUseAfterFree, TypeOK
<1> QED BY Zenon, <1>3, <1>4, <1>5, <1>6, <1>7, <1>8

\* The thread that halts returns from lkl_cpu_wait_shutdown.
LEMMA HaltedStep ==
  ASSUME IInv, NEW t \in Threads, Halted(t)
  PROVE  IInv'
<1> USE ThreadsAssumption DEF IInv, Halted, Goto, Threads, cpuVars, irqVars
<1>1. t \in Hosts /\ t \in Callers /\ owner = Idle
  BY Zenon DEF OwnerInv, HaltInv, Callers
<1>2. Gated' = Gated /\ Asleep' = Asleep /\ Halting /\ Halting'
  BY Zenon, <1>1 DEF TypeOK, Gated, Asleep, Halting
<1>3. TypeOK'
  BY Zenon DEF TypeOK, Labels
<1>4. OwnerInv' /\ LockInv'
  BY <1>1 DEF TypeOK, OwnerInv, LockInv, InKernel
<1>5. IrqInv' /\ NoIrqLost'
  BY Zenon, <1>1 DEF TypeOK, IrqInv, NoIrqLost
<1>6. HaltInv' /\ SleepInv'
  BY Zenon, <1>1, <1>2 DEF TypeOK, HaltInv, SleepInv, Callers
<1>7. NoLostWakeup' /\ NoUseAfterFree'
  BY Zenon, <1>1 DEF TypeOK, NoLostWakeup, NoUseAfterFree
<1> QED BY Zenon, <1>3, <1>4, <1>5, <1>6, <1>7

(***************************************************************************)
(* The invariant, and the properties that follow from it.                  *)
(***************************************************************************)
\* Every step of every thread preserves the invariant.
LEMMA NextInv == IInv /\ [Next]_vars => IInv'
<1> SUFFICES ASSUME IInv, [Next]_vars PROVE IInv'
  BY Zenon
<1>1. CASE UNCHANGED vars
  <2> USE <1>1 DEF vars, cpuVars, irqVars
  <2>1. Gated' = Gated /\ Asleep' = Asleep /\ Halting' = Halting
    BY Zenon DEF Gated, Asleep, Halting
  <2>2. TypeOK' /\ OwnerInv' /\ LockInv'
    BY DEF IInv, TypeOK, OwnerInv, LockInv
  <2>3. IrqInv' /\ HaltInv' /\ SleepInv'
    BY Zenon, <2>1 DEF IInv, IrqInv, HaltInv, SleepInv
  <2>4. NoLostWakeup' /\ NoUseAfterFree' /\ NoIrqLost'
    BY Zenon DEF IInv, NoLostWakeup, NoUseAfterFree, NoIrqLost
  <2> QED BY Zenon, <2>2, <2>3, <2>4 DEF IInv
<1>2. CASE Next
  BY Zenon, <1>1, <1>2, StartStep, TryGetLockStep, MarkIrqStep, SemDownStep, RetryStep,
     LeaveStep, RunIrqStep, DisableIrqsStep, EnableIrqsStep, CheckIrqStatusStep,
     StartPutStep, PutIrqsStep, RunIrqsStep, PutReschedStep, PutStep, HaltStep,
     HaltScheduleStep, IdleDrainStep, CleanupStep, HaltedStep
     DEF Next, Step, Finished
<1> QED BY Zenon, <1>1, <1>2

\* The inductive invariant holds for any number of threads and operations.
THEOREM Inductive == Spec => []IInv
BY InitInv, NextInv, PTL DEF Spec

\* lkl_cpu_get, lkl_cpu_put and the hand-over to the idle thread: kernel code
\* runs on the owner of the CPU only, and no counter leaves its range.
THEOREM Exclusion == Spec => []MutualExclusion
<1>1. IInv => MutualExclusion
  BY Zenon DEF IInv, OwnerInv, MutualExclusion
<1> QED BY <1>1, Inductive, PTL

\* lkl_cpu_put loses no wake-up: a free CPU has nobody asleep that no post, or
\* no thread about to get and put the CPU, will reach.
THEOREM WakeupSafety == Spec => []NoLostWakeup
BY Inductive, PTL DEF IInv

\* set_irq_pending, run_irqs and the loop of lkl_cpu_put: no interrupt is left
\* marked on a CPU that nobody owns.
THEOREM IrqSafety == Spec => []NoIrqLost
BY Inductive, PTL DEF IInv

\* lkl_cpu_cleanup frees the lock and the semaphores only when no thread inside
\* the gate can still use them.
THEOREM CleanupSafety == Spec => []NoUseAfterFree
BY Inductive, PTL DEF IInv
=============================================================================
