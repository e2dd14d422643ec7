---------------------------- MODULE BridgeProofs ----------------------------
(***************************************************************************)
(* Proofs about Bridge.  The invariant IInv of Bridge is inductive: there  *)
(* is one lemma per action, with one step per conjunct the action can      *)
(* disturb and a last one for the conjuncts whose variables it leaves      *)
(* alone.  The safety properties of Bridge and the refinement of OpQueue   *)
(* follow.                                                                 *)
(***************************************************************************)
EXTENDS Bridge, TLAPS

(***************************************************************************)
(* The actions of the main thread.                                         *)
(***************************************************************************)
\* A push only lengthens the queue; the kernel is up, so no halt depends on it.
LEMMA SubmitStep ==
  ASSUME IInv, NEW kind \in Kinds, Submit(kind)
  PROVE  IInv'
<1> USE ThreadsAssumption DEF IInv, Submit, Threads,
           mainVars, queueVars, slotVars, asyncVars, frameVars, diskVars,
           kernelVars
<1>1. TypeOK'
  BY DEF TypeOK, Labels, Functions
<1>2. QueueInv'
  BY DEF TypeOK, LockInv, CallInv, CpuInv, QueueInv, WorkerDone, OpCalled,
     Requesting, Blocked
<1>3. DeviceInv'
  BY DEF TypeOK, CpuInv, QueueInv, DeviceInv, Requesting, WorkerDone, OpCalled
<1>4. HaltInv'
  BY Zenon DEF TypeOK, HaltInv
<1>5. (LockInv /\ CallInv /\ DiskCallInv /\ CpuInv)'
  BY DEF LockInv, CallInv, Blocked, DiskCallInv, CpuInv, Requesting
<1> QED BY Zenon, <1>1, <1>2, <1>3, <1>4, <1>5

\* With nothing running, starting the next operation finds the slot consumed.
LEMMA TickStep ==
  ASSUME IInv, Tick
  PROVE  IInv'
<1> USE ThreadsAssumption DEF IInv, Tick, Threads, Process, RunOnWorkerLoop,
           mainVars, queueVars, slotVars, asyncVars, frameVars, diskVars,
           kernelVars
<1>1. TypeOK'
  <2>1. wpend' \in BOOLEAN /\ threw' \in BOOLEAN
    BY Zenon DEF TypeOK
  <2>2. slot' \in Nat /\ taken' \in Nat /\ running' \in {0, 1}
    BY DEF TypeOK
  <2> QED BY <2>1, <2>2 DEF TypeOK
<1>2. QueueInv'
  BY DEF TypeOK, LockInv, CallInv, CpuInv, QueueInv, WorkerDone, OpCalled,
     Requesting, Blocked
<1>3. (LockInv /\ CallInv /\ DiskCallInv /\ CpuInv /\ DeviceInv /\ HaltInv)'
  BY DEF LockInv, CallInv, Blocked, DiskCallInv, CpuInv, Requesting, DeviceInv,
     HaltInv
<1> QED BY Zenon, <1>1, <1>2, <1>3

\* The frame served is the mutex owner's; a completion belongs to the worker,
\* whose operation is the last one taken, and the queue may post the next one
\* while the worker is still blocked.
LEMMA DefaultLoopEntryStep ==
  ASSUME IInv, DefaultLoopEntry
  PROVE  IInv'
<1> USE ThreadsAssumption DEF IInv, Threads
<1> DEFINE Unchanged ==
      UNCHANGED <<main, subs, cur, lock, data, handle, frameVars, reqno, jsSem,
                  kernelVars>>
<1>a. /\ pend /\ ~pend' /\ minfo' = data /\ Unchanged
      /\ minfo = NoThread /\ handle = "open" /\ main = "run"
  BY Zenon DEF DefaultLoopEntry, TypeOK
<1>b. data \in Threads /\ lock = data /\ Blocked(data)
  BY Zenon, <1>a DEF CallInv
<1>c. ASSUME fn[data] = "op"
      PROVE  /\ data = Worker /\ ~WorkerDone /\ cur = taken
             /\ Len(served) + 1 = taken /\ ~wpend /\ running = 1 /\ ~threw
  BY Zenon, <1>a, <1>b, <1>c DEF CpuInv, Requesting, Blocked, QueueInv, WorkerDone,
                          OpCalled, TypeOK
<1>d. \/ /\ fn[data] = "op" /\ OpCallback(cur) /\ UNCHANGED armed
      \/ /\ fn[data] # "op"
         /\ armed' = armed \cup {<<data, reqno[data]>>}
         /\ UNCHANGED <<taken, running, threw, served, slotVars>>
  BY Zenon DEF DefaultLoopEntry
<1>1. TypeOK'
  <2>1. wpend' \in BOOLEAN /\ threw' \in BOOLEAN
    BY <1>d, Zenon DEF TypeOK, OpCallback, Process, RunOnWorkerLoop, slotVars
  <2>2. cur \in Nat /\ slot \in Nat /\ taken \in Nat /\ running \in {0, 1}
        /\ served \in Seq(Nat)
    BY Zenon DEF TypeOK
  <2>4. slot' \in Nat /\ taken' \in Nat /\ running' \in {0, 1}
    BY <1>d, <2>2 DEF OpCallback, Process, RunOnWorkerLoop, slotVars
  <2>5. served' \in Seq(Nat)
    BY <1>d, <2>2 DEF OpCallback
  <2>3. armed' \in SUBSET (Threads \X Nat)
    BY <1>b, <1>d DEF TypeOK
  <2>6. /\ main' = main /\ subs' = subs /\ cur' = cur /\ lock' = lock
        /\ data' = data /\ handle' = handle /\ pc' = pc /\ fn' = fn
        /\ sem' = sem /\ reqno' = reqno /\ jsSem' = jsSem /\ cpu' = cpu
        /\ attached' = attached /\ kernel' = kernel
    BY Zenon, <1>a DEF frameVars, kernelVars
  <2>7. pend' \in BOOLEAN
    BY Zenon DEF DefaultLoopEntry
  <2> QED BY Zenon, <1>a, <1>b, <2>1, <2>3, <2>4, <2>5, <2>6, <2>7 DEF TypeOK
<1>2. CallInv'
  BY Zenon, <1>a, <1>b DEF TypeOK, LockInv, CallInv, Blocked, frameVars
<1>3. DiskCallInv'
  <2>1. CASE fn[data] = "op"
    BY Zenon, <1>a, <1>b, <1>c, <1>d, <2>1
       DEF TypeOK, DiskCallInv, LockInv, frameVars
  <2>2. CASE fn[data] # "op"
    BY <1>a, <1>b, <1>d, <2>2
       DEF TypeOK, DiskCallInv, LockInv, Blocked, frameVars
  <2> QED BY Zenon, <2>1, <2>2
<1>4. QueueInv'
  <2>1. CASE fn[data] = "op"
    <3>1. /\ served \in Seq(Nat) /\ taken \in Nat /\ served' = Append(served, cur)
          /\ subs' = subs /\ cur' = cur /\ OpCalled'
      BY Zenon, <1>a, <1>b, <1>c, <1>d, <2>1
         DEF TypeOK, OpCallback, OpCalled, Blocked, frameVars
    <3>2. /\ Len(served') = taken /\ cur \in DOMAIN served'
          /\ \A i \in DOMAIN served' : served'[i] = i
      BY <1>c, <2>1, <3>1 DEF QueueInv
    <3>3. \/ taken' = taken /\ running' = 0 /\ threw' = threw /\ wpend' = wpend
          \/ taken' = taken + 1 /\ taken < Len(subs) /\ running' = 1 /\ threw'
             /\ wpend' = wpend
          \/ /\ taken' = taken + 1 /\ taken < Len(subs) /\ running' = 1
             /\ threw' = threw /\ slot' = taken + 1 /\ subs[taken + 1] # "throws"
          \/ taken' = taken /\ running' = running /\ threw' /\ wpend' = wpend
      BY <1>d, <2>1 DEF OpCallback, Process, RunOnWorkerLoop, slotVars,
         QueueInv,
                        TypeOK
    <3> QED BY <1>c, <2>1, <3>1, <3>2, <3>3
            DEF QueueInv, WorkerDone, TypeOK
  <2>2. CASE fn[data] # "op"
    BY <1>a, <1>b, <1>d, <2>2
       DEF TypeOK, QueueInv, WorkerDone, OpCalled, LockInv, Blocked, frameVars,
           slotVars
  <2> QED BY Zenon, <2>1, <2>2
<1>5. HaltInv'
  BY Zenon, <1>a DEF HaltInv, TypeOK, kernelVars
<1>6. (LockInv /\ CpuInv /\ DeviceInv)'
  BY Zenon, <1>a DEF LockInv, CpuInv, Requesting, DeviceInv, frameVars, kernelVars
<1> QED BY Zenon, <1>1, <1>2, <1>3, <1>4, <1>5, <1>6

\* The post goes to the blocked owner of the mutex, whose semaphore is 0.
LEMMA DefaultLoopPostStep ==
  ASSUME IInv, DefaultLoopPost
  PROVE  IInv'
<1> USE ThreadsAssumption DEF IInv, DefaultLoopPost, Threads,
           mainVars, queueVars, slotVars, asyncVars, frameVars, diskVars,
           kernelVars
<1>1. TypeOK'
  BY DEF TypeOK, CallInv, Blocked
<1>2. CallInv'
  BY DEF TypeOK, LockInv, CallInv, Blocked
<1>3. (LockInv /\ DiskCallInv /\ CpuInv)'
  BY DEF LockInv, DiskCallInv, CpuInv, Requesting
<1>4. (QueueInv /\ DeviceInv /\ HaltInv)'
  BY DEF QueueInv, WorkerDone, OpCalled, DeviceInv, Requesting, HaltInv
<1> QED BY Zenon, <1>1, <1>2, <1>3, <1>4

\* An armed callback posts the js_sem of the call its thread is in, once.
LEMMA CallbackWrapperStep ==
  ASSUME IInv, NEW call \in armed, CallbackWrapper(call[1], call[2])
  PROVE  IInv'
<1> USE ThreadsAssumption DEF IInv, CallbackWrapper, Threads,
           mainVars, queueVars, slotVars, asyncVars, frameVars, diskVars,
           kernelVars
<1>1. TypeOK'
  BY SMTT(30) DEF TypeOK, DiskCallInv
<1>2. DiskCallInv'
  BY DEF TypeOK, LockInv, CallInv, DiskCallInv, CpuInv, Requesting, Blocked
<1>3. (LockInv /\ CallInv /\ CpuInv)'
  BY Zenon DEF LockInv, CallInv, Blocked, CpuInv, Requesting
<1>4. (QueueInv /\ DeviceInv /\ HaltInv)'
  BY DEF QueueInv, WorkerDone, OpCalled, DeviceInv, Requesting, HaltInv
<1> QED BY Zenon, <1>1, <1>2, <1>3, <1>4

\* The operations of the client have called back in order, so all have.
LEMMA HaltStartStep ==
  ASSUME IInv, HaltStart
  PROVE  IInv'
<1> USE ThreadsAssumption DEF IInv, HaltStart, Threads,
           mainVars, queueVars, slotVars, asyncVars, frameVars, diskVars,
           kernelVars
<1>1. TypeOK'
  BY DEF TypeOK, Labels, Functions
<1>2. HaltInv'
  <2>1. CalledBack(Len(subs))
    BY DEF ClientMayHalt, TypeOK
  <2>2. PICK i \in DOMAIN served : served[i] = Len(subs)
    BY Zenon, <2>1 DEF CalledBack
  <2>3. Len(subs) <= Len(served)
    BY <2>2 DEF TypeOK, QueueInv
  <2> QED BY <2>3 DEF TypeOK, HaltInv, QueueInv, ClientMayHalt
<1>3. (LockInv /\ CallInv /\ DiskCallInv)'
  BY Zenon DEF LockInv, CallInv, Blocked, DiskCallInv
<1>4. (CpuInv /\ QueueInv /\ DeviceInv)'
  BY DEF CpuInv, Requesting, QueueInv, WorkerDone, OpCalled, DeviceInv
<1> QED BY Zenon, <1>1, <1>2, <1>3, <1>4

\* Halting changes the kernel and the handle only.
LEMMA HaltDoneStep ==
  ASSUME IInv, HaltDone
  PROVE  IInv'
<1> USE ThreadsAssumption DEF IInv, HaltDone, Threads,
           mainVars, queueVars, slotVars, asyncVars, frameVars, diskVars,
           kernelVars
<1>1. TypeOK'
  BY DEF TypeOK, Labels, Functions
<1>2. HaltInv'
  BY Zenon DEF TypeOK, HaltInv
<1>3. (LockInv /\ CallInv /\ DiskCallInv)'
  BY Zenon DEF LockInv, CallInv, Blocked, DiskCallInv
<1>4. (CpuInv /\ QueueInv /\ DeviceInv)'
  BY DEF CpuInv, Requesting, QueueInv, WorkerDone, OpCalled, DeviceInv
<1> QED BY Zenon, <1>1, <1>2, <1>3, <1>4

\* Freeing the handle changes nothing else.
LEMMA CloseCallbackStep ==
  ASSUME IInv, CloseCallback
  PROVE  IInv'
<1> USE ThreadsAssumption DEF IInv, CloseCallback, Threads,
           mainVars, queueVars, slotVars, asyncVars, frameVars, diskVars,
           kernelVars
<1>1. TypeOK'
  BY DEF TypeOK, Labels, Functions
<1>2. HaltInv'
  BY Zenon DEF TypeOK, HaltInv
<1>3. (LockInv /\ CallInv /\ DiskCallInv)'
  BY Zenon DEF LockInv, CallInv, Blocked, DiskCallInv
<1>4. (CpuInv /\ QueueInv /\ DeviceInv)'
  BY DEF CpuInv, Requesting, QueueInv, WorkerDone, OpCalled, DeviceInv
<1> QED BY Zenon, <1>1, <1>2, <1>3, <1>4

(***************************************************************************)
(* The actions of the worker and of the kernel threads.                    *)
(***************************************************************************)
\* A free mutex means that no thread is between send and return.
LEMMA RdlLockStep ==
  ASSUME IInv, NEW t \in Threads, RdlLock(t)
  PROVE  IInv'
<1> USE ThreadsAssumption DEF IInv, RdlLock, Threads, Goto,
           mainVars, queueVars, slotVars, asyncVars, frameVars, diskVars,
           kernelVars
<1>1. TypeOK'
  BY DEF TypeOK, Labels, Functions
<1>2. LockInv'
  BY Zenon DEF TypeOK, LockInv
<1>3. CallInv'
  BY Zenon DEF TypeOK, LockInv, CallInv, Blocked
<1>4. DiskCallInv'
  BY DEF TypeOK, LockInv, CallInv, DiskCallInv, CpuInv, Requesting, Blocked
<1>5. CpuInv'
  BY Zenon DEF TypeOK, CpuInv, Requesting
<1>6. QueueInv'
  BY DEF TypeOK, LockInv, CallInv, CpuInv, QueueInv, WorkerDone, OpCalled,
     Requesting, Blocked
<1>7. DeviceInv'
  BY Zenon DEF TypeOK, CpuInv, QueueInv, DeviceInv, Requesting, WorkerDone, OpCalled
<1>8. (HaltInv)'
  BY Zenon DEF HaltInv
<1> QED BY Zenon, <1>1, <1>2, <1>3, <1>4, <1>5, <1>6, <1>7, <1>8

\* The owner of the mutex becomes the blocked thread the wake-up points to.
LEMMA RdlSendStep ==
  ASSUME IInv, NEW t \in Threads, RdlSend(t)
  PROVE  IInv'
<1> USE ThreadsAssumption DEF IInv, RdlSend, Threads, Goto,
           mainVars, queueVars, slotVars, asyncVars, frameVars, diskVars,
           kernelVars
<1>1. TypeOK'
  BY DEF TypeOK, Labels, Functions
<1>2. LockInv'
  BY Zenon DEF TypeOK, LockInv
<1>3. CallInv'
  BY Zenon DEF TypeOK, LockInv, CallInv, Blocked
<1>4. DiskCallInv'
  BY DEF TypeOK, LockInv, CallInv, DiskCallInv, CpuInv, Requesting, Blocked
<1>5. CpuInv'
  BY DEF TypeOK, CpuInv, Requesting
<1>6. QueueInv'
  BY DEF TypeOK, LockInv, CallInv, CpuInv, QueueInv, WorkerDone, OpCalled,
     Requesting, Blocked
<1>7. DeviceInv'
  BY DEF TypeOK, CpuInv, QueueInv, DeviceInv, Requesting, WorkerDone, OpCalled
<1>8. (HaltInv)'
  BY Zenon DEF HaltInv
<1> QED BY Zenon, <1>1, <1>2, <1>3, <1>4, <1>5, <1>6, <1>7, <1>8

\* Only a posted owner leaves; a disk call has been armed or answered by then.
LEMMA RdlReturnStep ==
  ASSUME IInv, NEW t \in Threads, RdlReturn(t)
  PROVE  IInv'
<1> USE ThreadsAssumption DEF IInv, RdlReturn, Threads, Goto,
           mainVars, queueVars, slotVars, asyncVars, frameVars, diskVars,
           kernelVars
<1>1. TypeOK'
  BY DEF TypeOK, Labels, Functions
<1>2. LockInv'
  BY Zenon DEF TypeOK, LockInv
<1>3. CallInv'
  BY DEF TypeOK, LockInv, CallInv, Blocked
<1>4. DiskCallInv'
  BY DEF TypeOK, LockInv, CallInv, DiskCallInv, CpuInv, Requesting, Blocked
<1>5. CpuInv'
  BY Zenon DEF TypeOK, CpuInv, Requesting
<1>6. QueueInv'
  BY DEF TypeOK, LockInv, CallInv, CpuInv, QueueInv, WorkerDone, OpCalled,
     Requesting, Blocked
<1>7. DeviceInv'
  BY Zenon DEF TypeOK, CpuInv, QueueInv, DeviceInv, Requesting, WorkerDone, OpCalled
<1>8. (HaltInv)'
  BY Zenon DEF HaltInv
<1> QED BY Zenon, <1>1, <1>2, <1>3, <1>4, <1>5, <1>6, <1>7, <1>8

\* An answered call returns; get_capacity is only called by the worker.
LEMMA JsReturnStep ==
  ASSUME IInv, NEW t \in Threads, JsReturn(t)
  PROVE  IInv'
<1> USE ThreadsAssumption DEF IInv, JsReturn, Threads, Goto, Complete,
           mainVars, queueVars, slotVars, asyncVars, frameVars, diskVars,
           kernelVars
<1>1. TypeOK'
  BY SMTT(30) DEF TypeOK, Labels, Functions, CpuInv, Requesting
<1>2. LockInv'
  BY DEF TypeOK, LockInv, CpuInv, Requesting
<1>3. CallInv'
  BY DEF TypeOK, LockInv, CallInv, Blocked, CpuInv, Requesting
<1>4. DiskCallInv'
  BY DEF TypeOK, LockInv, CallInv, DiskCallInv, CpuInv, Requesting, Blocked
<1>5. CpuInv'
  BY SMTT(30) DEF TypeOK, CpuInv, Requesting
<1>6. QueueInv'
  BY DEF TypeOK, LockInv, CallInv, CpuInv, QueueInv, WorkerDone, OpCalled,
     Requesting, Blocked
<1>7. DeviceInv'
  BY DEF TypeOK, CpuInv, QueueInv, DeviceInv, Requesting, WorkerDone, OpCalled
<1>8. (HaltInv)'
  BY Zenon DEF HaltInv
<1> QED BY Zenon, <1>1, <1>2, <1>3, <1>4, <1>5, <1>6, <1>7, <1>8

\* A request keeps the CPU and starts a call that no callback knows yet.
LEMMA RequestStep ==
  ASSUME IInv, NEW t \in Threads, Request(t)
  PROVE  IInv'
<1> USE ThreadsAssumption DEF IInv, Request, Threads, Goto, JsCall,
           mainVars, queueVars, slotVars, asyncVars, frameVars, diskVars,
           kernelVars
<1>1. TypeOK'
  BY DEF TypeOK, Labels, Functions
<1>2. LockInv'
  BY Zenon DEF TypeOK, LockInv
<1>3. CallInv'
  BY Zenon DEF TypeOK, LockInv, CallInv, Blocked
<1>4. DiskCallInv'
  BY DEF TypeOK, LockInv, CallInv, DiskCallInv, CpuInv, Requesting, Blocked
<1>5. CpuInv'
  BY SMTT(30) DEF TypeOK, CpuInv, Requesting
<1>6. QueueInv'
  BY DEF TypeOK, LockInv, CallInv, CpuInv, QueueInv, WorkerDone, OpCalled,
     Requesting, Blocked
<1>7. DeviceInv'
  BY Zenon DEF TypeOK, CpuInv, QueueInv, DeviceInv, Requesting, WorkerDone, OpCalled
<1>8. (HaltInv)'
  BY Zenon DEF HaltInv
<1> QED BY Zenon, <1>1, <1>2, <1>3, <1>4, <1>5, <1>6, <1>7, <1>8

\* Types after worker_loop_entry.
LEMMA WorkerLoopEntryType ==
  ASSUME TypeOK, WorkerLoopEntry
  PROVE  TypeOK'
<1> USE ThreadsAssumption DEF Threads
<1>1. pc' \in [Threads -> Labels] /\ fn' \in [Threads -> Functions]
  BY DEF WorkerLoopEntry, Goto, JsCall, Complete, TypeOK, Labels, Functions
<1>2. reqno' \in [Threads -> Nat]
  BY DEF WorkerLoopEntry, JsCall, TypeOK
<1>3. /\ wpend' = FALSE /\ cur' = slot
      /\ UNCHANGED <<mainVars, queueVars, slot, asyncVars, sem, jsSem, armed,
                     kernelVars>>
  BY Zenon DEF WorkerLoopEntry
<1>4. wpend' \in BOOLEAN /\ cur' \in Nat
  BY <1>3, Zenon DEF TypeOK
<1> QED
  BY <1>1, <1>2, <1>3, <1>4, SMTT(30)
     DEF TypeOK, mainVars, queueVars, asyncVars, kernelVars

\* The worker picks up the operation taken last.
LEMMA WorkerLoopEntryStep ==
  ASSUME IInv, WorkerLoopEntry
  PROVE  IInv'
<1> USE ThreadsAssumption DEF IInv, Threads, mainVars, queueVars, slotVars,
           asyncVars, frameVars, diskVars, kernelVars
<1>a. /\ pc[Worker] = "idle" /\ pc'[Worker] \in {"lock", "enter"}
      /\ pc'[Worker] = "lock" => fn'[Worker] \in {"op", "get_capacity"}
      /\ \A t \in KThreads :
           pc'[t] = pc[t] /\ fn'[t] = fn[t] /\ reqno'[t] = reqno[t]
  BY DEF TypeOK, WorkerLoopEntry, Goto, JsCall, Complete
<1>b. UNCHANGED <<mainVars, queueVars, slot, asyncVars, sem, jsSem, armed,
                  kernelVars>>
  BY Zenon DEF WorkerLoopEntry
<1>c. \A t \in Threads : Blocked(t)' <=> Blocked(t)
  BY Zenon, <1>a, <1>b DEF Blocked
<1>1. TypeOK'
  BY Zenon, WorkerLoopEntryType
<1>2. LockInv'
  BY Zenon, <1>a, <1>b DEF LockInv
<1>3. CallInv'
  BY Zenon, <1>a, <1>b, <1>c DEF CallInv, TypeOK
<1>4. DiskCallInv'
  <2>1. \A call \in armed : call[1] \in KThreads
    BY Zenon, <1>a DEF TypeOK, DiskCallInv
  <2> QED BY <1>a, <1>b, <2>1 DEF TypeOK, DiskCallInv
<1>5. CpuInv'
  BY SMTT(30), <1>a, <1>b DEF TypeOK, CpuInv, Requesting
<1>6. QueueInv'
  BY DEF TypeOK, LockInv, CallInv, CpuInv, QueueInv, WorkerDone, OpCalled,
     Requesting, Blocked, WorkerLoopEntry, Goto, JsCall, Complete
<1>7. DeviceInv'
  BY DEF TypeOK, CpuInv, QueueInv, DeviceInv, Requesting, WorkerDone, OpCalled,
     WorkerLoopEntry, Goto, JsCall, Complete
<1>8. HaltInv'
  BY Zenon, <1>b DEF HaltInv
<1> QED BY Zenon, <1>1, <1>2, <1>3, <1>4, <1>5, <1>6, <1>7, <1>8

\* The worker gets the free CPU; a disk_add registers its device.
LEMMA EnterStep ==
  ASSUME IInv, Enter
  PROVE  IInv'
<1> USE ThreadsAssumption DEF IInv, Enter, Threads, Goto,
           mainVars, queueVars, slotVars, asyncVars, frameVars, diskVars,
           kernelVars
<1>1. TypeOK'
  BY DEF TypeOK, Labels, Functions
<1>2. LockInv'
  BY Zenon DEF TypeOK, LockInv
<1>3. CallInv'
  BY Zenon DEF TypeOK, LockInv, CallInv, Blocked
<1>4. DiskCallInv'
  BY DEF TypeOK, LockInv, CallInv, DiskCallInv, CpuInv, Requesting, Blocked
<1>5. CpuInv'
  BY DEF TypeOK, CpuInv, Requesting
<1>6. QueueInv'
  BY Zenon DEF TypeOK, LockInv, CallInv, CpuInv, QueueInv, WorkerDone, OpCalled,
     Requesting, Blocked
<1>7. DeviceInv'
  BY DEF TypeOK, CpuInv, QueueInv, DeviceInv, Requesting, WorkerDone, OpCalled
<1>8. HaltInv'
  BY DEF TypeOK, HaltInv, QueueInv, WorkerDone, OpCalled, DeviceInv
<1> QED BY Zenon, <1>1, <1>2, <1>3, <1>4, <1>5, <1>6, <1>7, <1>8

\* The worker leaves the CPU inside a system call.
LEMMA SleepStep ==
  ASSUME IInv, Sleep
  PROVE  IInv'
<1> USE ThreadsAssumption DEF IInv, Sleep, Threads, Goto,
           mainVars, queueVars, slotVars, asyncVars, frameVars, diskVars,
           kernelVars
<1>1. TypeOK'
  BY DEF TypeOK, Labels, Functions
<1>2. LockInv'
  BY Zenon DEF TypeOK, LockInv
<1>3. CallInv'
  BY Zenon DEF TypeOK, LockInv, CallInv, Blocked
<1>4. DiskCallInv'
  BY DEF TypeOK, LockInv, CallInv, DiskCallInv, CpuInv, Requesting, Blocked
<1>5. CpuInv'
  BY DEF TypeOK, CpuInv, Requesting
<1>6. QueueInv'
  BY Zenon DEF TypeOK, LockInv, CallInv, CpuInv, QueueInv, WorkerDone, OpCalled,
     Requesting, Blocked
<1>7. DeviceInv'
  BY Zenon DEF TypeOK, CpuInv, QueueInv, DeviceInv, Requesting, WorkerDone, OpCalled
<1>8. (HaltInv)'
  BY Zenon DEF HaltInv
<1> QED BY Zenon, <1>1, <1>2, <1>3, <1>4, <1>5, <1>6, <1>7, <1>8

\* The worker gets the free CPU back.
LEMMA WakeStep ==
  ASSUME IInv, Wake
  PROVE  IInv'
<1> USE ThreadsAssumption DEF IInv, Wake, Threads, Goto,
           mainVars, queueVars, slotVars, asyncVars, frameVars, diskVars,
           kernelVars
<1>1. TypeOK'
  BY DEF TypeOK, Labels, Functions
<1>2. LockInv'
  BY Zenon DEF TypeOK, LockInv
<1>3. CallInv'
  BY Zenon DEF TypeOK, LockInv, CallInv, Blocked
<1>4. DiskCallInv'
  BY DEF TypeOK, LockInv, CallInv, DiskCallInv, CpuInv, Requesting, Blocked
<1>5. CpuInv'
  BY DEF TypeOK, CpuInv, Requesting
<1>6. QueueInv'
  BY Zenon DEF TypeOK, LockInv, CallInv, CpuInv, QueueInv, WorkerDone, OpCalled,
     Requesting, Blocked
<1>7. DeviceInv'
  BY Zenon DEF TypeOK, CpuInv, QueueInv, DeviceInv, Requesting, WorkerDone, OpCalled
<1>8. (HaltInv)'
  BY Zenon DEF HaltInv
<1> QED BY Zenon, <1>1, <1>2, <1>3, <1>4, <1>5, <1>6, <1>7, <1>8

\* The worker leaves the kernel; a device that goes away was there.
LEMMA KernelReturnStep ==
  ASSUME IInv, KernelReturn
  PROVE  IInv'
<1> USE ThreadsAssumption DEF IInv, KernelReturn, Threads, Goto, Complete,
           mainVars, queueVars, slotVars, asyncVars, frameVars, diskVars,
           kernelVars
<1>1. TypeOK'
  BY SMTT(30) DEF TypeOK, Labels, Functions, DeviceInv
<1>2. LockInv'
  BY Zenon DEF TypeOK, LockInv
<1>3. CallInv'
  BY Zenon DEF TypeOK, LockInv, CallInv, Blocked
<1>4. DiskCallInv'
  BY DEF TypeOK, LockInv, CallInv, DiskCallInv, CpuInv, Requesting, Blocked
<1>5. CpuInv'
  BY DEF TypeOK, CpuInv, Requesting
<1>6. QueueInv'
  BY Zenon DEF TypeOK, LockInv, CallInv, CpuInv, QueueInv, WorkerDone, OpCalled,
     Requesting, Blocked
<1>7. DeviceInv'
  BY Zenon DEF TypeOK, CpuInv, QueueInv, DeviceInv, Requesting, WorkerDone, OpCalled
<1>8. HaltInv'
  BY DEF TypeOK, HaltInv, QueueInv, WorkerDone, OpCalled, DeviceInv
<1> QED BY Zenon, <1>1, <1>2, <1>3, <1>4, <1>5, <1>6, <1>7, <1>8

\* A kernel thread gets the free CPU and issues a request.
LEMMA KRunStep ==
  ASSUME IInv, NEW k \in KThreads, KRun(k)
  PROVE  IInv'
<1> USE ThreadsAssumption DEF IInv, KRun, Threads, Goto, JsCall,
           mainVars, queueVars, slotVars, asyncVars, frameVars, diskVars,
           kernelVars
<1>1. TypeOK'
  BY DEF TypeOK, Labels, Functions
<1>2. LockInv'
  BY Zenon DEF TypeOK, LockInv
<1>3. CallInv'
  BY Zenon DEF TypeOK, LockInv, CallInv, Blocked
<1>4. DiskCallInv'
  BY DEF TypeOK, LockInv, CallInv, DiskCallInv, CpuInv, Requesting, Blocked
<1>5. CpuInv'
  BY SMTT(30) DEF TypeOK, CpuInv, Requesting
<1>6. QueueInv'
  BY DEF TypeOK, LockInv, CallInv, CpuInv, QueueInv, WorkerDone, OpCalled,
     Requesting, Blocked
<1>7. DeviceInv'
  BY Zenon DEF TypeOK, CpuInv, QueueInv, DeviceInv, Requesting, WorkerDone, OpCalled
<1>8. (HaltInv)'
  BY Zenon DEF HaltInv
<1> QED BY Zenon, <1>1, <1>2, <1>3, <1>4, <1>5, <1>6, <1>7, <1>8

\* A kernel thread leaves the CPU.
LEMMA KIdleStep ==
  ASSUME IInv, NEW k \in KThreads, KIdle(k)
  PROVE  IInv'
<1> USE ThreadsAssumption DEF IInv, KIdle, Threads, Goto,
           mainVars, queueVars, slotVars, asyncVars, frameVars, diskVars,
           kernelVars
<1>1. TypeOK'
  BY DEF TypeOK, Labels, Functions
<1>2. LockInv'
  BY Zenon DEF TypeOK, LockInv
<1>3. CallInv'
  BY Zenon DEF TypeOK, LockInv, CallInv, Blocked
<1>4. DiskCallInv'
  BY DEF TypeOK, LockInv, CallInv, DiskCallInv, CpuInv, Requesting, Blocked
<1>5. CpuInv'
  BY DEF TypeOK, CpuInv, Requesting
<1>6. QueueInv'
  BY Zenon DEF TypeOK, LockInv, CallInv, CpuInv, QueueInv, WorkerDone, OpCalled,
     Requesting, Blocked
<1>7. DeviceInv'
  BY Zenon DEF TypeOK, CpuInv, QueueInv, DeviceInv, Requesting, WorkerDone, OpCalled
<1>8. (HaltInv)'
  BY Zenon DEF HaltInv
<1> QED BY Zenon, <1>1, <1>2, <1>3, <1>4, <1>5, <1>6, <1>7, <1>8

(***************************************************************************)
(* The invariant, and what follows from it.                                *)
(***************************************************************************)
\* The invariant holds when startKernelSync returns.
LEMMA InitInv == Init => IInv
<1> SUFFICES ASSUME Init PROVE IInv
  BY Zenon
<1> USE ThreadsAssumption DEF Init, Threads
<1>1. TypeOK
  <2>1. subs \in Seq(Kinds) /\ served \in Seq(Nat)
    BY DEF Kinds
  <2>2. /\ pc \in [Threads -> Labels] /\ fn \in [Threads -> Functions]
        /\ sem \in [Threads -> {0, 1}] /\ reqno \in [Threads -> Nat]
        /\ jsSem \in [Threads -> {0, 1}]
    BY Zenon DEF Labels, Functions
  <2> QED BY <2>1, <2>2, Zenon DEF TypeOK
<1>2. LockInv /\ CallInv /\ DiskCallInv /\ CpuInv
  BY DEF LockInv, CallInv, DiskCallInv, CpuInv, Blocked, Requesting
<1>3. QueueInv /\ DeviceInv /\ HaltInv
  BY DEF QueueInv, DeviceInv, HaltInv, OpCalled, WorkerDone, Requesting
<1> QED BY Zenon, <1>1, <1>2, <1>3 DEF IInv

\* Every step of every thread preserves the invariant.
LEMMA NextInv == IInv /\ [Next]_vars => IInv'
<1> SUFFICES ASSUME IInv, [Next]_vars PROVE IInv'
  BY Zenon
<1>1. CASE UNCHANGED vars
  <2> USE <1>1 DEF vars, mainVars, queueVars, slotVars, asyncVars, frameVars,
          diskVars, kernelVars
  <2>1. /\ TypeOK /\ LockInv /\ CallInv /\ DiskCallInv /\ CpuInv
        /\ QueueInv /\ DeviceInv /\ HaltInv
    BY Zenon DEF IInv
  <2>2. TypeOK' /\ LockInv'
    BY <2>1 DEF TypeOK, LockInv
  <2>3. CallInv' /\ DiskCallInv'
    BY Zenon, <2>1 DEF CallInv, DiskCallInv, Blocked
  <2>4. CpuInv' /\ DeviceInv'
    BY Zenon, <2>1 DEF CpuInv, DeviceInv, Requesting
  <2>5. QueueInv' /\ HaltInv'
    BY Zenon, <2>1 DEF QueueInv, HaltInv, OpCalled, WorkerDone
  <2> QED BY Zenon, <2>2, <2>3, <2>4, <2>5 DEF IInv
<1>2. CASE Next
  BY Zenon, <1>1, <1>2, SubmitStep, TickStep, DefaultLoopEntryStep,
     DefaultLoopPostStep,
     CallbackWrapperStep, HaltStartStep, HaltDoneStep, CloseCallbackStep,
     RdlLockStep, RdlSendStep, RdlReturnStep, JsReturnStep, RequestStep,
     WorkerLoopEntryStep, EnterStep, SleepStep, WakeStep, KernelReturnStep,
     KRunStep, KIdleStep
     DEF Next, Idle
<1> QED BY Zenon, <1>1, <1>2

\* The inductive invariant holds for any number of kernel threads, operations
\* and block requests.
THEOREM Inductive == Spec => []IInv
<1>1. QED BY InitInv, NextInv, PTL DEF Spec

\* Types; in particular no semaphore of a stack frame is ever posted twice.
THEOREM TypeCorrect == Spec => []TypeOK
BY Inductive, PTL DEF IInv

\* run_on_default_loop: every wake-up and every post of default_loop_entry meets
\* a thread that is still blocked in the frame pointed to.
THEOREM CallSafety == Spec => []CallReachesItsFrame
<1>1. IInv => CallReachesItsFrame
  <2> SUFFICES ASSUME IInv PROVE CallReachesItsFrame
    BY Zenon
  <2>1. LockInv /\ CallInv
    BY Zenon DEF IInv
  <2>2. pend \in BOOLEAN /\ minfo \in Threads \cup {NoThread}
    BY Zenon DEF IInv, TypeOK
  <2>3. \A t \in Threads : Blocked(t) => lock = t /\ t # NoThread
    BY Zenon, <2>1, ThreadsAssumption DEF LockInv, Blocked
  <2>4. \A t \in Threads : Blocked(t) => ((pend /\ data = t) # (minfo = t))
    BY Zenon, <2>1, <2>2, <2>3 DEF CallInv
  <2> QED BY Zenon, <2>1, <2>4 DEF CallInv, CallReachesItsFrame
<1> QED BY <1>1, Inductive, PTL

\* callback_wrapper and js_request_entry: an answer of the disk reaches the call
\* it belongs to and no other.
THEOREM AnswerSafety == Spec => []AnswerReachesItsRequest
<1>1. IInv => AnswerReachesItsRequest
  BY Zenon DEF IInv, TypeOK, DiskCallInv, CpuInv, AnswerReachesItsRequest
<1> QED BY <1>1, Inductive, PTL

\* queue.js over worker.cc: operations call back in order, each once.
THEOREM OrderSafety == Spec => []ServedInOrder
<1>1. IInv => ServedInOrder
  BY DEF IInv, TypeOK, QueueInv, ServedInOrder
<1> QED BY <1>1, Inductive, PTL

\* haltKernelSync, called by a client that is done, never blocks on a thread
\* that needs the main loop, and closes a handle that nobody uses any more.
THEOREM HaltSafety == Spec => []HaltIsSafe
<1>1. IInv => HaltIsSafe
  <2> SUFFICES ASSUME IInv, main = "halting" \/ handle # "open"
               PROVE  /\ ~pend /\ ~wpend /\ armed = {}
                      /\ \A t \in Threads :
                           /\ pc[t] \in {"idle", "kernel", "wait"}
                           /\ Blocked(t) => minfo = t
    BY Zenon DEF HaltIsSafe
  <2> USE ThreadsAssumption DEF Threads
  <2>0. TypeOK /\ CallInv /\ DiskCallInv /\ CpuInv /\ QueueInv /\ HaltInv
    BY Zenon DEF IInv
  <2>1. Len(served) = Len(subs) /\ attached = 0
    BY Zenon, <2>0 DEF HaltInv, TypeOK
  <2>2. ~wpend /\ WorkerDone
    BY <2>0, <2>1 DEF QueueInv, TypeOK
  <2>3. \A k \in KThreads : pc[k] \in {"idle", "kernel"}
    <3>1. \A t \in Threads : Requesting(t) => attached > 0
      BY Zenon, <2>0 DEF CpuInv
    <3>2. ~(attached > 0)
      BY <2>1
    <3>3. \A k \in KThreads : ~Requesting(k)
      BY Zenon, <3>1, <3>2
    <3>4. \A k \in KThreads : pc[k] \in {"idle", "kernel"} \/ Requesting(k)
      BY Zenon, <2>0 DEF CpuInv
    <3> QED BY Zenon, <3>3, <3>4
  <2>4. ~pend
    BY Zenon, <2>0, <2>2, <2>3 DEF CallInv, Blocked, WorkerDone, OpCalled
  <2>5. armed = {}
    <3> SUFFICES ASSUME NEW call \in armed PROVE FALSE
      BY Zenon
    <3>1. call[1] \in Threads
      BY Zenon, <2>0 DEF TypeOK
    <3> QED BY Zenon, <2>0, <2>2, <2>3, <3>1 DEF DiskCallInv, WorkerDone, OpCalled
  <2>6. \A t \in Threads : pc[t] \in {"idle", "kernel", "wait"}
    BY Zenon, <2>2, <2>3 DEF WorkerDone, OpCalled
  <2> QED BY Zenon, <2>0, <2>2, <2>4, <2>5, <2>6 DEF CallInv
<1> QED BY <1>1, Inductive, PTL

\* A completion that runs on the main thread is that of the operation taken
\* last, and nothing has been posted to the worker since.
LEMMA OpCallbackFacts ==
  ASSUME IInv, DefaultLoopEntry, fn[data] = "op"
  PROVE  /\ OpCallback(cur) /\ cur = taken /\ Len(served) + 1 = taken
         /\ ~wpend /\ ~threw /\ subs[taken] # "throws"
<1> USE ThreadsAssumption DEF IInv, Threads
<1>1. pend /\ OpCallback(cur)
  BY Zenon DEF DefaultLoopEntry
<1>2. data \in Threads /\ Blocked(data)
  BY Zenon, <1>1 DEF CallInv
<1>3. data = Worker /\ ~WorkerDone
  BY Zenon, <1>1, <1>2 DEF CpuInv, Requesting, Blocked, WorkerDone, OpCalled
<1> QED BY Zenon, <1>1, <1>3 DEF QueueInv, TypeOK

\* run_on_worker_loop never overwrites an operation the worker has not read, and
\* never posts while one is executing that has not called back.
THEOREM SlotSafety == Spec => SlotNotOverwritten
<1> DEFINE Kept == slot' # slot =>
                     ~wpend /\ (pc[Worker] = "idle" \/ CalledBack(cur)')
<1>1. ASSUME IInv, Tick PROVE Kept
  <2>1. WorkerDone /\ ~wpend
    BY Zenon, <1>1 DEF IInv, Tick, QueueInv
  <2>2. served' = served /\ cur' = cur
    BY Zenon, <1>1 DEF Tick
  <2>3. OpCalled => CalledBack(cur)'
    BY Zenon, <1>1, <2>2 DEF IInv, QueueInv, CalledBack
  <2> QED BY Zenon, <2>1, <2>3 DEF WorkerDone
<1>2. ASSUME IInv, DefaultLoopEntry PROVE Kept
  <2>1. CASE fn[data] = "op"
    <3>1. ~wpend /\ served' = Append(served, cur) /\ cur' = cur
      BY <1>2, <2>1, OpCallbackFacts, Zenon DEF OpCallback, DefaultLoopEntry
    <3>2. served \in Seq(Nat) /\ cur \in Nat
      BY Zenon, <1>2 DEF IInv, TypeOK
    <3>3. Len(served) + 1 \in DOMAIN served' /\ served'[Len(served) + 1] = cur'
      BY <3>1, <3>2
    <3> QED BY Zenon, <3>1, <3>3 DEF CalledBack
  <2>2. CASE fn[data] # "op"
    BY Zenon, <1>2, <2>2 DEF DefaultLoopEntry, slotVars
  <2> QED BY Zenon, <2>1, <2>2
<1>3. IInv /\ [Next]_vars => [Kept]_vars
  BY <1>1, <1>2, Zenon
     DEF Next, Submit, DefaultLoopPost, CallbackWrapper, HaltStart, HaltDone,
         CloseCallback, RdlLock, RdlSend, RdlReturn, JsReturn, Request,
         WorkerLoopEntry, Enter, Sleep, Wake, KernelReturn, KRun, KIdle, Idle,
         slotVars, vars
<1> QED BY <1>3, Inductive, PTL DEF Spec, SlotNotOverwritten

\* Every step of the threads is a step of the abstract operation queue or leaves
\* its variables alone.
THEOREM Refinement == Spec => Abstract!SafetySpec
<1>1. Init => Abstract!Init
  BY Zenon DEF Init, Abstract!Init
<1>2. ASSUME IInv, Tick PROVE Abstract!Wedge \/ UNCHANGED Abstract!opVars
  <2>1. Len(served) = taken /\ ~threw /\ taken < Len(subs)
    BY <1>2 DEF IInv, QueueInv, Tick, TypeOK
  <2>2. UNCHANGED <<subs, served>>
    BY Zenon, <1>2 DEF Tick
  <2>3. CASE subs[taken + 1] = "throws"
    <3>1. threw'
      BY <1>2, <2>1, <2>3 DEF Tick, Process
    <3> QED BY Zenon, <2>1, <2>2, <2>3, <3>1 DEF Abstract!Wedge
  <2>4. CASE subs[taken + 1] # "throws"
    BY Zenon, <1>2, <2>1, <2>2, <2>4 DEF Tick, Process, Abstract!opVars
  <2> QED BY Zenon, <2>3, <2>4
<1>3. ASSUME IInv, DefaultLoopEntry
      PROVE  Abstract!Serve \/ UNCHANGED Abstract!opVars
  <2>1. CASE fn[data] = "op"
    <3>1. threw' \in BOOLEAN
      BY Zenon, <1>3, DefaultLoopEntryStep DEF IInv, TypeOK
    <3>2. served' = Append(served, Len(served) + 1) /\ subs' = subs
      BY <1>3, <2>1, OpCallbackFacts, Zenon DEF OpCallback, DefaultLoopEntry
    <3>3. /\ ~threw /\ Len(served) < Len(subs)
          /\ subs[Len(served) + 1] # "throws"
      BY <1>3, <2>1, OpCallbackFacts DEF IInv, QueueInv, TypeOK
    <3> QED BY Zenon, <3>1, <3>2, <3>3 DEF Abstract!Serve
  <2>2. CASE fn[data] # "op"
    BY Zenon, <1>3, <2>2 DEF DefaultLoopEntry, Abstract!opVars
  <2> QED BY Zenon, <2>1, <2>2
<1>4. ASSUME NEW kind \in Kinds, Submit(kind) PROVE Abstract!Push(kind)
  BY Zenon, <1>4 DEF Submit, Abstract!Push
<1>5. IInv /\ [Next]_vars => [Abstract!Next]_(Abstract!opVars)
  BY <1>2, <1>3, <1>4, Zenon
     DEF Next, DefaultLoopPost, CallbackWrapper, HaltStart, HaltDone,
         CloseCallback, RdlLock, RdlSend, RdlReturn, JsReturn, Request,
         WorkerLoopEntry, Enter, Sleep, Wake, KernelReturn, KRun, KIdle, Idle,
         queueVars, vars, Abstract!Next, Abstract!opVars
<1> QED BY <1>1, <1>5, Inductive, PTL DEF Spec, Abstract!SafetySpec

=============================================================================
