------------------------------- MODULE Bridge -------------------------------
(***************************************************************************)
(* The threads of node-lkl and the hand-offs between them.                 *)
(*                                                                         *)
(*  - The main thread runs JavaScript and the default libuv loop.  It owns *)
(*    the operation queue (lib/queue.js), posts an operation to the worker *)
(*    through a single slot (src/worker.cc), and runs the functions other  *)
(*    threads ask it to run (default_loop_entry of src/async.cc).          *)
(*  - The worker thread executes one operation at a time inside LKL and    *)
(*    runs its completion callback on the main thread.                     *)
(*  - LKL kernel threads (writeback, kblockd) issue block requests of      *)
(*    their own.                                                           *)
(*                                                                         *)
(* A block request (js_request_entry of src/disk.cc) is served by          *)
(* JavaScript: the requesting thread has the main thread call the disk,    *)
(* then waits for the disk's answer, all along owning the LKL CPU.         *)
(* Stack frames are modelled by the thread that owns them: handle->data =  *)
(* t is a pointer to the call_info_t in the run_on_default_loop frame of   *)
(* t, and a semaphore inside a frame is indexed by its thread.             *)
(***************************************************************************)
EXTENDS Naturals, Sequences

CONSTANTS
  Worker,     \* the thread of worker_thread_start
  KThreads,   \* the LKL kernel threads that do block I/O on their own
  NoThread,   \* a null frame pointer / no owner
  MaxOps,     \* bound: operations submitted, clock_settime included
  MaxReq,     \* bound: JavaScript calls after which a thread requests no more
  MayThrow    \* whether user callbacks and queued methods may throw

Threads == KThreads \cup {Worker}

ASSUME ThreadsAssumption == Worker \notin KThreads /\ NoThread \notin Threads
ASSUME BoundsAssumption == MaxOps \in Nat \ {0} /\ MaxReq \in Nat
ASSUME ThrowAssumption == MayThrow \in BOOLEAN

VARIABLES
  main,     \* what the main thread does: "run" JavaScript, or "halting"
  minfo,    \* default_loop_entry's `info`: the frame being served, if any
  subs,     \* kinds of the operations pushed on the queue, in order
  taken,    \* how many of them the queue has handed to its worker function
  running,  \* async.queue's number of running workers
  threw,    \* history: an exception went through the queue's worker function
  served,   \* history: the operations called back, in order
  slot,     \* worker_info: number of the operation posted last
  wpend,    \* worker_async has a pending wake-up
  cur,      \* the args the worker thread runs do_xxx with
  lock,     \* owner of the mutex of run_on_default_loop
  data,     \* async->data
  pend,     \* async has a pending wake-up
  handle,   \* state of the async handle: "open", "closing", "freed"
  pc,       \* where each thread is
  fn,       \* what each thread last asked, or asks, the main thread to run
  sem,      \* info.sem of each thread's run_on_default_loop frame
  reqno,    \* number of the current JavaScript disk call of each thread
  jsSem,    \* js_sem of each thread's disk call frame
  armed,    \* disk callbacks whose data has not been deleted yet
  cpu,      \* owner of the LKL CPU
  attached, \* number of virtio block devices present in the kernel
  kernel    \* "up" or "halted"

mainVars   == <<main, minfo>>
queueVars  == <<subs, taken, running, threw, served>>
slotVars   == <<slot, wpend>>
asyncVars  == <<lock, data, pend, handle>>
frameVars  == <<pc, fn, sem>>
diskVars   == <<reqno, jsSem, armed>>
kernelVars == <<cpu, attached, kernel>>
vars == <<mainVars, queueVars, slotVars, cur, asyncVars, frameVars, diskVars,
          kernelVars>>

Kinds == {"syscall", "disk_add", "disk_remove", "throws"}

\* After startKernelSync: the loops run, no disk, and clock_settime is queued.
Init ==
  /\ main = "run" /\ minfo = NoThread
  /\ subs = <<"syscall">> /\ taken = 0 /\ running = 0
  /\ threw = FALSE /\ served = <<>>
  /\ slot = 0 /\ wpend = FALSE /\ cur = 0
  /\ lock = NoThread /\ data = NoThread /\ pend = FALSE /\ handle = "open"
  /\ pc = [t \in Threads |-> "idle"]
  /\ fn = [t \in Threads |-> "op"]
  /\ sem = [t \in Threads |-> 0]
  /\ reqno = [t \in Threads |-> 0]
  /\ jsSem = [t \in Threads |-> 0]
  /\ armed = {}
  /\ cpu = NoThread /\ attached = 0 /\ kernel = "up"

Goto(t, label) == pc' = [pc EXCEPT ![t] = label]

(***************************************************************************)
(* The main thread: the operation queue.                                   *)
(***************************************************************************)
\* The application calls an API function: queue.addOperation.
Submit(kind) ==
  /\ main = "run" /\ minfo = NoThread /\ kernel = "up"
  /\ Len(subs) < MaxOps
  /\ kind = "throws" => MayThrow
  /\ subs' = Append(subs, kind)
  /\ UNCHANGED <<mainVars, taken, running, threw, served, slotVars, cur,
                 asyncVars, frameVars, diskVars, kernelVars>>

\* Mutant: the wake-up is only sent when the worker is not inside do_xxx.
RunOnWorkerLoopIfIdle(op) == slot' = op /\ wpend' = (pc[Worker] = "idle")

RunOnWorkerLoop(op) == slot' = op /\ wpend' = TRUE

\* Mutant: the newest task is taken instead of the oldest.
ProcessNewest ==
  IF taken = Len(subs)
  THEN running' = 0 /\ UNCHANGED <<taken, threw, slotVars>>
  ELSE /\ taken' = taken + 1
       /\ running' = 1
       /\ IF subs[Len(subs)] = "throws"
          THEN threw' = TRUE /\ UNCHANGED slotVars
          ELSE RunOnWorkerLoop(Len(subs)) /\ UNCHANGED threw

\* async.queue's process() when no worker runs: start the next operation.  A
\* method that throws (umount of an unknown mountpoint, a missing argument)
\* never reaches run_on_worker_loop and never calls the queue's callback.
Process ==
  IF taken = Len(subs)
  THEN running' = 0 /\ UNCHANGED <<taken, threw, slotVars>>
  ELSE /\ taken' = taken + 1
       /\ running' = 1
       /\ IF subs[taken + 1] = "throws"
          THEN threw' = TRUE /\ UNCHANGED slotVars
          ELSE RunOnWorkerLoop(taken + 1) /\ UNCHANGED threw

\* Mutant: no limit on the number of running operations.
TickUnlimited ==
  /\ main = "run" /\ minfo = NoThread
  /\ taken < Len(subs)
  /\ Process
  /\ UNCHANGED <<mainVars, subs, served, cur, asyncVars, frameVars, diskVars,
                 kernelVars>>

\* The setImmediate(process) of a push: it starts nothing while one is running.
Tick ==
  /\ main = "run" /\ minfo = NoThread
  /\ running = 0 /\ taken < Len(subs)
  /\ Process
  /\ UNCHANGED <<mainVars, subs, served, cur, asyncVars, frameVars, diskVars,
                 kernelVars>>

(***************************************************************************)
(* The main thread: calls from the other threads.                          *)
(***************************************************************************)
\* The completion callback of an operation: the user's callback, then the
\* queue's, which runs process() at once.  If the user's callback throws (and
\* the process survives it) the queue's is never called.
OpCallback(op) ==
  /\ served' = Append(served, op)
  /\ \/ Process
     \/ MayThrow /\ threw' = TRUE /\ UNCHANGED <<taken, running, slotVars>>

\* default_loop_entry up to the return of info->fn(info->args).
DefaultLoopEntry ==
  /\ main = "run" /\ minfo = NoThread
  /\ pend /\ handle = "open"
  /\ pend' = FALSE
  /\ minfo' = data
  /\ \/ /\ fn[data] = "op"
        /\ OpCallback(cur)
        /\ UNCHANGED armed
     \/ /\ fn[data] # "op"
        /\ armed' = armed \cup {<<data, reqno[data]>>}
        /\ UNCHANGED <<taken, running, threw, served, slotVars>>
  /\ UNCHANGED <<main, subs, cur, lock, data, handle, frameVars, reqno, jsSem,
                 kernelVars>>

\* The end of default_loop_entry: uv_sem_post(&info->sem).
DefaultLoopPost ==
  /\ main = "run" /\ minfo # NoThread
  /\ sem' = [sem EXCEPT ![minfo] = @ + 1]
  /\ minfo' = NoThread
  /\ UNCHANGED <<main, queueVars, slotVars, cur, asyncVars, pc, fn, diskVars,
                 kernelVars>>

\* Mutant: the callback's data is not deleted.
CallbackWrapperKeepsData(t, n) ==
  /\ main = "run" /\ handle = "open"
  /\ <<t, n>> \in armed
  /\ jsSem' = [jsSem EXCEPT ![t] = @ + 1]
  /\ UNCHANGED <<mainVars, queueVars, slotVars, cur, asyncVars, frameVars,
                 reqno, armed, kernelVars>>

\* The disk calls the callback it was given for call n of thread t, possibly
\* from within the call itself.  callback_wrapper deletes the callback's data
\* first, so calling it again does nothing; then get_capacity_done or
\* request_done posts js_sem.  It returns at once when the handle is closing.
CallbackWrapper(t, n) ==
  /\ main = "run" /\ handle = "open"
  /\ <<t, n>> \in armed
  /\ armed' = armed \ {<<t, n>>}
  /\ jsSem' = [jsSem EXCEPT ![t] = @ + 1]
  /\ UNCHANGED <<mainVars, queueVars, slotVars, cur, asyncVars, frameVars,
                 reqno, kernelVars>>

(***************************************************************************)
(* The main thread: haltKernelSync, which blocks in lkl_sys_halt until the *)
(* LKL CPU is free and then closes the async handle.                       *)
(***************************************************************************)
CalledBack(op) == \E i \in DOMAIN served : served[i] = op

\* What the application knows before it halts: it has used the library, each
\* of its operations (clock_settime, the first, is not one) has called back,
\* and every disk is removed.
ClientMayHalt ==
  /\ Len(subs) > 1
  /\ \A op \in 2 .. Len(subs) : CalledBack(op)
  /\ attached = 0

\* Mutant: the application halts whenever it likes.
HaltStartAnyTime ==
  /\ main = "run" /\ kernel = "up"
  /\ main' = "halting"
  /\ UNCHANGED <<minfo, queueVars, slotVars, cur, asyncVars, frameVars,
                 diskVars, kernelVars>>

HaltStart ==
  /\ main = "run" /\ kernel = "up"
  /\ ClientMayHalt
  /\ main' = "halting"
  /\ UNCHANGED <<minfo, queueVars, slotVars, cur, asyncVars, frameVars,
                 diskVars, kernelVars>>

HaltDone ==
  /\ main = "halting" /\ cpu = NoThread
  /\ main' = "run"
  /\ kernel' = "halted"
  /\ handle' = "closing"
  /\ UNCHANGED <<minfo, queueVars, slotVars, cur, lock, data, pend, frameVars,
                 diskVars, cpu, attached>>

\* The close callback of close_async: delete handle.
CloseCallback ==
  /\ main = "run" /\ minfo = NoThread
  /\ handle = "closing"
  /\ handle' = "freed"
  /\ UNCHANGED <<mainVars, queueVars, slotVars, cur, lock, data, pend,
                 frameVars, diskVars, kernelVars>>

(***************************************************************************)
(* run_on_default_loop, called by thread t with fn[t].                     *)
(***************************************************************************)
\* Mutant: run_on_default_loop without its mutex.
RdlNoLock(t) ==
  /\ pc[t] = "lock"
  /\ lock' = t
  /\ data' = t
  /\ Goto(t, "send")
  /\ UNCHANGED <<mainVars, queueVars, slotVars, cur, pend, handle, fn, sem,
                 diskVars, kernelVars>>

RdlLock(t) ==
  /\ pc[t] = "lock"
  /\ lock = NoThread
  /\ lock' = t
  /\ data' = t
  /\ Goto(t, "send")
  /\ UNCHANGED <<mainVars, queueVars, slotVars, cur, pend, handle, fn, sem,
                 diskVars, kernelVars>>

RdlSend(t) ==
  /\ pc[t] = "send"
  /\ pend' = TRUE
  /\ Goto(t, "wait")
  /\ UNCHANGED <<mainVars, queueVars, slotVars, cur, lock, data, handle, fn,
                 sem, diskVars, kernelVars>>

\* The frame is popped: a completion ends the worker's do_xxx, a disk call
\* goes on to wait for the answer.
RdlReturn(t) ==
  /\ pc[t] = "wait"
  /\ sem[t] > 0
  /\ sem' = [sem EXCEPT ![t] = 0]
  /\ lock' = NoThread
  /\ Goto(t, IF fn[t] = "op" THEN "idle" ELSE "js")
  /\ UNCHANGED <<mainVars, queueVars, slotVars, cur, data, pend, handle, fn,
                 diskVars, kernelVars>>

(***************************************************************************)
(* js_get_capacity_entry and js_request_entry of thread t.                 *)
(***************************************************************************)
JsCall(t, f) ==
  /\ reqno' = [reqno EXCEPT ![t] = @ + 1]
  /\ fn' = [fn EXCEPT ![t] = f]
  /\ Goto(t, "lock")

\* The completion of an operation: run_on_default_loop(xxx_callback, &s).
Complete ==
  /\ fn' = [fn EXCEPT ![Worker] = "op"]
  /\ Goto(Worker, "lock")

\* The answer is there.  A request returns to the kernel code that issued it;
\* a capacity lets lkl_disk_add go on, or fail if it is an error number.
JsReturn(t) ==
  /\ pc[t] = "js"
  /\ jsSem[t] > 0
  /\ jsSem' = [jsSem EXCEPT ![t] = 0]
  /\ \/ fn[t] = "request" /\ Goto(t, "kernel") /\ UNCHANGED fn
     \/ fn[t] = "get_capacity" /\ Goto(t, "enter") /\ UNCHANGED fn
     \/ fn[t] = "get_capacity" /\ Complete
  /\ UNCHANGED <<mainVars, queueVars, slotVars, cur, asyncVars, sem, reqno,
                 armed, kernelVars>>

\* Kernel code running on t notifies the virtio queue: blk_enqueue.
Request(t) ==
  /\ pc[t] = "kernel"
  /\ attached > 0 /\ reqno[t] < MaxReq
  /\ JsCall(t, "request")
  /\ UNCHANGED <<mainVars, queueVars, slotVars, cur, asyncVars, sem, jsSem,
                 armed, kernelVars>>

(***************************************************************************)
(* The worker thread.                                                      *)
(***************************************************************************)
\* Mutant: lkl_disk_remove does not test for an unknown disk.
WorkerLoopEntryNoCheck ==
  /\ pc[Worker] = "idle" /\ wpend
  /\ wpend' = FALSE
  /\ cur' = slot
  /\ \/ subs[slot] = "disk_add" /\ JsCall(Worker, "get_capacity")
     \/ /\ subs[slot] # "disk_add"
        /\ Goto(Worker, "enter")
        /\ UNCHANGED <<fn, reqno>>
  /\ UNCHANGED <<mainVars, queueVars, slot, asyncVars, sem, jsSem, armed,
                 kernelVars>>

\* worker_loop_entry: do_disk_add asks the capacity first, do_disk_remove
\* returns -EINVAL for an id that is not in disks, the rest enters the kernel.
WorkerLoopEntry ==
  /\ pc[Worker] = "idle" /\ wpend
  /\ wpend' = FALSE
  /\ cur' = slot
  /\ \/ subs[slot] = "disk_add" /\ JsCall(Worker, "get_capacity")
     \/ subs[slot] = "disk_remove" /\ Complete /\ UNCHANGED reqno
     \/ /\ subs[slot] = "syscall" \/ (subs[slot] = "disk_remove" /\ attached > 0)
        /\ Goto(Worker, "enter")
        /\ UNCHANGED <<fn, reqno>>
  /\ UNCHANGED <<mainVars, queueVars, slot, asyncVars, sem, jsSem, armed,
                 kernelVars>>

\* lkl_cpu_get of lkl_syscall.  virtio_dev_setup registers the device.
Enter ==
  /\ pc[Worker] = "enter"
  /\ cpu = NoThread
  /\ cpu' = Worker
  /\ attached' = attached + (IF subs[cur] = "disk_add" THEN 1 ELSE 0)
  /\ Goto(Worker, "kernel")
  /\ UNCHANGED <<mainVars, queueVars, slotVars, cur, asyncVars, fn, sem,
                 diskVars, kernel>>

\* The system call sleeps in the kernel: another LKL thread may run.
Sleep ==
  /\ pc[Worker] = "kernel"
  /\ cpu' = NoThread
  /\ Goto(Worker, "sleep")
  /\ UNCHANGED <<mainVars, queueVars, slotVars, cur, asyncVars, fn, sem,
                 diskVars, attached, kernel>>

Wake ==
  /\ pc[Worker] = "sleep"
  /\ cpu = NoThread
  /\ cpu' = Worker
  /\ Goto(Worker, "kernel")
  /\ UNCHANGED <<mainVars, queueVars, slotVars, cur, asyncVars, fn, sem,
                 diskVars, attached, kernel>>

\* The system call returns (lkl_cpu_put).  A failed disk_add and a successful
\* disk_remove leave one device less.
KernelReturn ==
  /\ pc[Worker] = "kernel"
  /\ cpu' = NoThread
  /\ \/ attached' = attached
     \/ subs[cur] \in {"disk_add", "disk_remove"} /\ attached' = attached - 1
  /\ Complete
  /\ UNCHANGED <<mainVars, queueVars, slotVars, cur, asyncVars, sem, diskVars,
                 kernel>>

(***************************************************************************)
(* An LKL kernel thread.                                                   *)
(***************************************************************************)
\* It gets the CPU and issues a request.
KRun(k) ==
  /\ pc[k] = "idle"
  /\ kernel = "up" /\ cpu = NoThread
  /\ attached > 0 /\ reqno[k] < MaxReq
  /\ cpu' = k
  /\ JsCall(k, "request")
  /\ UNCHANGED <<mainVars, queueVars, slotVars, cur, asyncVars, sem, jsSem,
                 armed, attached, kernel>>

KIdle(k) ==
  /\ pc[k] = "kernel"
  /\ cpu' = NoThread
  /\ Goto(k, "idle")
  /\ UNCHANGED <<mainVars, queueVars, slotVars, cur, asyncVars, fn, sem,
                 diskVars, attached, kernel>>

\* Nothing to do until the application does something.
Idle ==
  /\ main = "run" /\ minfo = NoThread /\ ~pend /\ ~wpend
  /\ running = 0 => taken = Len(subs)
  /\ \A t \in Threads : pc[t] = "idle"
  /\ UNCHANGED vars

Next ==
  \/ \E kind \in Kinds : Submit(kind)
  \/ Tick \/ DefaultLoopEntry \/ DefaultLoopPost
  \/ \E call \in armed : CallbackWrapper(call[1], call[2])
  \/ HaltStart \/ HaltDone \/ CloseCallback
  \/ \E t \in Threads :
       RdlLock(t) \/ RdlSend(t) \/ RdlReturn(t) \/ JsReturn(t) \/ Request(t)
  \/ WorkerLoopEntry \/ Enter \/ Sleep \/ Wake \/ KernelReturn
  \/ \E k \in KThreads : KRun(k) \/ KIdle(k)
  \/ Idle

Spec == Init /\ [][Next]_vars

(***************************************************************************)
(* Fairness: every thread goes on running (weak fairness on each of its    *)
(* steps), the main loop handles its events, the disk answers what it was  *)
(* asked, and a system call that may return does so in the end.            *)
(***************************************************************************)
Fairness ==
  /\ WF_vars(Tick) /\ WF_vars(DefaultLoopEntry) /\ WF_vars(DefaultLoopPost)
  /\ WF_vars(\E call \in armed : CallbackWrapper(call[1], call[2]))
  /\ WF_vars(HaltDone)
  /\ \A t \in Threads :
       /\ WF_vars(RdlLock(t)) /\ WF_vars(RdlSend(t)) /\ WF_vars(RdlReturn(t))
       /\ WF_vars(JsReturn(t))
  /\ WF_vars(WorkerLoopEntry) /\ WF_vars(Enter) /\ WF_vars(Wake)
  /\ SF_vars(KernelReturn)
  /\ \A k \in KThreads : WF_vars(KIdle(k))

FairSpec == Spec /\ Fairness

(***************************************************************************)
(* Properties.                                                             *)
(***************************************************************************)
Labels == {"idle", "enter", "kernel", "sleep", "lock", "send", "wait", "js"}
Functions == {"op", "request", "get_capacity"}

\* Every variable has its type; the two kinds of semaphores are never posted
\* twice (uv_sem_post in default_loop_entry, request_done, get_capacity_done).
TypeOK ==
  /\ main \in {"run", "halting"} /\ minfo \in Threads \cup {NoThread}
  /\ subs \in Seq(Kinds) /\ taken \in Nat /\ running \in {0, 1}
  /\ threw \in BOOLEAN /\ served \in Seq(Nat)
  /\ slot \in Nat /\ wpend \in BOOLEAN /\ cur \in Nat
  /\ lock \in Threads \cup {NoThread} /\ data \in Threads \cup {NoThread}
  /\ pend \in BOOLEAN /\ handle \in {"open", "closing", "freed"}
  /\ pc \in [Threads -> Labels] /\ fn \in [Threads -> Functions]
  /\ sem \in [Threads -> {0, 1}]
  /\ reqno \in [Threads -> Nat] /\ jsSem \in [Threads -> {0, 1}]
  /\ armed \in SUBSET (Threads \X Nat)
  /\ cpu \in Threads \cup {NoThread} /\ attached \in Nat
  /\ kernel \in {"up", "halted"}

\* The thread is blocked in uv_sem_wait(&info.sem), not posted yet.
Blocked(t) == pc[t] = "wait" /\ sem[t] = 0

\* A wake-up of the async handle finds in handle->data the frame of a thread
\* that is still blocked in run_on_default_loop, and so does the post that
\* ends default_loop_entry: no call is coalesced away, run twice, or posted to
\* a frame that is gone ("the first function waits for all the others").
CallReachesItsFrame ==
  /\ pend => data \in Threads /\ Blocked(data)
  /\ minfo # NoThread => Blocked(minfo)
  /\ \A t \in Threads : Blocked(t) => ((pend /\ data = t) # (minfo = t))

\* A disk callback that can still fire belongs to the disk call its thread is
\* in, whose js_sem has not been posted; a thread that waits for an answer has
\* one coming or posted.  So no answer is lost, doubled, or applied to a later
\* request, although the disk keeps the callbacks as long as it likes.
AnswerReachesItsRequest ==
  /\ \A call \in armed :
       LET t == call[1] IN
       /\ call[2] = reqno[t] /\ jsSem[t] = 0
       /\ fn[t] # "op" /\ pc[t] \in {"wait", "js"}
  /\ \A t \in Threads :
       pc[t] = "js" /\ jsSem[t] = 0 => <<t, reqno[t]>> \in armed

\* Operations are called back one at a time, in submission order, each once:
\* the single slot of run_on_worker_loop loses and repeats none.
ServedInOrder ==
  /\ Len(served) <= Len(subs)
  /\ \A i \in DOMAIN served : served[i] = i

\* While haltKernelSync blocks the main thread, and after it closed the async
\* handle, no other thread needs the main thread: halting does not wait for a
\* CPU whose owner waits for the main loop, and nothing uses the dead handle.
HaltIsSafe ==
  main = "halting" \/ handle # "open" =>
    /\ ~pend /\ ~wpend /\ armed = {}
    /\ \A t \in Threads :
         pc[t] \in {"idle", "kernel", "wait"} /\ (Blocked(t) => minfo = t)

\* A posted operation is never overwritten before the worker has read it, and
\* never while the worker runs one that has not called back.
SlotNotOverwritten ==
  [][slot' # slot => ~wpend /\ (pc[Worker] = "idle" \/ CalledBack(cur)')]_vars

\* Whatever was submitted is called back in the end, unless an exception went
\* through the queue before: no lost wake-up and no starvation between the
\* queue, the worker, the kernel threads and the main loop.
EveryOpServed ==
  \A n \in 1 .. MaxOps : n <= Len(subs) ~> (n <= Len(served) \/ threw)

\* The threads and hand-offs implement the abstract operation queue.
Abstract == INSTANCE OpQueue WITH stuck <- threw
ImplementsOpQueue == Abstract!Spec

(***************************************************************************)
(* The inductive invariant behind the safety properties.                   *)
(***************************************************************************)
\* t is inside js_request_entry, its CPU kept.
Requesting(t) == fn[t] = "request" /\ pc[t] \in {"lock", "send", "wait", "js"}

\* The worker has no operation, or one whose callback has already run.
OpCalled == fn[Worker] = "op" /\ pc[Worker] = "wait" /\ ~pend
WorkerDone == pc[Worker] = "idle" \/ OpCalled

LockInv == \A t \in Threads : lock = t <=> pc[t] \in {"send", "wait"}

CallInv ==
  /\ pend => data = lock /\ lock \in Threads /\ Blocked(lock)
  /\ pend => minfo = NoThread
  /\ minfo # NoThread => minfo = lock /\ Blocked(minfo)
  /\ \A t \in Threads : pc[t] \in {"send", "wait"} => data = t
  /\ \A t \in Threads : Blocked(t) => pend \/ minfo = t
  /\ \A t \in Threads : sem[t] = 1 => pc[t] = "wait"

DiskCallInv ==
  /\ \A call \in armed :
       LET t == call[1] IN
       /\ call[2] = reqno[t] /\ jsSem[t] = 0 /\ fn[t] # "op"
       /\ pc[t] = "js" \/ (pc[t] = "wait" /\ ~pend)
  /\ \A t \in Threads :
       jsSem[t] = 1 =>
         fn[t] # "op" /\ (pc[t] = "js" \/ (pc[t] = "wait" /\ ~pend))
  /\ \A t \in Threads :
       fn[t] # "op" /\ jsSem[t] = 0 /\ (pc[t] = "js" \/ (pc[t] = "wait" /\ ~pend))
         => <<t, reqno[t]>> \in armed

CpuInv ==
  /\ \A t \in Threads : cpu = t <=> pc[t] = "kernel" \/ Requesting(t)
  /\ \A t \in Threads : Requesting(t) => attached > 0
  /\ \A t \in Threads : pc[t] = "js" => fn[t] # "op"
  /\ \A k \in KThreads : pc[k] \in {"idle", "kernel"} \/ Requesting(k)

QueueInv ==
  /\ Len(served) <= taken /\ taken <= Len(subs)
  /\ \A i \in DOMAIN served : served[i] = i
  /\ running = 0 => Len(served) = taken /\ WorkerDone /\ ~wpend
  /\ threw => running = 1 /\ WorkerDone /\ ~wpend
  /\ wpend => WorkerDone /\ slot = taken
  /\ ~WorkerDone => cur = taken
  /\ wpend \/ ~WorkerDone => Len(served) + 1 = taken /\ subs[taken] # "throws"
  /\ OpCalled => cur \in DOMAIN served

DeviceInv ==
  /\ pc[Worker] \in {"lock", "send", "wait", "js"} /\ fn[Worker] = "get_capacity"
       => subs[cur] = "disk_add"
  /\ pc[Worker] = "enter" /\ subs[cur] = "disk_remove" => attached > 0
  /\ /\ pc[Worker] \in {"kernel", "sleep"} \/ Requesting(Worker)
     /\ subs[cur] \in {"disk_add", "disk_remove"}
     => attached > 0

HaltInv ==
  /\ handle = "open" <=> kernel = "up"
  /\ main = "halting" \/ kernel = "halted" =>
       Len(served) = Len(subs) /\ attached = 0

IInv ==
  /\ TypeOK /\ LockInv /\ CallInv /\ DiskCallInv /\ CpuInv
  /\ QueueInv /\ DeviceInv /\ HaltInv
=============================================================================
