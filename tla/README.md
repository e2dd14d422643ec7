# Verification of node-lkl

TLA+ specifications of node-lkl (NodeJS bindings to the Linux Kernel Library,
LKL), checked with TLC on small instances; the safety properties of all but the
streams are also proved with TLAPS for every value of the constants. Paths below
are relative to the repository; `linux/` stands for `src/linux/`. PROJECT.json lists the runs, the mutations
each property detects, the source lines each definition models, the hazards of
the code, the findings and the theorems.

## The system

node-lkl runs a Linux kernel inside a node process and serves its block devices
from JavaScript. Three kinds of threads take part:

* the **main thread** runs JavaScript and the default libuv loop. Every call of
  `lkl.fs`, `lkl.mount`, ... is an operation pushed on one queue of concurrency 1
  (`lib/queue.js`); the queue posts one operation at a time to the worker through
  a single slot (`src/worker.cc`);
* the **worker thread** executes the operation in LKL and runs its callback on
  the main thread through `run_on_default_loop` (`src/async.cc`);
* **LKL kernel threads** (writeback, kblockd) issue block requests of their own.

A block request goes through the virtio ring (`linux/tools/lkl/lib/virtio.c`,
`virtio_blk.c`) to `js_request_entry` (`src/disk.cc`), which asks the main thread
to call the JavaScript disk and blocks until the disk has answered. The thread
keeps the LKL CPU (`linux/arch/lkl/kernel/cpu.c`) while it is blocked. So all
three kinds of threads wait for each other, through stack frames, single slots
and wake-ups that coalesce.

### Inventory

| Part | Code | Module | State |
| --- | --- | --- | --- |
| Operation queue | `lib/queue.js` | `Bridge`, `OpQueue` | modelled, proved |
| Main-loop bridge | `src/async.cc` | `Bridge` | modelled, proved |
| Worker thread | `src/worker.cc` | `Bridge` | modelled, proved |
| Kernel start and halt | `src/node_lkl.cc`, `lib/lkl.js` | `Bridge` | partly: not twice |
| Block request path | `lib/disk.js`, `src/disk.cc`, `virtio_blk.c` | `Bridge`, `VirtioBlk` | partly: rejected requests left out |
| Virtio ring, block driver | `linux/tools/lkl/lib/virtio.c`, `linux/drivers/virtio/virtio_ring.c`, `linux/drivers/block/virtio_blk.c` | `VirtioBlk`, `BlkService` | modelled, proved |
| Virtio MMIO registers | `virtio.c`, `linux/drivers/virtio/virtio_mmio.c` | `VirtioBlk` | partly: notify and interrupt |
| LKL CPU | `linux/arch/lkl/kernel/cpu.c` | `LklCpu`, `Threads` | modelled, proved |
| Interrupts | `linux/arch/lkl/kernel/irq.c` | `LklCpu`, `Disks` (their numbers) | modelled, proved |
| Tasks and host threads | `linux/arch/lkl/kernel/threads.c`, `syscalls.c`, `cpu.c`, `setup.c` | `Threads` | modelled, proved |
| Disks and mounts | `src/disk.cc`, `lib/lkl.js`, `linux/tools/lkl/lib/fs.c`, `virtio.c`, `iomem.c`, `linux/arch/lkl/kernel/irq.c` | `Disks` | partly: the mount of sysfs left out; proved |
| fs calls of several system calls | `lib/fs.js`, `lib/binding.js` | `FileCalls` | partly: readFile, writeFile, appendFile, truncate, lchmod, lchown; proved |
| fs calls of one system call | `lib/fs.js`, `lib/binding.js` | `Bridge` | one operation each |
| readdir | `lib/readdir.js`, `src/node_lkl.cc` | `Readdir` | modelled, proved |
| Streams | `lib/fs.js` 1702-2019 | `Streams` | partly: not cork, SyncWriteStream |
| System call encoding | `lib/syscall.js`, `src/node_lkl.cc` | `FileCalls` | st_size only |
| attachDisk, mountPartition | `lib/utils.js` | - | sequences of the operations of `Disks` |
| Host operations | `posix-host.c`, `nt-host.c` | - | the atomic steps of `LklCpu` and `Threads` |
| Network, debugging, Linux itself | the rest of `linux/` | - | not used, or third-party |

## Modules

### Bridge, OpQueue

`Bridge` has the threads and every hand-off between them. A stack frame is
modelled by the thread it belongs to: `data = t` is `async->data` pointing at the
`call_info_t` of thread `t`, `sem[t]` is the semaphore in that frame and `jsSem[t]`
that of `js_request_entry`. `pc[t]` says where the thread is: `"idle"`, `"enter"`
(waiting for the LKL CPU), `"kernel"`, `"sleep"`, the three places of
`run_on_default_loop` (`"lock"`, `"send"`, `"wait"`) and `"js"` (waiting for the
disk's answer).

| Action | Code |
| --- | --- |
| `Submit`, `Tick` (`Process`) | `queue.addOperation`; async's deferred `process` and the queue's worker function |
| `DefaultLoopEntry`, `DefaultLoopPost` | `default_loop_entry`: the function it runs, and the post |
| `CallbackWrapper` | the disk answers: `callback_wrapper`, then `request_done` or `get_capacity_done` |
| `RdlLock`, `RdlSend`, `RdlReturn` | `run_on_default_loop` |
| `Request`, `JsReturn` | `blk_enqueue` to `js_request_entry`, and the return |
| `WorkerLoopEntry`, `Enter`, `Sleep`, `Wake`, `KernelReturn` | the worker's operation in LKL |
| `KRun`, `KIdle` | an LKL kernel thread is scheduled and stops |
| `HaltStart`, `HaltDone`, `CloseCallback` | `haltKernelSync` |

A client may halt when each of its operations has called back and every disk is
removed (`ClientMayHalt`), as the tests and the examples do. Exceptions in a user
callback and in a queued method are part of the model (`MayThrow`).

`OpQueue` is what the queue promises: operations are served in order, one at a
time, until an exception wedges it. `Bridge` implements it
(`ImplementsOpQueue`), with `threw` for `stuck`.

### LklCpu

The one CPU of LKL: `lkl_cpu_get` and `lkl_cpu_put` with nested gets, interrupts
triggered by any host thread, the hand-over to the task scheduled next, and the
shutdown through `shutdown_gate`. A step is what happens under `cpu.lock`, one
atomic operation on the gate or on the interrupt words, or a semaphore operation;
`cpu.lock` is a variable because `set_irq_pending` writes two words under it while
the owner reads them without. `Idle` stands for the idle thread and the kernel
threads that run before it. Memory is sequentially consistent: the words are
written with `__sync` operations. What a handler of an interrupt triggers itself
is not modelled.

### Threads

The tasks of the kernel and the host threads that run them. A task is named after
its thread: each kernel thread and the idle task have their own, and a host thread
gets a task with its first system call, which it begins on `host0`. The
module has the whole of `__switch_to`: which task is `current`, who owns the CPU, the
semaphore (`sem`, or `idle_sem` when `idle_pending`) that lets the next thread in, and
`tail`, the switch that `finish_task_switch` still has to finish. A step goes from one
semaphore to the next, so a thread that was switched away from may stay behind in
`__switch_to` while others run; `lkl_cpu_get` and `lkl_cpu_put` are one step each,
`LklCpu` has their inside.

| Action | Code |
| --- | --- |
| `SwitchTo`, `SwitchedBack` | `__switch_to` before and after its `sem_down` |
| `Get`, `EnterTask`, `TaskEntered`, `NewHostTask` | `lkl_syscall`, `switch_to_host_task`, `new_host_task` |
| `DelHostTask` | `del_host_task`, the destructor of a thread's task |
| `Put`, `PutResched`, `TriggerIrq` | `lkl_cpu_put` without and with `need_resched()`; an interrupt on a free CPU |
| `KernelThread`, `ThreadBootstrap`, `DoExit`, `FreeThreadStack`, `Joined` | the life of a kernel thread, to `kill_thread` |
| `IdleSchedule`, `ArchCpuIdle`, `ArchCpuIdleIrq`, `IdleWoken`, `IdleShutdown` | the idle loop |
| `Reboot`, `ShutdownSeen`, `ThreadsCleanup` | `lkl_sys_halt` |
| `Block`, `Yield`, `WakeUp` | what kernel code does with tasks: `schedule()` with the task no longer runnable, `yield()`, `try_to_wake_up()` |

Three things are assumed and listed as hazards or in the guard of `Reboot`:
`kernel_thread` does not sleep while it runs on `host0`; `do_exit` in `del_host_task`
does not sleep before its last `schedule()`; and no other system call is under way at
a halt (a call that put the CPU after the shutdown would leave the idle task
waiting for ever; clients of `Bridge` halt when every operation has called back).

### VirtioBlk, BlkService

The ring of a disk with both its sides. `desc`, `avail` and `used` are the shared
memory, `vq` the driver's state, `q` the device's; `used.event` and `avail.event` are the
two event indexes that suppress notifications and interrupts. One thread at a time
is in this code, because the device runs on the thread that notifies it and keeps
the LKL CPU; `pc` is where it is. What makes it hard is nesting: the interrupt of a
completion runs inside the device's loop (`ProcessOne`, `Interrupt`, `GetBuf`,
`EnableCb`), or, when a full ring was met with interrupts disabled, at the unlock
(`QueueRqFull`, `Kick`, `QueueRqBusy`). A slot that has been read holds `None`, so that
a second use of it would show.

`BlkService` is what they promise together: a queue of requests, each served once,
whole and in order, and completed after it was served. `VirtioBlk` implements it
(`ImplementsBlkService`), the queue being what waits in the ring, in the run of the
hardware queue and in the block layer.

Requests that the disk rejects are left out. Requests of other types than read
and write do not occur: flush is not offered, and the identification is read
through an attribute of sysfs that the library's interface does not reach.

### Disks

`lkl.diskAdd`, `diskRemove`, `mount`, `umount` over five tables: `disks` of
`src/disk.cc`, `mounts` of `lib/lkl.js`, the iomem regions, the interrupts, and the
kernel's devices, nodes and mounts. An action is one operation with its callback, which is
justified by `ServedInOrder` of `Bridge`. Errors are actions of their own:
`KernelMayFail` enables those of allocations, probes and system calls inside an
operation (`UmountPartly`, `MountNoMnt`, `DiskRemoveFailed`, `DiskAddNoDevice`,
`DiskAddNoDriver`, and in `DiskAddFailed` a failed allocation). A probe that fails is
not reported: `diskAdd` succeeds and the disk has no block device. Device
numbers are allocated lowest first and freed as `virtblk_remove` does.

### FileCalls

`readFile`, `writeFile`, `appendFile`, `truncate`, `lchmod` and `lchown`, by path or by
a descriptor of the application, running concurrently over one file and one
descriptor table. One action per system call, with the whole callback that handles its answer.
Reads and writes may be short, system calls may fail, descriptor numbers are
reused. An appendFile on a descriptor (`"appendFd"`) writes at the offset of the
descriptor, over what the file has there; one by path opens the file with O_APPEND.
When `Buffer.concat` throws on more than `kMaxLength` bytes, the queue stops, or for a
descriptor of the application, where it runs after `process.nextTick`, goes on. Bytes are named after who wrote them, so that a property can tell whose
data a call returned.

### Streams

ReadStream and WriteStream over the queue, one descriptor table and the pool that
all read streams share. The system call (`Serve*`, the worker thread) and its
callback (`Deliver*`, the main thread) are two actions, so the application can
close or destroy a stream in between. A handler is an operator on a world (stream
object, queue, pool), so that the listeners of 'open' run in order within one
step, as `emit` does. Node's Readable and Writable are external: one `_read` or
`_write` at a time, a buffer whose several chunks go to `_writev`, 'end' and
'finish'. `mem` holds the bytes of each pool, so that a chunk overwritten after it
was pushed shows. An exception in a callback ends the process.

A second close before the open has returned, by `close`, by `destroy` or by
'finish' (end and then destroy), makes the code close the descriptor
twice, the second time perhaps that of another stream; the properties except
it (`Careful`). A short read of a stream with `start`, or a short write, loses
bytes silently; `ReadsWholeRange` and `WritesInOrder` except them (`cut`).

### Readdir

openat, the loop of getdents64, close and decoding, for concurrent calls on a
directory whose names come and go between the system calls (`Create`, `Remove`). `dir`
gives each name its place in the order in which the filesystem lists them; a
descriptor remembers the place it is past. A name that is created takes any free place,
its old one or another, because filesystems differ: ext4 goes by a hash of the name,
vfat takes a free slot, btrfs an index after all others. So a name that is
removed and created again during a readdir may be listed twice, and
`ListsStableNames` allows that for such names only (`again`); it does not allow
losing a name that stayed, or listing one that never was there. getdents64 returns as
many of the next names as it likes and as fit. `CallNoPath` is a call whose path is
neither a string nor a Buffer; its callback runs at once. `CallbackMayThrow` lets the application's callback throw: it
is then called a second time, because the call is inside the `try` block of the
decoding (`lib/readdir.js:75`); `readdir` checks callbacks that do not throw.

## Runs

| Run | Shows |
| --- | --- |
| `bridge` | no call, answer or operation is lost, doubled or delivered to a dead frame (`CallReachesItsFrame`, `AnswerReachesItsRequest`, `ServedInOrder`, `SlotNotOverwritten`); halting is safe (`HaltIsSafe`); every operation calls back or the queue was wedged (`EveryOpServed`); `Bridge` implements `OpQueue` |
| `cpu` | one owner, no lost wake-up, no lost interrupt, no use after the shutdown freed the lock; every get and every halt returns |
| `threads` | the CPU is handed to exactly one thread, the one its owner names, and who finds the idle task current finds its thread pending (`OneThreadRuns`); each switch is finished once, for the task that was left (`SwitchFinished`); no semaphore is freed under a thread, and nothing runs at the cleanup (`NoFreedSemaphore`); every call, exit and halt leaves the kernel (`EveryCallLeaves`) |
| `threads_host0` (violation) | with four host threads, two of which are in their first system call at once, one can put a CPU that it does not own |
| `virtio_blk` | free list and chains share and lose no descriptor (`DescriptorsConserved`); when the thread leaves the driver nothing waits for a notification (`NothingForgotten`); `VirtioBlk` implements `BlkService`; every request completes (`EveryRequestCompletes`) |
| `disks` | `mounts`, the kernel's mounts, `/dev` and `/mnt` agree, and each disk of the kernel holds one iomem region and one interrupt and can be removed, while no inner system call fails; no mount point comes to name another disk, even after failures halfway |
| `files` | one callback, no foreign or leaked descriptor, reads that are a snapshot of consecutive reads, writes that are complete; every call calls back, unless an exception stopped the queue or the call was a readFile that read more than `kMaxLength` bytes |
| `files_fstat_error` (violation) | a failing fstat makes readFile call back twice |
| `files_big` (violation) | a file over 4 GiB is read as a short file |
| `streams_read` | chunks stay intact in the shared pool, the whole range is read, each descriptor is closed once and 'close' is the last event |
| `streams_write` | data is written in order and is all there at 'finish'; descriptors are closed; a stream that is read to its end, or ended, emits 'close' or 'error' |
| `readdir` | one callback; the descriptor closed; every lasting name listed, none that never was there, and none twice unless it was created again; an end although the directory changes a few times |

Each module has a type invariant, `TypeOK`. In `bridge` it is an invariant of its
own; elsewhere it is the first conjunct of the invariant on the structure it
describes (`MutualExclusion`, `OneThreadRuns`, `DescriptorsConserved`,
`NoRegionLeak`, `OwnDescriptor`, `DescriptorForTheCall`).

### Bounds

`bridge`: one kernel thread competes with the worker for the CPU and the main loop;
four operations allow `clock_settime`, add, a system call and remove, or one that
throws; two requests per thread allow a late answer to meet the next request. For
more threads and operations the safety properties are proved.

`cpu`: three calling threads, for two sleepers at a halt, an interrupting one, and
one operation each; what more threads and operations do to the safety
properties is proved. `MAX_THREADS` = 10 and 2^32 = 16 keep their order relative to
the number of threads. Without a bound on operations a thread may be starved: a woken sleeper
competes with newcomers (`cpu.c:114`), so `EveryGetReturns` speaks of finitely many
operations.

`threads`: two host threads, both to make their first call over `host0`, one of
which can wait in a call while the other runs, exits or halts; two kernel threads,
one that makes the other, so that one exits and is freed by the next. `MaxWork` = 6
bounds system calls, waits, yields and wake-ups of kernel threads together; what
ends them (a kernel thread that waits again, the wake-up of a system call) is not
counted. `threads_host0` has four host threads.

`virtio_blk`: 8 descriptors hold two chains of three and leave two, so that the third
request finds the ring full and the free list is permuted; indexes modulo 16 wrap
after sixteen requests, tags are reused without a bound. All requests are for one
sector, so that their order shows. `Capacity` is at most `SectorMod` (2^32 sectors).
For other rings and more requests the safety properties and the refinement are proved.

`disks`: three disks, so that a device number is freed and used again beside
another disk; two partition numbers of which one exists; two regions, so that the
table is full, and three interrupts, so that these run out after one is lost.

`files`: two concurrent calls and a descriptor of the application; files of 0, 1
and 3 bytes, reads and writes of 2, the largest buffer 4 and 32 bits scaled to 6:
empty files, files of more than one chunk, one that grows past the buffer read so
far. fstat does not fail here; `files_fstat_error` is about that.

`streams_read`: two streams, files of 2 bytes, `highWaterMark` 2 to 4 and
`kMinPoolSpace` 2: reads that leave room in the pool and that do not, ranges that
end before, at and after the end of the file, a given descriptor, one stream
without autoClose. `streams_write`: one stream of each kind, two writes of 2 bytes,
of which one waits in the buffer; a third would reach `_writev`,
which throws. `readdir`: two calls; three names (a dot, one that cannot be decoded,
another one) over four places, so that a name can come back before or after where
a call is; two names per buffer, so that a call needs several; two changes
(`MaxChanges`), so that a name can be removed and created again during a call.
`Places` and `MaxChanges` also bound the directory a call has to get through: under
btrfs, names created for ever after all others would keep a readdir going, so
`EveryCallReturns` speaks of finitely many. The invariants are proved for any number
of changes and places.

Symmetry is used for read streams, in a safety run only. `CHECK_DEADLOCK FALSE` is
set for `Disks`, whose queue stops when a method throws, and for `Threads`, which ends
when the kernel is halted.

### Fairness

`Bridge`: weak fairness on each step of each thread, for the host schedules them
and the main loop polls; on the disk's answer, which a disk owes; strong fairness
on the return of a system call, which can return whenever its thread has the CPU
but may first sleep and issue requests. Nothing is assumed of submitting, halting
or kernel threads starting to run. `LklCpu`: weak fairness on each step of a
thread, strong on the end of a system call, which may disable interrupts now and
again. `Threads`: weak fairness on the steps of each thread, of the idle task and on
interrupts; strong on an interrupt that wakes a waiting system call, which a device
owes, and on one that reschedules, for the tick sets `need_resched()` when a
runnable task has waited long enough. `VirtioBlk`: weak fairness on the one thread's
steps, the disk's answer among them. `FileCalls`, `Readdir`: the queue serves
(`EveryOpServed`). `Streams`: the same, callbacks run, and the consumer of a read
stream goes on reading; nothing is assumed of writing, ending, closing.

## Proofs

The theorems hold for every value of the constants that satisfies the named
assumptions of the modules, which say no more than that bounds are numbers, that
the names of threads, tasks and calls are different, and what is mentioned below.
In each proof module the properties are first strengthened to an invariant
`IInv` that is inductive, which TLC checked on small instances before it was
proved; there is one lemma per action, `NextInv` joins them, and each property is a
theorem of its own.

| Module | Theorems | State |
| --- | --- | --- |
| `BridgeProofs` | `Inductive`; `TypeCorrect`, in particular no semaphore is posted twice; `CallSafety`, `AnswerSafety`, `OrderSafety`, `HaltSafety` | the invariants of `bridge` |
| | `SlotSafety` | the action property `SlotNotOverwritten` |
| | `Refinement` | every behaviour of `Spec` is one of `OpQueue`'s safety part |
| `LklCpuProofs` | `Inductive`; `Exclusion`, `WakeupSafety`, `IrqSafety`, `CleanupSafety` | the invariants of `cpu` |
| `ThreadsProofs`, on the lemmas of `ThreadsSteps` | `Inductive`; `OneThread`, `SwitchSafety`, `SemaphoreSafety` | the invariants of `threads`, while no two threads are in `new_host_task` at once |
| | `NewcomerAlone`, `NodeLklThreads` | with two host threads they never are, so the invariants hold without a condition |
| `VirtioBlkProofs` | `Inductive`; `DescriptorSafety`, `NoneForgotten` | the invariants of `virtio_blk` |
| | `Refinement` | `ImplementsBlkService`, on a disk of at most 2^32 sectors (`Capacity <= SectorMod`) |
| `DisksProofs` | `Inductive`; `MountTablesAgree`, `DisksKeepTheirResources`, `UmountReachesItsDisk` | the invariants of `disks` |
| `FileCallsProofs` | `Inductive`; `CalledBackOnce`, `DescriptorsOwned`, `ReadFileSnapshot`, `WriteAllComplete` | the invariants of `files`, when fstat reports no error |
| `ReaddirProofs` | `Inductive`; `DescriptorClosed`, `LastingNamesListed` | the invariants of `readdir`, whether callbacks throw or not |
| | `CalledBackOnce` | `CallbackOnce`, when the callback does not throw |

### Why the invariants are needed

**Bridge.** `IInv` adds: who holds the mutex of
`run_on_default_loop` (`LockInv`); a pending wake-up carries the frame of the
thread that holds it (`CallInv`); which disk callbacks are armed (`DiskCallInv`);
who owns the LKL CPU and that a block request needs an attached disk (`CpuInv`);
how the slot, the worker and the queue's counters relate (`QueueInv`); and what
the operation at hand does to the number of disks (`DeviceInv`), from which
`HaltInv` follows: when the client may halt no thread can be in a request.

**LklCpu.** `OwnerInv` says where the owner is and how `cpu.count` counts its gets;
`IrqInv` who delivers a marked interrupt (the lock's holder, the owner on its way
through `run_irqs`, or `irqs_pending`). The shutdown is a counting argument: the
gate is the number of threads between its two updates, plus `MAX_THREADS` once a
thread halts (`HaltInv`), and the sleepers and posts of the semaphore together are
the threads asleep (`SleepInv`). So the idle thread, which waits for the gate to
fall to `MAX_THREADS`, frees the lock when nobody is left. It needs fewer than
`MAX_THREADS` threads (`GateAssumption`), as the code does.

**Threads.** `TokenInv` follows the CPU as one token: it is free, or its owner runs
kernel code, or exactly one semaphore is up, the current task's, and the owner waits
there. The rest says for each kind of task where its thread may be when its state is
what it is (`CurrentInv`, `HostInv`, `Host0Inv`, `KThreadInv`, `IdleInv`, `JoinInv`) and
that after a reboot only kernel threads and the idle task run (`HaltInv`). The
attempt to prove `Host0Inv` led to the finding below: two threads in
`new_host_task` wait on one semaphore. `OneNewcomer` excludes it; `PutInv` shows
that two host threads, node-lkl's main thread and worker, cannot get there.

**VirtioBlk.** `RingInv` counts: three descriptors for every entry between the indexes
of the driver and of the device, and the free ones, are all there are; so no ring is
ever full of entries, and the slots of different entries differ although the indexes
wrap (`WindowSlots`, which needs that the ring's size divides 2^16: `RingAssumption`).
`ChainInv` says which three descriptors a request holds, `FreeInv` that some list of
`num_free` descriptors follows `free_head` and has all the others; that list is a
witness, so that its shape need not be computed, and `FreeAtIs` shows that following
`desc.next` gives it. `RqInv`: a request is in one chain, or once in the block layer's
lists. `PcInv` says for each place of the thread what is left to do: the entry after
the last one the device has seen is the one it asked to be notified of, the last
entry served always interrupts, and an interrupt met with interrupts disabled is
marked until the unlock. From it follow `NothingForgotten`, and that `QueueRq` finds
the device waiting for the first entry of its run (`KickNeeded`). For the refinement,
`Waiting` grows at its end by `virtqueue_add` (`WaitingGrows`) and shrinks at its front
when the device serves (`WaitingShrinks`). That it needs `Capacity <= SectorMod` is the
code's limit, not the proof's (see the findings).

**Disks.** `NoSharedDeviceNumber` holds after failures as well; what `MountsAgree`
and `NoRegionLeak` say of the tables holds until one (`failed`). `FreshInv`: no table knows an id not given yet; `IndexInv`: the index of a
mounted device is not free, although its disk may be gone; `DirInv`: what is mounted
has its directory. `IndexLeft` shows that device numbers do not run out before ids.

**FileCalls.** `RequestInv`: a call has one request under way at most, and the
request tells where in `readFile` or `writeAll` the call is and what its context
holds (`RequestOK`). On that rest the data: the buffer of a readFile is what the file
begins with, up to the descriptor's offset (`ReadInv`); the bytes of an appendFile in
the file are its first `pos`, in order and once, wherever others append
(`AppendInv`); a writeFile alone has written its first `pos` bytes (`WriteInv`). The
hypothesis is that fstat reports no error (`~StatMayFail`), without which
`CallbackOnce` is false (`files_fstat_error`).

**Readdir.** `ListedTo`: the result has every lasting name whose place is at most the
one that the descriptor has reached; what it has and is still in the directory lies
at or before that place, unless it was created again; only names created again come
twice in it, and none that was never there is in it. The third part is what makes
it inductive: the next buffer begins after the place, so it adds no name twice.
`Parse` proves what the loop of parseDirent64 computes, by the smallest number of
turns after which it would be wrong (`Smallest`), which takes the place of an
induction rule.

### Only model-checked

Liveness and the fairness part of the refinements are outside the prover's logic:
`EveryOpServed`, `EveryGetReturns`, `EveryCallLeaves`, `EveryCallReturns`,
`EveryRequestCompletes`, `EveryStreamCloses`, and `ImplementsOpQueue` beyond its safety
part.

The invariants of `Streams` (`OwnDescriptor`, `ChunksIntact`, `ReadsWholeRange`,
`WritesInOrder`) are not proved: its handlers are functions on a record of the whole
state, and opening a stream folds over the writes buffered before (`EmitOpen`), so
what a handler returns for every number of writes is an induction over data.

## Findings

* `lib/binding.js:76`: fstat calls back twice on an error (`files_fstat_error`).
* `src/node_lkl.cc:185`: st_size is cut to 32 bits (`files_big`).
* `linux/arch/lkl/kernel/threads.c:137`: a thread in its first system call waits on the
  semaphore of `host0`, and another one that comes while it waits overwrites its tid;
  the wrong one can be let in and put a CPU it does not own (`threads_host0`).
  node-lkl makes system calls from two threads and does not get there
  (`NodeLklThreads`); a program with more threads could.

Met while modelling, with no run of their own:

* `src/disk.cc:63`: an `Error` from `getCapacity` becomes 0, success, so the disk is
  added (`GetCapacity` of `Disks`), where `lkl_host.h:63` asks for a negative value;
  `src/disk.cc:86` does the same to block requests.
* `linux/tools/lkl/lib/virtio.c:545`: a `diskAdd` that finds the table of iomem
  regions full keeps the interrupt it took (`DiskAddFailed` of `Disks`); after enough
  of them no disk can be added, even when others have been removed.
* `lib/fs.js:1983`: `_writev` reaches an unimplemented binding and throws inside the
  callback of an earlier write (`Writev_` of `Streams`).
* `linux/tools/lkl/lib/virtio_blk.c:54`: the sector is cut to 32 bits (`Sector` of
  `VirtioBlk`): with `Capacity` above `SectorMod`, `ImplementsBlkService` is violated by a
  write to sector `SectorMod`, which changes sector 0.

## Not modelled

Block requests that the disk rejects, cork, realpath, flag and argument parsing,
the registers of the virtio probe, starting or halting the kernel twice, the
encoding of system calls besides st_size, host operations, and Linux itself. `attachDisk` and `mountPartition` run operations of
`Disks` in one of the orders that module allows; the order of the disposers is
Bluebird's. realpath resolves a path with no state that outlives the call. The
`*Sync` functions cannot work (`lib/syscall.js` needs a callback) and are left out.

## Plan

1. Proofs: `OwnDescriptor`, `ChunksIntact` and `WritesInOrder` of `Streams`.
2. realpath against a reference definition; rejected block requests.
