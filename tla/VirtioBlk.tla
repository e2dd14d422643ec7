------------------------------ MODULE VirtioBlk ------------------------------
(***************************************************************************)
(* The virtio block device of a disk: the kernel's driver (virtio_blk.c,   *)
(* virtio_ring.c), the device on the host's side (tools/lkl/lib/virtio.c,  *)
(* virtio_blk.c) and the ring of descriptors they share, with its event    *)
(* indexes.  Every request is a chain of three descriptors: the header,    *)
(* one data segment (VIRTIO_BLK_F_SEG_MAX is not offered) and the status.  *)
(*                                                                         *)
(* The device runs on the thread that notifies it, which keeps the LKL CPU *)
(* while JavaScript serves a request, so one thread at a time is in here.  *)
(* What remains is nesting: the interrupt of a completion runs inside the  *)
(* device's loop when interrupts are enabled, and when the driver unlocks  *)
(* if the loop was entered with interrupts disabled.  pc is where that one *)
(* thread is, ret where virtio_process_queue returns to.                   *)
(*                                                                         *)
(* A slot of a ring that has been read, and a buffer that was unmapped,    *)
(* hold None from then on: nothing may use them before they are set again, *)
(* and states that differ only in what is left there are the same.         *)
(***************************************************************************)
EXTENDS Integers, Sequences, Functions, FiniteSetsExt

CONSTANTS
  Reqs,       \* the requests (tags) of the block layer
  None,       \* no request
  Num,        \* descriptors of the ring
  IdxMod,     \* 2^16: width of the ring indexes
  Capacity,   \* sectors of the disk
  Kinds,      \* what requests ask for: pairs of an operation and a sector
  SectorMod   \* 2^32: what le32toh leaves of a sector number

Descs == 0 .. Num - 1
Idx == 0 .. IdxMod - 1
Sectors == 0 .. Capacity - 1
Ops == {"read", "write"}
Parts == <<"header", "data", "status">>
ChainLen == Len(Parts)

ASSUME ReqsAssumption ==
  /\ Reqs \subseteq Nat \ {0} /\ None \notin Reqs
  /\ None \notin [req : Reqs, part : Range(Parts)]
ASSUME RingAssumption ==
  /\ Num \in Nat /\ IdxMod \in Nat /\ Num >= ChainLen
  /\ IdxMod >= Num /\ IdxMod % Num = 0
ASSUME DiskAssumption ==
  /\ Capacity \in Nat \ {0} /\ SectorMod \in Nat \ {0}
  /\ Kinds \subseteq Ops \X Sectors

VARIABLES
  desc,          \* the descriptors: next, cont (VRING_DESC_F_NEXT), buf
  avail,         \* ring and idx of what is available, event: vring_used_event
  used,          \* ring and idx of what is used, event: vring_avail_event
  vq,            \* the driver's struct vring_virtqueue
  q,             \* the device's struct virtio_queue, and int_status
  irqs_enabled,  \* irqs_enabled of irq.c
  pending,       \* the device's interrupt is marked in irq_status
  todo,          \* requests waiting for the hardware queue to run
  list,          \* rq_list: those of the run under way
  stopped,       \* BLK_MQ_S_STOPPED
  req_done,      \* of virtblk_done
  pc, ret,
  phase,         \* "free", "queued" or "served", per request
  rq,            \* out_hdr of each request
  disk,          \* what the JavaScript disk stores
  mem            \* what the data buffer of each request holds

ringVars == <<desc, avail, used>>
blkVars == <<todo, list, stopped>>
dataVars == <<phase, rq, disk, mem>>
irqVars == <<irqs_enabled, pending, req_done>>
vars == <<ringVars, vq, q, irqVars, blkVars, pc, ret, dataVars>>

NoRequest == [op |-> "read", sector |-> 0]

\* After the probe: __vring_new_virtqueue has put every descriptor in the list.
Init ==
  /\ desc = [next |-> [d \in Descs |-> (d + 1) % Num],
             cont |-> [d \in Descs |-> FALSE],
             buf  |-> [d \in Descs |-> None]]
  /\ avail = [ring |-> [i \in Descs |-> None], idx |-> 0, event |-> 0]
  /\ used = [ring |-> [i \in Descs |-> None], idx |-> 0, event |-> 0]
  /\ vq = [free_head |-> 0, num_free |-> Num, data |-> [d \in Descs |-> None],
           last_used_idx |-> 0, num_added |-> 0]
  /\ q = [last_avail_idx |-> 0, last_used_idx_signaled |-> 0,
          int_status |-> FALSE]
  /\ irqs_enabled = TRUE /\ pending = FALSE /\ req_done = FALSE
  /\ todo = <<>> /\ list = <<>> /\ stopped = FALSE
  /\ pc = "idle" /\ ret = "idle"
  /\ phase = [r \in Reqs |-> "free"]
  /\ rq = [r \in Reqs |-> NoRequest]
  /\ disk = [s \in Sectors |-> 0]
  /\ mem = [r \in Reqs |-> 0]

Inc(i) == (i + 1) % IdxMod

\* Mutant: the comparison without the wrap-around of u16.
NeedEventCompared(event, new, old) == old <= event /\ event < new

vring_need_event(event, new, old) ==
  (new - event - 1) % IdxMod < (new - old) % IdxMod

\* The descriptors that follow each other from d on, as many as a request has.
Three(d) == <<d, desc.next[d], desc.next[desc.next[d]]>>

\* A chain ends at the first descriptor without VRING_DESC_F_NEXT.
Chain(d) ==
  SubSeq(Three(d), 1, Min({i \in 1 .. ChainLen : ~desc.cont[Three(d)[i]]}))

(***************************************************************************)
(* The block layer (block/blk-mq.c): a request is queued, the hardware     *)
(* queue is run with all that waits, unless it is stopped.                 *)
(***************************************************************************)
Submit(r, op, s) ==
  /\ pc = "idle" /\ phase[r] = "free"
  /\ todo' = Append(todo, r)
  /\ phase' = [phase EXCEPT ![r] = "queued"]
  /\ rq' = [rq EXCEPT ![r] = [op |-> op, sector |-> s]]
  /\ mem' = [mem EXCEPT ![r] = IF op = "write" THEN r ELSE 0]
  /\ UNCHANGED <<ringVars, vq, q, irqVars, list, stopped, pc, ret, disk>>

RunHwQueue ==
  /\ pc = "idle" /\ ~stopped /\ todo # <<>>
  /\ list' = todo /\ todo' = <<>>
  /\ pc' = "dispatch"
  /\ UNCHANGED <<ringVars, vq, q, irqVars, stopped, ret, dataVars>>

(***************************************************************************)
(* virtio_queue_rq.                                                        *)
(***************************************************************************)
RingFull == vq.num_free < ChainLen

\* virtqueue_kick_prepare, after `added` more entries were made available.
NeedsKick(added) ==
  LET new == (avail.idx + added) % IdxMod
      old == (avail.idx - vq.num_added) % IdxMod
  IN  vring_need_event(used.event, new, old)

\* virtqueue_add succeeds; the last request of the run kicks the device, once
\* the lock is released.
QueueRq(r) ==
  LET c == Three(vq.free_head)
      last == Len(list) = 1
  IN
  /\ pc = "dispatch" /\ r = Head(list) /\ ~RingFull
  /\ desc' = [desc EXCEPT
       !.cont = [d \in Descs |-> IF d \in Range(c) THEN d # c[ChainLen] ELSE @[d]],
       !.buf = [d \in Descs |-> IF d \in Range(c)
                  THEN [req |-> r, part |-> Parts[CHOOSE i \in 1 .. ChainLen : c[i] = d]]
                  ELSE @[d]]]
  /\ avail' = [avail EXCEPT !.ring[avail.idx % Num] = vq.free_head, !.idx = Inc(@)]
  /\ vq' = [vq EXCEPT !.num_free = @ - ChainLen,
                      !.free_head = desc.next[c[ChainLen]],
                      !.data[vq.free_head] = r,
                      !.num_added = IF last THEN 0 ELSE @ + 1]
  /\ list' = Tail(list)
  /\ pc' = IF ~last THEN "dispatch" ELSE IF NeedsKick(1) THEN "process" ELSE "idle"
  /\ ret' = "idle"
  /\ UNCHANGED <<used, q, irqVars, todo, stopped, dataVars>>

\* virtqueue_add fails: it notifies the device, with interrupts disabled.
QueueRqFull ==
  /\ pc = "dispatch" /\ RingFull
  /\ irqs_enabled' = FALSE
  /\ pc' = "process" /\ ret' = "kick"
  /\ UNCHANGED <<ringVars, vq, q, pending, req_done, blkVars, dataVars>>

\* virtqueue_kick of the error path.
Kick ==
  /\ pc = "kick"
  /\ vq' = [vq EXCEPT !.num_added = 0]
  /\ pc' = IF NeedsKick(0) THEN "process" ELSE "stop"
  /\ ret' = "stop"
  /\ UNCHANGED <<ringVars, q, irqVars, blkVars, dataVars>>

\* blk_mq_stop_hw_queue; the request and those after it go back to the front;
\* spin_unlock_irqrestore runs the interrupt that was marked.
QueueRqBusy ==
  /\ pc = "stop"
  /\ stopped' = TRUE
  /\ todo' = list \o todo /\ list' = <<>>
  /\ pc' = IF pending THEN "interrupt" ELSE "idle"
  /\ pending' = FALSE
  /\ irqs_enabled' = ~pending
  /\ UNCHANGED <<ringVars, vq, q, req_done, ret, dataVars>>

(***************************************************************************)
(* The device.                                                             *)
(***************************************************************************)
\* Mutant: sectors counted from 1.
SectorFromOne(s) == (s + 1) % SectorMod

\* blk_enqueue reads the 64-bit sector of the header with le32toh.
Sector(s) == s % SectorMod

\* blk_enqueue and the JavaScript disk: the first and only data buffer is read
\* or written at the sector that the header gives.
BlkEnqueue(b) ==
  LET h == rq[b[1].req]
      s == Sector(h.sector)
  IN
  \/ /\ h.op = "read"
     /\ mem' = [mem EXCEPT ![b[2].req] = disk[s]]
     /\ UNCHANGED disk
  \/ /\ h.op = "write"
     /\ disk' = [disk EXCEPT ![s] = mem[b[2].req]]
     /\ UNCHANGED mem

\* virtio_req_complete: whether the completion that makes used->idx u and
\* last_avail_idx a interrupts.
SendIrq(u, a) ==
  \/ a = avail.idx
  \/ vring_need_event(avail.event, u, q.last_used_idx_signaled)

\* One round of virtio_process_queue's loop: virtio_process_one follows the
\* chain, blk_enqueue serves it, virtio_req_complete publishes the result and
\* may trigger the interrupt, which runs at once or is marked.
ProcessOne ==
  LET head == avail.ring[q.last_avail_idx % Num]
      c == Chain(head)
      bufs == [i \in 1 .. Len(c) |-> desc.buf[c[i]]]
      a == Inc(q.last_avail_idx)
      u == Inc(used.idx)
      send == SendIrq(u, a)
  IN
  /\ pc = "process" /\ q.last_avail_idx # avail.idx
  /\ BlkEnqueue(bufs)
  /\ avail' = [avail EXCEPT !.ring[q.last_avail_idx % Num] = None]
  /\ phase' = [phase EXCEPT ![bufs[1].req] = "served"]
  /\ used' = [used EXCEPT !.ring[used.idx % Num] = head, !.idx = u]
  /\ q' = [last_avail_idx |-> a,
           last_used_idx_signaled |-> IF send THEN u ELSE q.last_used_idx_signaled,
           int_status |-> q.int_status \/ send]
  /\ pending' = (pending \/ (send /\ ~irqs_enabled))
  /\ pc' = IF send /\ irqs_enabled THEN "interrupt" ELSE "event"
  /\ UNCHANGED <<desc, vq, irqs_enabled, req_done, blkVars, ret, rq>>

\* The end of the round: once caught up, the next entry is to be notified.
SetAvailEvent ==
  /\ pc = "event"
  /\ used' = [used EXCEPT !.event =
                 IF q.last_avail_idx = avail.idx THEN avail.idx ELSE @]
  /\ pc' = "process"
  /\ UNCHANGED <<desc, avail, vq, q, irqVars, blkVars, ret, dataVars>>

\* Mutant: the loop starts again when it has caught up.
ReturnToLoop == "process"

ReturnTo == ret

ProcessReturn ==
  /\ pc = "process" /\ q.last_avail_idx = avail.idx
  /\ pc' = ReturnTo
  /\ UNCHANGED <<ringVars, vq, q, irqVars, blkVars, ret, dataVars>>

(***************************************************************************)
(* The interrupt.                                                          *)
(***************************************************************************)
\* The handler returns into the device's loop, or to spin_unlock_irqrestore.
InterruptReturn ==
  /\ pc' = IF irqs_enabled THEN "event" ELSE "idle"
  /\ irqs_enabled' = TRUE

MoreUsed == vq.last_used_idx # used.idx

\* vm_interrupt acknowledges, vring_interrupt looks for work.
Interrupt ==
  /\ pc = "interrupt"
  /\ q' = [q EXCEPT !.int_status = FALSE]
  /\ \/ q.int_status /\ MoreUsed /\ pc' = "done" /\ UNCHANGED irqs_enabled
     \/ ~(q.int_status /\ MoreUsed) /\ InterruptReturn
  /\ UNCHANGED <<ringVars, vq, pending, req_done, blkVars, ret, dataVars>>

\* Mutant: detach_buf forgets the final descriptor of the chain.
FreedShort(c) == Len(c) - 1

Freed(c) == Len(c)

\* virtqueue_get_buf in virtblk_done: the chain returns to the free list and
\* the request is completed; what it held belongs to the block layer again.
GetBuf ==
  LET head == used.ring[vq.last_used_idx % Num]
      r == vq.data[head]
      c == Chain(head)
  IN
  /\ pc = "done" /\ MoreUsed /\ r # None
  /\ desc' = [desc EXCEPT !.next[c[Len(c)]] = vq.free_head,
                 !.buf = [d \in Descs |-> IF d \in Range(c) THEN None ELSE @[d]]]
  /\ used' = [used EXCEPT !.ring[vq.last_used_idx % Num] = None]
  /\ vq' = [vq EXCEPT !.free_head = head, !.num_free = @ + Freed(c),
                      !.data[head] = None, !.last_used_idx = Inc(@)]
  /\ phase' = [phase EXCEPT ![r] = "free"]
  /\ rq' = [rq EXCEPT ![r] = NoRequest]
  /\ mem' = [mem EXCEPT ![r] = 0]
  /\ req_done' = TRUE
  /\ UNCHANGED <<avail, q, irqs_enabled, pending, blkVars, pc, ret, disk>>

\* The end of virtblk_done: virtqueue_enable_cb asks for the next interrupt
\* and finds nothing more, since only this thread could have used a buffer.
EnableCb ==
  /\ pc = "done" /\ ~MoreUsed
  /\ avail' = [avail EXCEPT !.event = vq.last_used_idx]
  /\ stopped' = (stopped /\ ~req_done)
  /\ req_done' = FALSE
  /\ InterruptReturn
  /\ UNCHANGED <<desc, used, vq, q, pending, todo, list, ret, dataVars>>

Step ==
  \/ RunHwQueue \/ (\E r \in Reqs : QueueRq(r)) \/ QueueRqFull \/ Kick
  \/ QueueRqBusy \/ ProcessOne \/ SetAvailEvent \/ ProcessReturn
  \/ Interrupt \/ GetBuf \/ EnableCb

Next ==
  \/ \E r \in Reqs, k \in Kinds : Submit(r, k[1], k[2])
  \/ Step

Spec == Init /\ [][Next]_vars

\* The thread in the driver goes on, the disk answers, and a queue that is not
\* stopped is run.
FairSpec == Spec /\ WF_vars(Step)

(***************************************************************************)
(* Properties.                                                             *)
(***************************************************************************)
\* Every variable has its type.
TypeOK ==
  /\ desc \in [next : [Descs -> Descs], cont : [Descs -> BOOLEAN],
               buf : [Descs -> [req : Reqs, part : Range(Parts)] \cup {None}]]
  /\ avail \in [ring : [Descs -> Descs \cup {None}], idx : Idx, event : Idx]
  /\ used \in [ring : [Descs -> Descs \cup {None}], idx : Idx, event : Idx]
  /\ vq \in [free_head : Descs, num_free : 0 .. Num,
             data : [Descs -> Reqs \cup {None}], last_used_idx : Idx,
             num_added : 0 .. Num]
  /\ q \in [last_avail_idx : Idx, last_used_idx_signaled : Idx,
            int_status : BOOLEAN]
  /\ irqs_enabled \in BOOLEAN /\ pending \in BOOLEAN /\ req_done \in BOOLEAN
  /\ todo \in Seq(Reqs) /\ list \in Seq(Reqs) /\ stopped \in BOOLEAN
  /\ pc \in {"idle", "dispatch", "process", "event", "kick", "stop",
             "interrupt", "done"}
  /\ ret \in {"idle", "kick", "stop"}
  /\ phase \in [Reqs -> {"free", "queued", "served"}]
  /\ rq \in [Reqs -> [op : Ops, sector : Sectors]]
  /\ disk \in [Sectors -> Reqs \cup {0}] /\ mem \in [Reqs -> Reqs \cup {0}]

\* The i-th descriptor of the list that starts at free_head.
FreeAt[i \in 1 .. Num] ==
  IF i = 1 THEN vq.free_head ELSE desc.next[FreeAt[i - 1]]

\* The free list (num_free descriptors from free_head on) and the chains of the
\* requests in the ring share no descriptor and lose none, and each chain holds
\* the three buffers of its own request: virtqueue_add and detach_buf keep the
\* list whole however requests come and go.
DescriptorsConserved ==
  LET free == {FreeAt[i] : i \in 1 .. vq.num_free}
      heads == {d \in Descs : vq.data[d] # None}
      chain(h) == Range(Chain(h))
  IN
  /\ TypeOK
  /\ \A i, j \in 1 .. vq.num_free : FreeAt[i] = FreeAt[j] => i = j
  /\ \A h \in heads :
       /\ chain(h) \cap free = {}
       /\ [i \in 1 .. ChainLen |-> desc.buf[Chain(h)[i]]]
            = [i \in 1 .. ChainLen |-> [req |-> vq.data[h], part |-> Parts[i]]]
       /\ \A g \in heads \ {h} : chain(g) \cap chain(h) = {}
  /\ Descs = free \cup UNION {chain(h) : h \in heads}

\* When the thread has left the driver every request made available has been
\* served, every one served has been completed, no interrupt waits and the
\* queue is not stopped: neither the event indexes nor the stop of a full ring
\* leave anything for which no notification will ever come.
NothingForgotten ==
  pc = "idle" =>
    /\ q.last_avail_idx = avail.idx /\ vq.last_used_idx = used.idx
    /\ vq.num_added = 0 /\ ~pending /\ ~stopped

\* Requests in the ring the device has not served yet, oldest first.
Waiting ==
  LET n == (avail.idx - q.last_avail_idx) % IdxMod
  IN  [i \in 1 .. n |-> vq.data[avail.ring[(q.last_avail_idx + i - 1) % Num]]]

Service == INSTANCE BlkService WITH queue <- Waiting \o list \o todo

\* The driver, the ring and the device together are a disk that serves every
\* request once, as a whole and in the order of the queue, and completes what
\* it has served.
ImplementsBlkService == Service!Spec

\* Every request that is queued is completed, also when the ring was full.
EveryRequestCompletes ==
  \A r \in Reqs : phase[r] = "queued" ~> phase[r] = "free"
=============================================================================
