----------------------------- MODULE BlkService -----------------------------
(***************************************************************************)
(* What the block device of a disk promises the block layer: the requests  *)
(* queued to it are served one by one in the order they were queued, each  *)
(* once and each as a whole, and every request served is then completed.   *)
(* Nothing is said of rings, indexes, notifications or interrupts.         *)
(***************************************************************************)
EXTENDS Naturals, Sequences

CONSTANTS
  Reqs,      \* the requests (tags) of the block layer
  Kinds,     \* what a request may ask for: pairs of an operation and a sector
  Capacity   \* sectors of the disk

VARIABLES
  queue,  \* the requests queued, oldest first
  phase,  \* "free", "queued" or "served", per request
  rq,     \* what each request asks for
  disk,   \* sector -> the request that wrote it last, or 0
  mem     \* what the data buffer of each request holds

serviceVars == <<queue, phase, rq, disk, mem>>

NoRequest == [op |-> "read", sector |-> 0]

Init ==
  /\ queue = <<>>
  /\ phase = [r \in Reqs |-> "free"]
  /\ rq = [r \in Reqs |-> NoRequest]
  /\ disk = [s \in 0 .. Capacity - 1 |-> 0]
  /\ mem = [r \in Reqs |-> 0]

Submit(r, op, s) ==
  /\ phase[r] = "free"
  /\ queue' = Append(queue, r)
  /\ phase' = [phase EXCEPT ![r] = "queued"]
  /\ rq' = [rq EXCEPT ![r] = [op |-> op, sector |-> s]]
  /\ mem' = [mem EXCEPT ![r] = IF op = "write" THEN r ELSE 0]
  /\ UNCHANGED disk

Serve(r) ==
  /\ queue # <<>> /\ r = Head(queue)
  /\ queue' = Tail(queue)
  /\ phase' = [phase EXCEPT ![r] = "served"]
  /\ \/ /\ rq[r].op = "read"
        /\ mem' = [mem EXCEPT ![r] = disk[rq[r].sector]]
        /\ UNCHANGED disk
     \/ /\ rq[r].op = "write"
        /\ disk' = [disk EXCEPT ![rq[r].sector] = mem[r]]
        /\ UNCHANGED mem
  /\ UNCHANGED rq

\* The block layer has what it asked for, and uses the request again.
Complete(r) ==
  /\ phase[r] = "served"
  /\ phase' = [phase EXCEPT ![r] = "free"]
  /\ rq' = [rq EXCEPT ![r] = NoRequest]
  /\ mem' = [mem EXCEPT ![r] = 0]
  /\ UNCHANGED <<queue, disk>>

Next ==
  \E r \in Reqs :
    \/ \E k \in Kinds : Submit(r, k[1], k[2])
    \/ Serve(r) \/ Complete(r)

Spec == Init /\ [][Next]_serviceVars
=============================================================================
