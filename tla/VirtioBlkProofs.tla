---------------------------- MODULE VirtioBlkProofs ----------------------------
(***************************************************************************)
(* Proofs about VirtioBlk, for any number of requests, any size of the     *)
(* ring and any width of its indexes.  The inductive invariant IInv counts *)
(* what the driver and the device have in the ring, says which descriptors *)
(* each request holds, and what is left to do at each point of the one     *)
(* thread that runs them.                                                  *)
(***************************************************************************)
EXTENDS VirtioBlk, TLAPS

\* Entries of a ring from index a up to index b.
Dist(a, b) == (b - a) % IdxMod

\* Requests made available and not served, served and not completed.
Unserved == Dist(q.last_avail_idx, avail.idx)
Uncompleted == Dist(vq.last_used_idx, used.idx)
Waits(x) == Dist(q.last_avail_idx, x) < Unserved
IsUsed(x) == Dist(vq.last_used_idx, x) < Uncompleted

AvailHead(x) == avail.ring[x % Num]
UsedHead(x) == used.ring[x % Num]

\* h is the head of a chain whose request is in the given phase.
HeadOf(h, p) == h \in Descs /\ vq.data[h] # None /\ phase[vq.data[h]] = p

\* The requests in the rings and the free descriptors are all descriptors, and
\* the entries of each ring are heads of different chains.
RingInv ==
  /\ ChainLen * (Unserved + Uncompleted) + vq.num_free = Num
  /\ \A x \in Idx : Waits(x) => HeadOf(AvailHead(x), "queued")
  /\ \A x \in Idx : IsUsed(x) => HeadOf(UsedHead(x), "served")
  /\ \A x, y \in Idx : Waits(x) /\ Waits(y) /\ AvailHead(x) = AvailHead(y) => x = y
  /\ \A x, y \in Idx : IsUsed(x) /\ IsUsed(y) /\ UsedHead(x) = UsedHead(y) => x = y

Second(h) == desc.next[h]
Third(h) == desc.next[desc.next[h]]
Buffer(r, part) == [req |-> r, part |-> part]

\* A chain is made of three descriptors, for the buffers of its own request.
ChainInv ==
  \A h \in Descs : vq.data[h] # None =>
    /\ desc.cont[h] /\ desc.cont[Second(h)] /\ ~desc.cont[Third(h)]
    /\ desc.buf[h] = Buffer(vq.data[h], "header")
    /\ desc.buf[Second(h)] = Buffer(vq.data[h], "data")
    /\ desc.buf[Third(h)] = Buffer(vq.data[h], "status")

Held(d) == \E h \in Descs : vq.data[h] # None /\ d \in {h, Second(h), Third(h)}

\* f lists the free descriptors: as many as num_free counts, no descriptor
\* twice, none with a buffer, and each descriptor that no chain holds.
FreeList(f) ==
  /\ f \in [1 .. vq.num_free -> Descs]
  /\ vq.num_free > 0 => f[1] = vq.free_head
  /\ \A i \in 1 .. vq.num_free - 1 : f[i + 1] = desc.next[f[i]]
  /\ \A i, j \in 1 .. vq.num_free : f[i] = f[j] => i = j
  /\ \A i \in 1 .. vq.num_free : desc.buf[f[i]] = None
  /\ \A d \in Descs : Held(d) \/ \E i \in 1 .. vq.num_free : f[i] = d

FreeInv == \E f : FreeList(f)

\* The requests that are not in the ring yet.
Queued == list \o todo

\* A request is at one place: in one chain, or once in the block layer's lists.
RqInv ==
  /\ \A g, h \in Descs : vq.data[g] # None /\ vq.data[g] = vq.data[h] => g = h
  /\ \A h \in Descs : vq.data[h] # None => phase[vq.data[h]] # "free"
  /\ \A i \in DOMAIN Queued : phase[Queued[i]] = "queued"
  /\ \A i \in DOMAIN Queued, h \in Descs : vq.data[h] # Queued[i]
  /\ \A i, j \in DOMAIN Queued : Queued[i] = Queued[j] => i = j

\* The device has seen everything and asked to be notified of the next entry.
CaughtUp == Unserved = 0 /\ used.event = avail.idx
Settled == list = <<>> /\ vq.num_added = 0 /\ ~pending

\* What is left to do where the thread is.  An interrupt follows the last entry
\* served, at once or, when interrupts are disabled, marked until the unlock.
PcInv ==
  /\ pc = "idle" =>
       irqs_enabled /\ CaughtUp /\ Uncompleted = 0 /\ Settled /\ ~stopped
  /\ pc = "dispatch" =>
       /\ irqs_enabled /\ ~pending /\ ~stopped /\ list # <<>> /\ Uncompleted = 0
       /\ Unserved = vq.num_added /\ Dist(used.event, avail.idx) = vq.num_added
  /\ pc \in {"process", "event"} =>
       /\ ~stopped
       /\ ret = "idle" => irqs_enabled /\ Settled /\ (Unserved = 0 => Uncompleted = 0)
       /\ ret # "idle" =>
            /\ ~irqs_enabled
            /\ Unserved = 0 => Uncompleted > 0 /\ pending /\ q.int_status
       /\ ret = "stop" => vq.num_added = 0
  /\ pc = "process" /\ Unserved = 0 => used.event = avail.idx
  /\ pc \in {"kick", "stop"} =>
       /\ ~irqs_enabled /\ ~stopped /\ CaughtUp
       /\ Uncompleted > 0 /\ pending /\ q.int_status
       /\ pc = "stop" => vq.num_added = 0
  /\ pc \in {"interrupt", "done"} =>
       /\ Settled
       /\ irqs_enabled => ~stopped /\ ret = "idle"
       /\ ~irqs_enabled => CaughtUp
       /\ pc = "interrupt" => Uncompleted > 0 /\ q.int_status
       /\ pc = "done" => Uncompleted > 0 \/ req_done

IInv == TypeOK /\ RingInv /\ ChainInv /\ FreeInv /\ RqInv /\ PcInv

-----------------------------------------------------------------------------
(***************************************************************************)
(* Numbers: the indexes wrap around, and so do the slots of the rings.     *)
(***************************************************************************)
\* The distance of two indexes, without the modulus.
LEMMA DistIs ==
  ASSUME NEW a \in Idx, NEW b \in Idx
  PROVE  Dist(a, b) = IF a <= b THEN b - a ELSE b - a + IdxMod
<1>1. IdxMod \in Nat /\ IdxMod > 0
  BY RingAssumption DEF ChainLen, Parts
<1> QED BY <1>1 DEF Dist, Idx

\* The next index, without the modulus.
LEMMA IncIs ==
  ASSUME NEW a \in Idx
  PROVE  Inc(a) = IF a = IdxMod - 1 THEN 0 ELSE a + 1
<1>1. IdxMod \in Nat /\ IdxMod > 0
  BY RingAssumption DEF ChainLen, Parts
<1> QED BY <1>1 DEF Inc, Idx

\* A number is a multiple of n and a rest.
LEMMA Divides ==
  ASSUME NEW x \in Nat, NEW n \in Nat, n > 0
  PROVE  \E k \in Nat : x = k * n + (x % n)
<1>1. x = (x \div n) * n + (x % n) /\ x \div n \in Nat
  OBVIOUS
<1> QED BY Zenon, <1>1

\* No multiple of n lies strictly between 0 and n.
LEMMA Between ==
  ASSUME NEW m \in Int, NEW n \in Nat, m * n < n, m * n > 0
  PROVE  FALSE
<1>1. CASE m <= 0
  BY <1>1
<1>2. CASE m >= 1
  BY <1>2
<1> QED BY <1>1, <1>2
\* A product of a sum.
LEMMA Distribute ==
  ASSUME NEW a \in Int, NEW b \in Int, NEW k \in Int, NEW n \in Nat
  PROVE  (b - a + k) * n = b * n - a * n + k * n
OBVIOUS

\* The rest is unique.
LEMMA SameRest ==
  ASSUME NEW n \in Nat, NEW a \in Int, NEW b \in Int, NEW r \in 0 .. n - 1,
         NEW s \in 0 .. n - 1, a * n + r = b * n + s
  PROVE  r = s
<1>1. (b - a + 0) * n = b * n - a * n + 0 * n /\ (a - b + 0) * n = a * n - b * n + 0 * n
  BY Distribute
<1>2. a * n \in Int /\ b * n \in Int
  OBVIOUS
<1>3. (b - a) * n = r - s /\ (a - b) * n = s - r
  BY <1>1, <1>2
<1>4. CASE r > s
  BY <1>3, <1>4, Between
<1>5. CASE s > r
  BY <1>3, <1>5, Between
<1> QED BY <1>4, <1>5

\* Multiples of n with the same rest are n apart, also once around the ring.
LEMMA Apart ==
  ASSUME NEW n \in Nat, NEW a \in Nat, NEW b \in Nat, NEW k \in Nat,
         NEW r \in Nat, NEW x \in Nat, NEW y \in Nat, NEW m \in Nat,
         x = a * n + r, y = b * n + r, m = k * n, y - x + m > 0, y - x + m < n
  PROVE  FALSE
<1>1. (b - a + k) * n = b * n - a * n + k * n
  BY Distribute
<1>2. a * n \in Int /\ b * n \in Int /\ k * n \in Int
  OBVIOUS
<1>3. (b - a + k) * n = y - x + m
  BY <1>1, <1>2
<1> QED BY <1>3, Between

\* Indexes less than Num apart have slots of their own in a ring.
LEMMA SlotsDiffer ==
  ASSUME NEW x \in Idx, NEW y \in Idx, x # y, Dist(x, y) < Num
  PROVE  x % Num # y % Num
<1>1. Num \in Nat /\ Num > 0 /\ IdxMod \in Nat /\ IdxMod % Num = 0
  BY RingAssumption DEF ChainLen, Parts
<1>2. x \in Nat /\ y \in Nat
  BY <1>1 DEF Idx
<1>3. PICK a \in Nat : x = a * Num + (x % Num)
  BY Zenon, <1>1, <1>2, Divides
<1>4. PICK b \in Nat : y = b * Num + (y % Num)
  BY Zenon, <1>1, <1>2, Divides
<1>5. PICK k \in Nat : IdxMod = k * Num
  BY <1>1, Divides
<1> SUFFICES ASSUME x % Num = y % Num PROVE FALSE
  BY Zenon
<1>6. x % Num \in Nat
  BY <1>1, <1>2
<1>7. CASE x <= y
  <2>1. Dist(x, y) = y - x
    BY Zenon, <1>7, DistIs
  <2>2. y - x > 0 /\ y - x < Num
    BY <1>1, <1>2, <1>7, <2>1
  <2> DEFINE o == 0
  <2>3. o \in Nat /\ o = o * Num /\ y - x + o > 0 /\ y - x + o < Num
    BY <1>1, <1>2, <2>2
  <2> HIDE DEF o
  <2> QED BY Zenon, <1>1, <1>2, <1>3, <1>4, <1>6, <2>3, Apart
<1>8. CASE ~(x <= y)
  <2>1. Dist(x, y) = y - x + IdxMod
    BY Zenon, <1>8, DistIs
  <2>2. y - x + IdxMod > 0 /\ y - x + IdxMod < Num
    BY <1>1, <1>2, <2>1 DEF Idx
  <2> QED BY Zenon, <1>1, <1>2, <1>3, <1>4, <1>5, <1>6, <2>2, Apart
<1> QED BY Zenon, <1>7, <1>8

\* The slot of an index is the same before and after u16 wraps around.
LEMMA SlotWraps ==
  ASSUME NEW x \in Idx, NEW i \in Nat, i < IdxMod
  PROVE  ((x + i) % IdxMod) % Num = (x + i) % Num
<1>1. Num \in Nat /\ Num > 0 /\ IdxMod \in Nat /\ IdxMod > 0 /\ IdxMod % Num = 0
  BY RingAssumption DEF ChainLen, Parts
<1>2. x \in Nat /\ x < IdxMod
  BY <1>1 DEF Idx
<1>3. PICK k \in Nat : IdxMod = k * Num
  BY <1>1, Divides
<1>4. CASE x + i < IdxMod
  BY <1>1, <1>2, <1>4
<1>5. CASE x + i >= IdxMod
  <2>1. (x + i) % IdxMod = x + i - IdxMod
    BY <1>1, <1>2, <1>5
  <2> DEFINE z == x + i - IdxMod
  <2>2. z \in Nat /\ x + i = z + k * Num
    BY <1>1, <1>2, <1>3, <1>5
  <2>3. PICK c \in Nat : z = c * Num + (z % Num)
    BY Zenon, <1>1, <2>2, Divides
  <2>4. PICK d \in Nat : x + i = d * Num + ((x + i) % Num)
    BY <1>1, <1>2, Divides
  <2>5. z % Num \in 0 .. Num - 1 /\ (x + i) % Num \in 0 .. Num - 1
    BY <1>1, <1>2, <2>2
  <2>6. (c + k) * Num + (z % Num) = d * Num + ((x + i) % Num)
    <3>1. (c + k) * Num = c * Num + k * Num
      BY <1>1
    <3> QED BY <1>1, <2>2, <2>3, <2>4, <2>5, <3>1
  <2>7. z % Num = (x + i) % Num
    <3> DEFINE r == z % Num
               s == (x + i) % Num
    <3> HIDE DEF r, s
    <3> SUFFICES r = s
      BY Zenon DEF r, s
    <3>1. r \in 0 .. Num - 1 /\ s \in 0 .. Num - 1 /\ (c + k) * Num + r = d * Num + s
      BY Zenon, <2>5, <2>6 DEF r, s
    <3> QED BY <1>1, <3>1, SameRest
  <2> QED BY Zenon, <2>1, <2>7
<1> QED BY <1>1, <1>2, <1>4, <1>5

\* Indexes in a window of Num have slots of their own.
LEMMA WindowSlots ==
  ASSUME NEW a \in Idx, NEW x \in Idx, NEW y \in Idx, x # y,
         Dist(a, x) < Num, Dist(a, y) < Num
  PROVE  x % Num # y % Num
<1>1. Num \in Nat /\ IdxMod \in Nat /\ Num <= IdxMod
  BY Zenon, RingAssumption
<1>2. Dist(x, y) < Num \/ Dist(y, x) < Num
  BY <1>1, DistIs DEF Idx
<1> QED BY Zenon, <1>2, SlotsDiffer

\* The distance is an index, and 0 only from an index to itself.
LEMMA DistType ==
  ASSUME NEW a \in Idx, NEW b \in Idx
  PROVE  Dist(a, b) \in Idx /\ (Dist(a, b) = 0 <=> a = b)
<1>1. IdxMod \in Nat
  BY Zenon, RingAssumption
<1> QED BY <1>1, DistIs DEF Idx

\* One more entry at the end.
LEMMA DistMore ==
  ASSUME NEW a \in Idx, NEW b \in Idx, Dist(a, b) < IdxMod - 1
  PROVE  /\ Inc(b) \in Idx /\ Dist(a, Inc(b)) = Dist(a, b) + 1
         /\ \A x \in Idx : Dist(a, x) < Dist(a, Inc(b))
                            <=> Dist(a, x) < Dist(a, b) \/ x = b
<1>1. IdxMod \in Nat
  BY Zenon, RingAssumption
<1>2. Inc(b) \in Idx /\ Dist(a, Inc(b)) = Dist(a, b) + 1
  BY <1>1, DistIs, IncIs DEF Idx
<1>3. ASSUME NEW x \in Idx
      PROVE  Dist(a, x) < Dist(a, b) + 1 <=> Dist(a, x) < Dist(a, b) \/ x = b
  <2>1. Dist(a, x) \in Idx /\ Dist(a, b) \in Idx
    BY Zenon, DistType
  <2>2. Dist(a, x) = Dist(a, b) <=> x = b
    <3>1. Dist(a, x) = IF a <= x THEN x - a ELSE x - a + IdxMod
      BY Zenon, DistIs
    <3>2. Dist(a, b) = IF a <= b THEN b - a ELSE b - a + IdxMod
      BY Zenon, DistIs
    <3> QED BY <1>1, <3>1, <3>2 DEF Idx
  <2> QED BY <1>1, <2>1, <2>2 DEF Idx
<1> QED BY Zenon, <1>2, <1>3

\* One entry less at the beginning.
LEMMA DistLess ==
  ASSUME NEW a \in Idx, NEW b \in Idx, a # b
  PROVE  /\ Inc(a) \in Idx /\ Dist(Inc(a), b) = Dist(a, b) - 1
         /\ \A x \in Idx : Dist(Inc(a), x) < Dist(Inc(a), b)
                            <=> Dist(a, x) < Dist(a, b) /\ x # a
<1>1. IdxMod \in Nat
  BY Zenon, RingAssumption
<1>2. Inc(a) \in Idx /\ Dist(Inc(a), b) = Dist(a, b) - 1
  BY <1>1, DistIs, IncIs DEF Idx
<1>3. ASSUME NEW x \in Idx
      PROVE  Dist(Inc(a), x) < Dist(a, b) - 1 <=> Dist(a, x) < Dist(a, b) /\ x # a
  <2>1. Dist(Inc(a), x) = IF x = a THEN IdxMod - 1 ELSE Dist(a, x) - 1
    BY <1>1, <1>2, DistIs, IncIs DEF Idx
  <2>2. Dist(a, x) \in Idx /\ Dist(a, b) \in Idx
    BY Zenon, DistType
  <2> QED BY <1>1, <2>1, <2>2 DEF Idx
<1> QED BY Zenon, <1>2, <1>3

-----------------------------------------------------------------------------
(***************************************************************************)
(* Sequences.                                                              *)
(***************************************************************************)
\* A concatenation, element by element.
LEMMA Concat ==
  ASSUME NEW S, NEW s \in Seq(S), NEW t \in Seq(S)
  PROVE  /\ s \o t \in Seq(S) /\ Len(s \o t) = Len(s) + Len(t)
         /\ \A i \in 1 .. Len(s) + Len(t) :
              (s \o t)[i] = IF i <= Len(s) THEN s[i] ELSE t[i - Len(s)]
OBVIOUS

\* The empty sequence adds nothing.
LEMMA ConcatEmpty ==
  ASSUME NEW S, NEW s \in Seq(S)
  PROVE  <<>> \o s = s /\ s \o <<>> = s
OBVIOUS

\* The head of the second sequence may as well be the end of the first.
LEMMA ConcatMove ==
  ASSUME NEW S, NEW s \in Seq(S), NEW t \in Seq(S), t # <<>>
  PROVE  Append(s, Head(t)) \o Tail(t) = s \o t
OBVIOUS

\* The head of the first sequence is that of the concatenation.
LEMMA ConcatTail ==
  ASSUME NEW S, NEW s \in Seq(S), NEW t \in Seq(S), s # <<>>
  PROVE  Tail(s) \o t = Tail(s \o t) /\ Head(s \o t) = Head(s) /\ s \o t # <<>>
OBVIOUS

\* What is appended to the second sequence is appended to the concatenation.
LEMMA ConcatAppend ==
  ASSUME NEW S, NEW s \in Seq(S), NEW t \in Seq(S), NEW x \in S
  PROVE  s \o Append(t, x) = Append(s \o t, x)
OBVIOUS

\* Three sequences in a row.
LEMMA ConcatAssoc ==
  ASSUME NEW S, NEW s \in Seq(S), NEW t \in Seq(S), NEW u \in Seq(S)
  PROVE  (s \o t) \o u = s \o (t \o u)
OBVIOUS

-----------------------------------------------------------------------------
(***************************************************************************)
(* What the steps that leave the rings alone have in common.               *)
(***************************************************************************)
\* The fields of the shared records have their types.
LEMMA Fields ==
  ASSUME TypeOK
  PROVE  /\ desc.next \in [Descs -> Descs] /\ desc.cont \in [Descs -> BOOLEAN]
         /\ desc.buf \in [Descs -> [req : Reqs, part : Range(Parts)] \cup {None}]
         /\ avail.ring \in [Descs -> Descs \cup {None}]
         /\ avail.idx \in Idx /\ avail.event \in Idx
         /\ used.ring \in [Descs -> Descs \cup {None}]
         /\ used.idx \in Idx /\ used.event \in Idx
         /\ vq.free_head \in Descs /\ vq.num_free \in 0 .. Num
         /\ vq.data \in [Descs -> Reqs \cup {None}]
         /\ vq.last_used_idx \in Idx /\ vq.num_added \in 0 .. Num
         /\ q.last_avail_idx \in Idx /\ q.last_used_idx_signaled \in Idx
         /\ q.int_status \in BOOLEAN
BY Zenon DEF TypeOK

\* The ring is not empty, and its indexes are numbers.
LEMMA Sizes ==
  /\ Num \in Nat /\ Num >= 3 /\ IdxMod \in Nat /\ IdxMod >= Num /\ ChainLen = 3
  /\ 0 \in Idx /\ Idx \subseteq Nat /\ Descs \subseteq Nat
BY RingAssumption DEF ChainLen, Parts, Idx, Descs

\* The slot of an index is a slot.
LEMMA SlotType ==
  ASSUME NEW x \in Idx
  PROVE  x % Num \in Descs
BY Sizes DEF Descs

\* Neither ring, list of descriptors nor chain changes.
SameRing ==
  /\ q'.last_avail_idx = q.last_avail_idx /\ vq'.last_used_idx = vq.last_used_idx
  /\ avail'.ring = avail.ring /\ avail'.idx = avail.idx
  /\ used'.ring = used.ring /\ used'.idx = used.idx
  /\ vq'.num_free = vq.num_free /\ vq'.free_head = vq.free_head
  /\ vq'.data = vq.data /\ desc' = desc

\* Then the counts and the descriptors stay.
LEMMA RingKept ==
  ASSUME SameRing
  PROVE  /\ Unserved' = Unserved /\ Uncompleted' = Uncompleted
         /\ ChainInv => ChainInv'
         /\ FreeInv => FreeInv'
<1>1. Unserved' = Unserved /\ Uncompleted' = Uncompleted
  BY Zenon DEF SameRing, Unserved, Uncompleted, Dist
<1>2. ChainInv => ChainInv'
  BY DEF SameRing, ChainInv, Second, Third
<1>3. ASSUME NEW f, FreeList(f) PROVE FreeList(f)'
  BY <1>3 DEF SameRing, FreeList, Held, Second, Third
<1> QED BY Zenon, <1>1, <1>2, <1>3 DEF FreeInv

\* So do the entries of the rings, whose requests keep their phase.
LEMMA EntriesKept ==
  ASSUME SameRing, RingInv,
         \A h \in Descs : vq.data[h] # None => phase'[vq.data[h]] = phase[vq.data[h]]
  PROVE  RingInv'
<1>1. Unserved' = Unserved /\ Uncompleted' = Uncompleted
  BY Zenon, RingKept
<1>2. ASSUME NEW x
      PROVE  /\ Waits(x)' <=> Waits(x)
             /\ IsUsed(x)' <=> IsUsed(x)
             /\ AvailHead(x)' = AvailHead(x) /\ UsedHead(x)' = UsedHead(x)
  BY Zenon, <1>1 DEF SameRing, Waits, IsUsed, AvailHead, UsedHead, Dist
<1>3. ASSUME NEW h, NEW p, HeadOf(h, p) PROVE HeadOf(h, p)'
  BY Zenon, <1>3 DEF SameRing, HeadOf
<1>4. vq'.num_free = vq.num_free
  BY Zenon DEF SameRing
<1> QED BY <1>1, <1>2, <1>3, <1>4 DEF RingInv

\* A step that changes neither the lists nor the phases keeps RqInv.
LEMMA RequestsKept ==
  ASSUME RqInv, vq'.data = vq.data, phase' = phase, Queued' = Queued
  PROVE  RqInv'
BY DEF RqInv

\* What the invariant says of the lists and of the data.
LEMMA QueuedType ==
  ASSUME TypeOK
  PROVE  /\ Queued \in Seq(Reqs) /\ list \in Seq(Reqs) /\ todo \in Seq(Reqs)
         /\ Len(Queued) \in Nat /\ DOMAIN Queued = 1 .. Len(Queued)
<1>1. list \in Seq(Reqs) /\ todo \in Seq(Reqs)
  BY Zenon DEF TypeOK
<1>2. Queued \in Seq(Reqs)
  BY Zenon, <1>1, Concat DEF Queued
<1> QED BY <1>1, <1>2

-----------------------------------------------------------------------------
(***************************************************************************)
(* The steps that leave the rings alone.                                   *)
(***************************************************************************)
\* The request submitted was free: it is in no chain and in no list.
LEMMA SubmitStep ==
  ASSUME IInv, NEW r \in Reqs, NEW k \in Kinds, Submit(r, k[1], k[2])
  PROVE  IInv'
<1>0. TypeOK /\ RingInv /\ ChainInv /\ FreeInv /\ RqInv /\ PcInv
  BY Zenon DEF IInv
<1>1. UNCHANGED <<ringVars, vq, q, irqVars, list, stopped, pc, ret, disk>>
  BY Zenon DEF Submit
<1>2. SameRing
  BY Zenon, <1>1 DEF SameRing, ringVars
<1>3. phase[r] = "free" /\ todo' = Append(todo, r)
  BY Zenon DEF Submit
<1>4. /\ phase \in [Reqs -> {"free", "queued", "served"}]
      /\ phase' = [phase EXCEPT ![r] = "queued"]
  BY Zenon, <1>0 DEF Submit, TypeOK
<1>5. TypeOK'
  <2>1. k[1] \in Ops /\ k[2] \in Sectors
    BY Zenon, DiskAssumption
  <2>2. todo' \in Seq(Reqs)
    BY <1>0, <1>3 DEF TypeOK
  <2>3. rq' \in [Reqs -> [op : Ops, sector : Sectors]]
    BY Zenon, <1>0, <2>1 DEF TypeOK, Submit
  <2>4. mem' \in [Reqs -> Reqs \cup {0}]
    BY Zenon, <1>0 DEF TypeOK, Submit
  <2>5. phase' \in [Reqs -> {"free", "queued", "served"}]
    BY Zenon, <1>4
  <2> QED BY <1>0, <1>1, <2>2, <2>3, <2>4, <2>5 DEF TypeOK, ringVars, irqVars
<1>6. ASSUME NEW h \in Descs, vq.data[h] # None
      PROVE  vq.data[h] # r /\ phase'[vq.data[h]] = phase[vq.data[h]]
  <2>1. vq.data[h] \in Reqs
    BY Zenon, <1>0, <1>6, Fields
  <2>2. phase[vq.data[h]] # "free"
    BY Zenon, <1>0, <1>6 DEF RqInv
  <2> QED BY Zenon, <1>3, <1>4, <2>1, <2>2
<1>7. RingInv' /\ ChainInv' /\ FreeInv'
  BY Zenon, <1>0, <1>2, <1>6, RingKept, EntriesKept
<1>8. RqInv'
  <2>1. /\ Queued' = Append(Queued, r) /\ Queued \in Seq(Reqs)
        /\ Len(Queued) \in Nat /\ DOMAIN Queued = 1 .. Len(Queued)
    BY <1>0, <1>1, <1>3, QueuedType, ConcatAppend DEF Queued
  <2>2. \A i \in 1 .. Len(Queued) : Queued[i] \in Reqs /\ Queued[i] # r
    <3>1. \A i \in 1 .. Len(Queued) : Queued[i] \in Reqs /\ phase[Queued[i]] = "queued"
      BY <1>0, <2>1 DEF RqInv
    <3> QED BY Zenon, <1>3, <3>1
  <2> HIDE DEF Queued
  <2>3. /\ DOMAIN Queued' = 1 .. Len(Queued) + 1 /\ Queued'[Len(Queued) + 1] = r
        /\ \A i \in 1 .. Len(Queued) : Queued'[i] = Queued[i]
    BY <2>1
  <2>4. \A i \in DOMAIN Queued' : phase'[Queued'[i]] = "queued"
    BY <1>0, <1>4, <2>1, <2>2, <2>3 DEF RqInv
  <2>5. \A i \in DOMAIN Queued', h \in Descs : vq.data[h] # Queued'[i]
    <3>1. \A h \in Descs : vq.data[h] # r
      BY Zenon, <1>6, ReqsAssumption
    <3> QED BY <1>0, <2>1, <2>3, <3>1 DEF RqInv
  <2>6. \A i, j \in DOMAIN Queued' : Queued'[i] = Queued'[j] => i = j
    BY <1>0, <2>1, <2>2, <2>3 DEF RqInv
  <2>7. vq' = vq
    BY Zenon, <1>1
  <2> QED BY Zenon, <1>0, <1>6, <2>4, <2>5, <2>6, <2>7 DEF RqInv
<1>9. PcInv'
  BY <1>0, <1>1, <1>2, RingKept DEF PcInv, CaughtUp, Settled, Submit, Dist, ringVars, irqVars
<1> QED BY Zenon, <1>5, <1>7, <1>8, <1>9 DEF IInv

\* The run of the hardware queue begins with nothing in the rings.
LEMMA RunHwQueueStep ==
  ASSUME IInv, RunHwQueue
  PROVE  IInv'
<1>0. TypeOK /\ RingInv /\ ChainInv /\ FreeInv /\ RqInv /\ PcInv
  BY Zenon DEF IInv
<1>1. /\ UNCHANGED <<ringVars, vq, q, irqVars, stopped, ret, dataVars>>
      /\ pc = "idle" /\ pc' = "dispatch" /\ todo # <<>>
      /\ list' = todo /\ todo' = <<>>
  BY Zenon DEF RunHwQueue
<1>2. SameRing /\ phase' = phase
  BY Zenon, <1>1 DEF SameRing, ringVars, dataVars
<1>3. /\ irqs_enabled /\ CaughtUp /\ Uncompleted = 0 /\ ~stopped
      /\ list = <<>> /\ vq.num_added = 0 /\ ~pending
  BY Zenon, <1>0, <1>1 DEF PcInv, Settled
<1>4. TypeOK'
  BY <1>0, <1>1 DEF TypeOK, ringVars, irqVars, dataVars
<1>5. RingInv' /\ ChainInv' /\ FreeInv'
  BY Zenon, <1>0, <1>2, RingKept, EntriesKept
<1>6. RqInv'
  <2>1. Queued' = Queued
    BY Zenon, <1>0, <1>1, <1>3, QueuedType, ConcatEmpty DEF Queued
  <2> QED BY Zenon, <1>0, <1>1, <1>2, <2>1, RequestsKept
<1>7. PcInv'
  <2>1. Dist(used.event, avail.idx) = 0 /\ Unserved = 0
    BY Zenon, <1>0, <1>3, Fields, DistType DEF CaughtUp
  <2>2. Unserved' = 0 /\ Uncompleted' = 0
    BY Zenon, <1>2, <1>3, <2>1, RingKept
  <2>3. Dist(used.event, avail.idx)' = 0
    BY Zenon, <1>1, <2>1 DEF Dist, ringVars
  <2> QED BY Zenon, <1>1, <1>3, <2>2, <2>3 DEF PcInv, ringVars, irqVars
<1> QED BY Zenon, <1>4, <1>5, <1>6, <1>7 DEF IInv

\* The counts are numbers, and what is in the rings is less than a ring.
LEMMA Counts ==
  ASSUME TypeOK, RingInv
  PROVE  /\ Unserved \in Nat /\ Uncompleted \in Nat /\ vq.num_free \in Nat
         /\ 3 * (Unserved + Uncompleted) + vq.num_free = Num
         /\ Unserved + Uncompleted < Num
         /\ Unserved = 0 <=> q.last_avail_idx = avail.idx
         /\ Uncompleted = 0 <=> vq.last_used_idx = used.idx
<1>1. Unserved \in Idx /\ (Unserved = 0 <=> q.last_avail_idx = avail.idx)
  BY Zenon, Fields, DistType DEF Unserved
<1>2. Uncompleted \in Idx /\ (Uncompleted = 0 <=> vq.last_used_idx = used.idx)
  BY Zenon, Fields, DistType DEF Uncompleted
<1>3. vq.num_free \in Nat
  BY Fields
<1>4. 3 * (Unserved + Uncompleted) + vq.num_free = Num
  BY Zenon, Sizes DEF RingInv
<1>5. \A a, b, c \in Nat : 3 * (a + b) + c = Num => a + b < Num
  BY Sizes
<1>6. Unserved \in Nat /\ Uncompleted \in Nat
  BY Zenon, <1>1, <1>2, Sizes
<1> QED BY Zenon, <1>1, <1>2, <1>3, <1>4, <1>5, <1>6

\* A full ring holds requests the device was not told of.
LEMMA QueueRqFullStep ==
  ASSUME IInv, QueueRqFull
  PROVE  IInv'
<1>0. TypeOK /\ RingInv /\ ChainInv /\ FreeInv /\ RqInv /\ PcInv
  BY Zenon DEF IInv
<1>1. /\ UNCHANGED <<ringVars, vq, q, pending, req_done, blkVars, dataVars>>
      /\ pc = "dispatch" /\ pc' = "process" /\ ret' = "kick" /\ irqs_enabled' = FALSE
      /\ vq.num_free < 3
  BY Zenon, Sizes DEF QueueRqFull, RingFull
<1>2. SameRing /\ phase' = phase /\ Queued' = Queued
  BY Zenon, <1>1 DEF SameRing, Queued, ringVars, dataVars, blkVars
<1>3. TypeOK'
  BY Zenon, <1>0, <1>1 DEF TypeOK, ringVars, blkVars, dataVars
<1>4. RingInv' /\ ChainInv' /\ FreeInv' /\ RqInv'
  BY Zenon, <1>0, <1>1, <1>2, RingKept, EntriesKept, RequestsKept
<1>5. PcInv'
  <2>1. ~stopped /\ Uncompleted = 0
    BY Zenon, <1>0, <1>1 DEF PcInv
  <2>2. Unserved > 0 /\ Unserved \in Nat
    BY <1>0, <1>1, <2>1, Counts, Sizes
  <2>3. Unserved' # 0
    BY <1>2, <2>2, RingKept
  <2> QED BY Zenon, <1>1, <2>1, <2>3 DEF PcInv, blkVars
<1> QED BY Zenon, <1>3, <1>4, <1>5 DEF IInv

\* The kick of the error path finds the device caught up: it never needs one.
LEMMA KickStep ==
  ASSUME IInv, Kick
  PROVE  IInv'
<1>0. TypeOK /\ RingInv /\ ChainInv /\ FreeInv /\ RqInv /\ PcInv
  BY Zenon DEF IInv
<1>1. /\ UNCHANGED <<ringVars, q, irqVars, blkVars, dataVars>>
      /\ pc = "kick" /\ ret' = "stop" /\ vq' = [vq EXCEPT !.num_added = 0]
      /\ pc' = IF NeedsKick(0) THEN "process" ELSE "stop"
  BY Zenon DEF Kick
<1>2. vq'.num_added = 0 /\ SameRing
  BY Zenon, <1>0, <1>1 DEF TypeOK, SameRing, ringVars
<1>3. phase' = phase /\ Queued' = Queued /\ vq'.data = vq.data
  BY Zenon, <1>1, <1>2 DEF SameRing, Queued, dataVars, blkVars
<1>4. TypeOK'
  <2>1. vq' \in [free_head : Descs, num_free : 0 .. Num,
                 data : [Descs -> Reqs \cup {None}], last_used_idx : Idx,
                 num_added : 0 .. Num]
    <3>1. 0 \in 0 .. Num
      BY Sizes
    <3> QED BY Zenon, <1>0, <1>1, <3>1 DEF TypeOK
  <2>2. pc' \in {"process", "stop"}
    BY Zenon, <1>1
  <2> QED BY Zenon, <1>0, <1>1, <2>1, <2>2 DEF TypeOK, ringVars, irqVars, blkVars, dataVars
<1>5. RingInv' /\ ChainInv' /\ FreeInv' /\ RqInv'
  BY Zenon, <1>0, <1>2, <1>3, RingKept, EntriesKept, RequestsKept
<1>6. PcInv'
  <2>1. /\ ~irqs_enabled /\ ~stopped /\ Unserved = 0 /\ used.event = avail.idx
        /\ Uncompleted > 0 /\ pending /\ q.int_status
    BY Zenon, <1>0, <1>1 DEF PcInv, CaughtUp
  <2>2. Unserved' = 0 /\ Uncompleted' > 0
    BY Zenon, <1>2, <2>1, RingKept
  <2>3. pc' = "process" \/ pc' = "stop"
    BY Zenon, <1>1
  <2> QED BY Zenon, <1>1, <1>2, <2>1, <2>2, <2>3
          DEF PcInv, CaughtUp, ringVars, irqVars, blkVars
<1> QED BY <1>4, <1>5, <1>6 DEF IInv

\* The completions marked while interrupts were disabled are handled now.
LEMMA QueueRqBusyStep ==
  ASSUME IInv, QueueRqBusy
  PROVE  IInv'
<1>0. TypeOK /\ RingInv /\ ChainInv /\ FreeInv /\ RqInv /\ PcInv
  BY Zenon DEF IInv
<1>1. /\ UNCHANGED <<ringVars, vq, q, req_done, ret, dataVars>>
      /\ pc = "stop" /\ stopped' = TRUE /\ todo' = list \o todo /\ list' = <<>>
      /\ pending' = FALSE
  BY Zenon DEF QueueRqBusy
<1>2. SameRing /\ phase' = phase
  BY Zenon, <1>1 DEF SameRing, ringVars, dataVars
<1>3. /\ pending /\ Unserved = 0 /\ used.event = avail.idx /\ Uncompleted > 0
      /\ q.int_status /\ vq.num_added = 0
  BY Zenon, <1>0, <1>1 DEF PcInv, CaughtUp
<1>4. pc' = "interrupt" /\ irqs_enabled' = FALSE
  BY Zenon, <1>3 DEF QueueRqBusy
<1>5. TypeOK'
  <2>1. todo' \in Seq(Reqs) /\ list' \in Seq(Reqs)
    BY <1>0, <1>1, QueuedType DEF Queued
  <2> QED BY Zenon, <1>0, <1>1, <1>4, <2>1 DEF TypeOK, ringVars, dataVars
<1>6. RqInv'
  <2>1. Queued' = Queued
    BY Zenon, <1>0, <1>1, QueuedType, ConcatEmpty DEF Queued
  <2> QED BY Zenon, <1>0, <1>1, <1>2, <2>1, RequestsKept
<1>7. RingInv' /\ ChainInv' /\ FreeInv'
  BY Zenon, <1>0, <1>2, RingKept, EntriesKept
<1>8. PcInv'
  <2>1. Unserved' = 0 /\ Uncompleted' > 0
    BY Zenon, <1>2, <1>3, RingKept
  <2> QED BY Zenon, <1>1, <1>3, <1>4, <2>1 DEF PcInv, CaughtUp, Settled, ringVars
<1> QED BY Zenon, <1>5, <1>6, <1>7, <1>8 DEF IInv

\* The end of a round, with the event index set once the device is caught up.
LEMMA SetAvailEventStep ==
  ASSUME IInv, SetAvailEvent
  PROVE  IInv'
<1>0. TypeOK /\ RingInv /\ ChainInv /\ FreeInv /\ RqInv /\ PcInv
  BY Zenon DEF IInv
<1>1. /\ UNCHANGED <<desc, avail, vq, q, irqVars, blkVars, ret, dataVars>>
      /\ pc = "event" /\ pc' = "process"
      /\ used' = [used EXCEPT !.event =
                    IF q.last_avail_idx = avail.idx THEN avail.idx ELSE @]
  BY Zenon DEF SetAvailEvent
<1>2. /\ SameRing
      /\ used'.event = IF q.last_avail_idx = avail.idx THEN avail.idx ELSE used.event
  BY Zenon, <1>0, <1>1 DEF TypeOK, SameRing
<1>3. phase' = phase /\ Queued' = Queued /\ vq' = vq
  BY Zenon, <1>1 DEF Queued, dataVars, blkVars
<1>4. TypeOK'
  <2>1. used' \in [ring : [Descs -> Descs \cup {None}], idx : Idx, event : Idx]
    BY Zenon, <1>0, <1>1, Fields DEF TypeOK
  <2> QED BY Zenon, <1>0, <1>1, <2>1 DEF TypeOK, irqVars, blkVars, dataVars
<1>5. RingInv' /\ ChainInv' /\ FreeInv' /\ RqInv'
  BY Zenon, <1>0, <1>2, <1>3, RingKept, EntriesKept, RequestsKept
<1>6. PcInv'
  <2>1. Unserved' = Unserved /\ Uncompleted' = Uncompleted
    BY Zenon, <1>2, RingKept
  <2>2. Unserved = 0 => used'.event = avail.idx
    BY Zenon, <1>0, <1>2, Counts
  <2> QED BY Zenon, <1>0, <1>1, <2>1, <2>2 DEF PcInv, Settled, irqVars, blkVars
<1> QED BY Zenon, <1>4, <1>5, <1>6 DEF IInv

\* The device leaves its loop when it has served everything.
LEMMA ProcessReturnStep ==
  ASSUME IInv, ProcessReturn
  PROVE  IInv'
<1>0. TypeOK /\ RingInv /\ ChainInv /\ FreeInv /\ RqInv /\ PcInv
  BY Zenon DEF IInv
<1>1. /\ UNCHANGED <<ringVars, vq, q, irqVars, blkVars, ret, dataVars>>
      /\ pc = "process" /\ pc' = ret /\ q.last_avail_idx = avail.idx
  BY Zenon DEF ProcessReturn, ReturnTo
<1>2. SameRing /\ phase' = phase /\ Queued' = Queued
  BY Zenon, <1>1 DEF SameRing, Queued, ringVars, dataVars, blkVars
<1>3. TypeOK'
  BY <1>0, <1>1 DEF TypeOK, ringVars, irqVars, blkVars, dataVars
<1>4. RingInv' /\ ChainInv' /\ FreeInv' /\ RqInv'
  BY Zenon, <1>0, <1>1, <1>2, RingKept, EntriesKept, RequestsKept
<1>5. PcInv'
  <2>1. Unserved' = Unserved /\ Uncompleted' = Uncompleted /\ Unserved = 0
    BY Zenon, <1>0, <1>1, <1>2, RingKept, Counts
  <2>2. ret \in {"idle", "kick", "stop"}
    BY Zenon, <1>0 DEF TypeOK
  <2> QED BY Zenon, <1>0, <1>1, <2>1, <2>2
          DEF PcInv, CaughtUp, Settled, ringVars, irqVars, blkVars
<1> QED BY Zenon, <1>3, <1>4, <1>5 DEF IInv

\* An interrupt always finds a completion.
LEMMA InterruptStep ==
  ASSUME IInv, Interrupt
  PROVE  IInv'
<1>0. TypeOK /\ RingInv /\ ChainInv /\ FreeInv /\ RqInv /\ PcInv
  BY Zenon DEF IInv
<1>1. /\ UNCHANGED <<ringVars, vq, pending, req_done, blkVars, ret, dataVars>>
      /\ pc = "interrupt" /\ q' = [q EXCEPT !.int_status = FALSE]
  BY Zenon DEF Interrupt
<1>2. Uncompleted > 0 /\ q.int_status
  BY Zenon, <1>0, <1>1 DEF PcInv
<1>3. MoreUsed
  BY <1>0, <1>2, Counts DEF MoreUsed
<1>4. pc' = "done" /\ UNCHANGED irqs_enabled
  BY Zenon, <1>2, <1>3 DEF Interrupt
<1>5. SameRing
  BY Zenon, <1>0, <1>1 DEF TypeOK, SameRing, ringVars
<1>6. phase' = phase /\ Queued' = Queued
  BY Zenon, <1>1 DEF Queued, dataVars, blkVars
<1>7. TypeOK'
  <2>1. q' \in [last_avail_idx : Idx, last_used_idx_signaled : Idx,
                int_status : BOOLEAN]
    BY Zenon, <1>0, <1>1 DEF TypeOK
  <2> QED BY Zenon, <1>0, <1>1, <1>4, <2>1 DEF TypeOK, ringVars, blkVars, dataVars
<1>8. RingInv' /\ ChainInv' /\ FreeInv' /\ RqInv'
  BY Zenon, <1>0, <1>1, <1>5, <1>6, RingKept, EntriesKept, RequestsKept
<1>9. PcInv'
  <2>1. Unserved' = Unserved /\ Uncompleted' = Uncompleted
    BY Zenon, <1>5, RingKept
  <2> QED BY Zenon, <1>0, <1>1, <1>2, <1>4, <2>1
          DEF PcInv, CaughtUp, Settled, ringVars, blkVars
<1> QED BY Zenon, <1>7, <1>8, <1>9 DEF IInv

\* virtblk_done has completed everything, and starts a queue that was stopped.
LEMMA EnableCbStep ==
  ASSUME IInv, EnableCb
  PROVE  IInv'
<1>0. TypeOK /\ RingInv /\ ChainInv /\ FreeInv /\ RqInv /\ PcInv
  BY Zenon DEF IInv
<1>1. /\ UNCHANGED <<desc, used, vq, q, pending, todo, list, ret, dataVars>>
      /\ pc = "done" /\ ~MoreUsed /\ irqs_enabled' = TRUE /\ req_done' = FALSE
      /\ pc' = IF irqs_enabled THEN "event" ELSE "idle"
      /\ avail' = [avail EXCEPT !.event = vq.last_used_idx]
  BY Zenon DEF EnableCb, InterruptReturn
<1>2. Uncompleted = 0
  BY Zenon, <1>0, <1>1, Counts DEF MoreUsed
<1>3. req_done
  BY <1>0, <1>1, <1>2 DEF PcInv
<1>4. stopped' = FALSE
  BY Zenon, <1>3 DEF EnableCb
<1>5. SameRing
  BY Zenon, <1>0, <1>1 DEF TypeOK, SameRing
<1>6. phase' = phase /\ Queued' = Queued
  BY Zenon, <1>1 DEF Queued, dataVars
<1>7. TypeOK'
  <2>1. avail' \in [ring : [Descs -> Descs \cup {None}], idx : Idx, event : Idx]
    BY Zenon, <1>0, <1>1, Fields DEF TypeOK
  <2>2. pc' \in {"event", "idle"}
    BY Zenon, <1>1
  <2> QED BY Zenon, <1>0, <1>1, <1>4, <2>1, <2>2 DEF TypeOK, dataVars
<1>8. RingInv' /\ ChainInv' /\ FreeInv' /\ RqInv'
  BY Zenon, <1>0, <1>1, <1>5, <1>6, RingKept, EntriesKept, RequestsKept
<1>9. PcInv'
  <2>1. Unserved' = Unserved /\ Uncompleted' = 0 /\ avail'.idx = avail.idx
    BY Zenon, <1>2, <1>5, RingKept DEF SameRing
  <2>2. Settled' /\ Settled
    BY Zenon, <1>0, <1>1 DEF PcInv, Settled
  <2>3. CASE irqs_enabled
    BY Zenon, <1>0, <1>1, <1>4, <2>1, <2>2, <2>3 DEF PcInv, CaughtUp
  <2>4. CASE ~irqs_enabled
    BY Zenon, <1>0, <1>1, <1>4, <2>1, <2>2, <2>4 DEF PcInv, CaughtUp
  <2> QED BY Zenon, <2>3, <2>4
<1> QED BY Zenon, <1>7, <1>8, <1>9 DEF IInv

-----------------------------------------------------------------------------
(***************************************************************************)
(* virtqueue_add takes a chain off the free list.                          *)
(***************************************************************************)
\* A buffer is something, and those of a request differ.
LEMMA Buffers ==
  ASSUME NEW r \in Reqs
  PROVE  /\ \A p \in Range(Parts) :
              Buffer(r, p) \in [req : Reqs, part : Range(Parts)] /\ Buffer(r, p) # None
         /\ \A p : Buffer(r, p).req = r /\ Buffer(r, p).part = p
         /\ {"header", "data", "status"} = Range(Parts)
<1>1. {"header", "data", "status"} = Range(Parts)
  BY DEF Range, Parts
<1>2. ASSUME NEW p \in Range(Parts)
      PROVE  Buffer(r, p) \in [req : Reqs, part : Range(Parts)]
  BY Zenon DEF Buffer
<1> QED BY <1>1, <1>2, ReqsAssumption DEF Buffer

\* The chain of a request: three descriptors, for the request and no other.
LEMMA ChainOf ==
  ASSUME TypeOK, ChainInv, NEW h \in Descs, vq.data[h] # None
  PROVE  /\ vq.data[h] \in Reqs /\ Second(h) \in Descs /\ Third(h) \in Descs
         /\ h # Second(h) /\ h # Third(h) /\ Second(h) # Third(h)
         /\ \A d \in {h, Second(h), Third(h)} :
              desc.buf[d] # None /\ desc.buf[d].req = vq.data[h]
         /\ Chain(h) = <<h, Second(h), Third(h)>>
<1>1. vq.data[h] \in Reqs /\ Second(h) \in Descs /\ Third(h) \in Descs
  BY Zenon, Fields DEF Second, Third
<1>2. /\ desc.cont[h] /\ desc.cont[Second(h)] /\ ~desc.cont[Third(h)]
      /\ desc.buf[h] = Buffer(vq.data[h], "header")
      /\ desc.buf[Second(h)] = Buffer(vq.data[h], "data")
      /\ desc.buf[Third(h)] = Buffer(vq.data[h], "status")
  BY Zenon DEF ChainInv
<1>3. h # Second(h) /\ h # Third(h) /\ Second(h) # Third(h)
  BY <1>1, <1>2, Buffers
<1>4. \A d \in {h, Second(h), Third(h)} :
        desc.buf[d] # None /\ desc.buf[d].req = vq.data[h]
  BY <1>1, <1>2, Buffers
<1>5. Chain(h) = <<h, Second(h), Third(h)>>
  <2>1. Three(h) = <<h, Second(h), Third(h)>>
    BY Zenon DEF Three, Second, Third
  <2>2. {i \in 1 .. ChainLen : ~desc.cont[Three(h)[i]]} = {3}
    BY <1>2, <2>1, Sizes
  <2>3. Min({3}) = 3
    BY DEF Min
  <2>4. SubSeq(<<h, Second(h), Third(h)>>, 1, 3) = <<h, Second(h), Third(h)>>
    <3>1. ASSUME NEW t \in Seq(Descs) PROVE SubSeq(t, 1, Len(t)) = t
      OBVIOUS
    <3>2. /\ <<h, Second(h), Third(h)>> \in Seq(Descs)
          /\ Len(<<h, Second(h), Third(h)>>) = 3
      BY <1>1
    <3> QED BY Zenon, <3>1, <3>2
  <2> QED BY Zenon, <2>1, <2>2, <2>3, <2>4 DEF Chain
<1> QED BY Zenon, <1>1, <1>3, <1>4, <1>5

\* The first three descriptors of the free list.
LEMMA FreeFront ==
  ASSUME TypeOK, ChainInv, NEW f, FreeList(f), vq.num_free >= 3
  PROVE  /\ f[1] \in Descs /\ f[2] \in Descs /\ f[3] \in Descs
         /\ f[1] # f[2] /\ f[1] # f[3] /\ f[2] # f[3]
         /\ f[2] = desc.next[f[1]] /\ f[3] = desc.next[f[2]]
         /\ Three(vq.free_head) = <<f[1], f[2], f[3]>> /\ vq.free_head = f[1]
         /\ \A i \in 1 .. vq.num_free : desc.buf[f[i]] = None /\ vq.data[f[i]] = None
<1>1. vq.num_free \in Nat /\ 1 \in 1 .. vq.num_free /\ 2 \in 1 .. vq.num_free
      /\ 3 \in 1 .. vq.num_free /\ 1 \in 1 .. vq.num_free - 1
      /\ 2 \in 1 .. vq.num_free - 1 /\ vq.num_free > 0
  BY Fields
<1>2. f[1] \in Descs /\ f[2] \in Descs /\ f[3] \in Descs
  BY Zenon, <1>1 DEF FreeList
<1>3. f[1] # f[2] /\ f[1] # f[3] /\ f[2] # f[3]
  BY <1>1 DEF FreeList
<1>4. f[2] = desc.next[f[1]] /\ f[3] = desc.next[f[2]] /\ vq.free_head = f[1]
  <2>1. f[1 + 1] = desc.next[f[1]] /\ f[2 + 1] = desc.next[f[2]]
    BY Zenon, <1>1 DEF FreeList
  <2> QED BY <1>1, <2>1 DEF FreeList
<1>5. ASSUME NEW i \in 1 .. vq.num_free
      PROVE  desc.buf[f[i]] = None /\ vq.data[f[i]] = None
  <2>1. f[i] \in Descs /\ desc.buf[f[i]] = None
    BY Zenon DEF FreeList
  <2> QED BY Zenon, <2>1, ChainOf
<1> QED BY Zenon, <1>2, <1>3, <1>4, <1>5 DEF Three

\* The descriptors a, b and c become the chain of r.
Taken(r, a, b, c) ==
  /\ desc'.next = desc.next
  /\ desc'.cont = [d \in Descs |-> IF d \in {a, b, c} THEN d # c ELSE desc.cont[d]]
  /\ desc'.buf = [d \in Descs |-> IF d = a THEN Buffer(r, "header")
                                  ELSE IF d = b THEN Buffer(r, "data")
                                  ELSE IF d = c THEN Buffer(r, "status")
                                  ELSE desc.buf[d]]
  /\ vq'.data = [vq.data EXCEPT ![a] = r]
  /\ vq'.num_free = vq.num_free - 3 /\ vq'.free_head = desc.next[c]

\* This is what QueueRq does to the descriptors.
LEMMA QueueRqTakes ==
  ASSUME TypeOK, ChainInv, NEW f, FreeList(f), NEW r \in Reqs, QueueRq(r)
  PROVE  /\ vq.num_free >= 3 /\ Taken(r, f[1], f[2], f[3])
         /\ desc' \in [next : [Descs -> Descs], cont : [Descs -> BOOLEAN],
                       buf : [Descs -> [req : Reqs, part : Range(Parts)] \cup {None}]]
<1>1. vq.num_free >= 3 /\ vq.num_free \in Nat
  BY Fields, Sizes DEF QueueRq, RingFull
<1> DEFINE a == f[1]
           b == f[2]
           c == f[3]
           t == Three(vq.free_head)
<1>2. /\ a \in Descs /\ b \in Descs /\ c \in Descs /\ a # b /\ a # c /\ b # c
      /\ t = <<a, b, c>> /\ vq.free_head = a
  BY Zenon, <1>1, FreeFront
<1> HIDE DEF a, b, c, t
<1>3. /\ desc' = [desc EXCEPT
            !.cont = [d \in Descs |-> IF d \in Range(t) THEN d # t[ChainLen] ELSE @[d]],
            !.buf = [d \in Descs |-> IF d \in Range(t)
               THEN [req |-> r, part |-> Parts[CHOOSE i \in 1 .. ChainLen : t[i] = d]]
               ELSE @[d]]]
      /\ vq' = [vq EXCEPT !.num_free = @ - ChainLen,
                          !.free_head = desc.next[t[ChainLen]],
                          !.data[vq.free_head] = r,
                          !.num_added = IF Len(list) = 1 THEN 0 ELSE @ + 1]
  BY Zenon DEF QueueRq, t
<1>4. Range(t) = {a, b, c} /\ t[1] = a /\ t[2] = b /\ t[3] = c
  BY <1>2 DEF Range
<1> DEFINE no(d) == CHOOSE i \in 1 .. ChainLen : t[i] = d
<1>5. no(a) = 1 /\ no(b) = 2 /\ no(c) = 3
  BY <1>2, <1>4, Sizes
<1>6. Parts[1] = "header" /\ Parts[2] = "data" /\ Parts[3] = "status"
  BY Zenon DEF Parts
<1>7. desc'.next = desc.next
  BY Zenon, <1>3 DEF TypeOK
<1>8. desc'.cont = [d \in Descs |-> IF d \in {a, b, c} THEN d # c ELSE desc.cont[d]]
  BY Zenon, <1>3, <1>4, Sizes DEF TypeOK
<1>9. desc'.buf = [d \in Descs |-> IF d = a THEN Buffer(r, "header")
                                  ELSE IF d = b THEN Buffer(r, "data")
                                  ELSE IF d = c THEN Buffer(r, "status")
                                  ELSE desc.buf[d]]
  <2>1. desc'.buf = [d \in Descs |-> IF d \in Range(t)
                       THEN [req |-> r, part |-> Parts[no(d)]] ELSE desc.buf[d]]
    BY Zenon, <1>3 DEF TypeOK
  <2> HIDE DEF no
  <2>2. ASSUME NEW d \in Descs
        PROVE  (IF d \in Range(t)
                THEN [req |-> r, part |-> Parts[no(d)]] ELSE desc.buf[d])
               = (IF d = a THEN Buffer(r, "header")
                  ELSE IF d = b THEN Buffer(r, "data")
                  ELSE IF d = c THEN Buffer(r, "status")
                  ELSE desc.buf[d])
    <3>1. CASE d = a
      BY Zenon, <1>4, <1>5, <1>6, <3>1 DEF Buffer
    <3>2. CASE d = b
      BY Zenon, <1>2, <1>4, <1>5, <1>6, <3>2 DEF Buffer
    <3>3. CASE d = c
      BY Zenon, <1>2, <1>4, <1>5, <1>6, <3>3 DEF Buffer
    <3>4. CASE d \notin {a, b, c}
      BY Zenon, <1>4, <3>4
    <3> QED BY Zenon, <3>1, <3>2, <3>3, <3>4
  <2> QED BY <2>1, <2>2
<1>10. vq'.data = [vq.data EXCEPT ![a] = r]
  BY Zenon, <1>2, <1>3 DEF TypeOK
<1>11. vq'.num_free = vq.num_free - 3 /\ vq'.free_head = desc.next[c]
  BY Zenon, <1>3, <1>4, Sizes DEF TypeOK
<1>12. desc' \in [next : [Descs -> Descs], cont : [Descs -> BOOLEAN],
                  buf : [Descs -> [req : Reqs, part : Range(Parts)] \cup {None}]]
  <2>1. desc' = [next |-> desc'.next, cont |-> desc'.cont, buf |-> desc'.buf]
    BY Zenon, <1>3 DEF TypeOK
  <2>2. desc'.next \in [Descs -> Descs] /\ desc'.cont \in [Descs -> BOOLEAN]
    <3>1. desc'.next \in [Descs -> Descs]
      BY Zenon, <1>7, Fields
    <3>2. \A d \in Descs : desc.cont[d] \in BOOLEAN
      BY Zenon, Fields
    <3>3. \A d \in Descs : (IF d \in {a, b, c} THEN d # c ELSE desc.cont[d]) \in BOOLEAN
      BY <3>2, Zenon
    <3> QED BY <1>8, <3>1, <3>3, Zenon
  <2>3. desc'.buf \in [Descs -> [req : Reqs, part : Range(Parts)] \cup {None}]
    BY <1>9, Fields, Buffers
  <2> QED BY Zenon, <2>1, <2>2, <2>3
<1> QED BY Zenon, <1>1, <1>7, <1>8, <1>9, <1>10, <1>11, <1>12 DEF Taken, a, b, c

\* The new chain is one, and the others are not touched.
LEMMA TakenChains ==
  ASSUME TypeOK, ChainInv, NEW f, FreeList(f), vq.num_free >= 3,
         NEW r \in Reqs, Taken(r, f[1], f[2], f[3])
  PROVE  ChainInv'
<1> DEFINE a == f[1]
           b == f[2]
           c == f[3]
<1>1. /\ a \in Descs /\ b \in Descs /\ c \in Descs /\ a # b /\ a # c /\ b # c
      /\ b = desc.next[a] /\ c = desc.next[b]
      /\ \A d \in {a, b, c} : desc.buf[d] = None /\ vq.data[d] = None
  <2>1. 1 \in 1 .. vq.num_free /\ 2 \in 1 .. vq.num_free /\ 3 \in 1 .. vq.num_free
    BY Fields
  <2> QED BY <2>1, FreeFront
<1>2. Taken(r, a, b, c)
  BY Zenon
<1> HIDE DEF a, b, c
<1>3. desc.next \in [Descs -> Descs] /\ vq.data \in [Descs -> Reqs \cup {None}]
  BY Zenon, Fields
<1> SUFFICES ASSUME NEW h \in Descs, vq'.data[h] # None
             PROVE  /\ desc'.cont[h] /\ desc'.cont[Second(h)'] /\ ~desc'.cont[Third(h)']
                    /\ desc'.buf[h] = Buffer(vq'.data[h], "header")
                    /\ desc'.buf[Second(h)'] = Buffer(vq'.data[h], "data")
                    /\ desc'.buf[Third(h)'] = Buffer(vq'.data[h], "status")
  BY Zenon DEF ChainInv, Buffer
<1>4. Second(h)' = Second(h) /\ Third(h)' = Third(h)
  BY Zenon, <1>2 DEF Second, Third, Taken
<1>5. CASE h = a
  <2>1. Second(h)' = b /\ Third(h)' = c /\ vq'.data[h] = r
    BY <1>1, <1>2, <1>3, <1>4, <1>5 DEF Second, Third, Taken
  <2>2. desc'.cont[a] /\ desc'.cont[b] /\ ~desc'.cont[c]
    BY Zenon, <1>1, <1>2 DEF Taken
  <2>3. /\ desc'.buf[a] = Buffer(r, "header") /\ desc'.buf[b] = Buffer(r, "data")
        /\ desc'.buf[c] = Buffer(r, "status")
    BY Zenon, <1>1, <1>2 DEF Taken
  <2> QED BY Zenon, <1>5, <2>1, <2>2, <2>3
<1>6. CASE h # a
  <2>1. vq'.data[h] = vq.data[h]
    BY Zenon, <1>2, <1>3, <1>6 DEF Taken
  <2>2. /\ Second(h) \in Descs /\ Third(h) \in Descs
        /\ \A d \in {h, Second(h), Third(h)} : desc.buf[d] # None
    BY Zenon, <2>1, ChainOf
  <2>3. \A d \in {h, Second(h), Third(h)} : d \in Descs /\ d \notin {a, b, c}
    BY Zenon, <1>1, <2>2
  <2>4. \A d \in {h, Second(h), Third(h)} :
          desc'.cont[d] = desc.cont[d] /\ desc'.buf[d] = desc.buf[d]
    BY <1>2, <2>3 DEF Taken
  <2>5. /\ desc.cont[h] /\ desc.cont[Second(h)] /\ ~desc.cont[Third(h)]
        /\ desc.buf[h] = Buffer(vq.data[h], "header")
        /\ desc.buf[Second(h)] = Buffer(vq.data[h], "data")
        /\ desc.buf[Third(h)] = Buffer(vq.data[h], "status")
    BY Zenon, <2>1 DEF ChainInv
  <2> QED BY Zenon, <1>4, <2>1, <2>4, <2>5
<1> QED BY Zenon, <1>5, <1>6

\* What is left of the free list begins at its fourth descriptor.
LEMMA TakenFree ==
  ASSUME TypeOK, ChainInv, NEW f, FreeList(f), vq.num_free >= 3,
         NEW r \in Reqs, Taken(r, f[1], f[2], f[3])
  PROVE  FreeInv'
<1>0. PICK n \in Nat : n = vq.num_free
  BY Fields
<1> DEFINE g == [i \in 1 .. n - 3 |-> f[i + 3]]
<1>1. n \in Nat /\ n >= 3 /\ f \in [1 .. n -> Descs]
  BY Zenon, <1>0 DEF FreeList
<1>2. /\ f[2] = desc.next[f[1]] /\ f[3] = desc.next[f[2]]
      /\ f[1] \in Descs /\ vq.data[f[1]] = None
  <2>1. 1 \in 1 .. vq.num_free
    BY <1>0, <1>1
  <2> QED BY Zenon, <2>1, FreeFront
<1>3. /\ vq'.num_free = n - 3 /\ vq'.free_head = desc.next[f[3]]
      /\ vq'.data = [vq.data EXCEPT ![f[1]] = r] /\ desc'.next = desc.next
  BY Zenon, <1>0 DEF Taken
<1>4. \A i \in 1 .. n - 3 : i + 3 \in 1 .. n /\ g[i] = f[i + 3]
  BY <1>1
<1>5. FreeList(g)'
  <2>1. g \in [1 .. n - 3 -> Descs]
    BY Zenon, <1>1, <1>4
  <2>2. n - 3 > 0 => g[1] = vq'.free_head
    <3>1. SUFFICES ASSUME n - 3 > 0 PROVE g[1] = desc.next[f[3]]
      BY Zenon, <1>3
    <3>2. 3 \in 1 .. n - 1 /\ 1 \in 1 .. n - 3
      BY <1>1, <3>1
    <3>3. f[3 + 1] = desc.next[f[3]]
      BY Zenon, <1>0, <3>2 DEF FreeList
    <3> QED BY <1>4, <3>2, <3>3
  <2>3. ASSUME NEW i \in 1 .. n - 3 - 1 PROVE g[i + 1] = desc.next[g[i]]
    <3>1. i + 3 \in 1 .. n - 1 /\ i \in 1 .. n - 3 /\ i + 1 \in 1 .. n - 3
      BY <1>1
    <3>2. f[(i + 3) + 1] = desc.next[f[i + 3]]
      BY Zenon, <1>0, <3>1 DEF FreeList
    <3>3. (i + 3) + 1 = (i + 1) + 3
      BY <3>1
    <3> QED BY Zenon, <1>4, <3>1, <3>2, <3>3
  <2>4. ASSUME NEW i \in 1 .. n - 3, NEW j \in 1 .. n - 3, g[i] = g[j] PROVE i = j
    <3>1. f[i + 3] = f[j + 3] /\ i + 3 \in 1 .. n /\ j + 3 \in 1 .. n
      BY Zenon, <1>4, <2>4
    <3>2. i + 3 = j + 3
      BY <1>0, <3>1 DEF FreeList
    <3> QED BY <1>1, <3>2
  <2>5. ASSUME NEW i \in 1 .. n - 3 PROVE desc'.buf[g[i]] = None
    <3>1. /\ i + 3 \in 1 .. n /\ 1 \in 1 .. n /\ 2 \in 1 .. n /\ 3 \in 1 .. n
          /\ i + 3 # 1 /\ i + 3 # 2 /\ i + 3 # 3
      BY <1>1
    <3>2. f[i + 3] \in Descs /\ desc.buf[f[i + 3]] = None
      BY Zenon, <1>0, <3>1 DEF FreeList
    <3>3. f[i + 3] \notin {f[1], f[2], f[3]}
      BY Zenon, <1>0, <3>1 DEF FreeList
    <3>4. desc'.buf[f[i + 3]] = desc.buf[f[i + 3]]
      BY Zenon, <3>2, <3>3 DEF Taken
    <3> QED BY Zenon, <1>4, <3>2, <3>4
  <2>6. ASSUME NEW d \in Descs PROVE Held(d)' \/ \E i \in 1 .. n - 3 : g[i] = d
    <3>1. CASE Held(d)
      <4>1. PICK h \in Descs : vq.data[h] # None /\ d \in {h, Second(h), Third(h)}
        BY Zenon, <3>1 DEF Held
      <4>2. h # f[1]
        BY Zenon, <1>2, <4>1
      <4>3. vq'.data[h] # None
        BY Zenon, <1>3, <4>1, <4>2, Fields
      <4> QED BY Zenon, <1>3, <4>1, <4>3 DEF Held, Second, Third
    <3>2. CASE \E i \in 1 .. n : f[i] = d
      <4>1. PICK i \in 1 .. n : f[i] = d
        BY Zenon, <3>2
      <4>2. CASE i <= 3
        <5>1. vq'.data[f[1]] # None
          BY <1>2, <1>3, Fields, ReqsAssumption
        <5>2. i = 1 \/ i = 2 \/ i = 3
          BY <1>1, <4>2
        <5>3. d \in {f[1], Second(f[1]), Third(f[1])}
          BY Zenon, <1>2, <4>1, <5>2 DEF Second, Third
        <5> QED BY Zenon, <1>2, <1>3, <5>1, <5>3 DEF Held, Second, Third
      <4>3. CASE i > 3
        <5>1. i - 3 \in 1 .. n - 3 /\ (i - 3) + 3 = i
          BY <1>1, <4>3
        <5> QED BY Zenon, <1>4, <4>1, <5>1
      <4> QED BY <1>1, <4>2, <4>3
    <3> QED BY Zenon, <1>0, <3>1, <3>2 DEF FreeList
  <2> HIDE DEF g
  <2> QED BY <1>3, <2>1, <2>2, <2>3, <2>4, <2>5, <2>6 DEF FreeList
<1> QED BY Zenon, <1>5 DEF FreeInv

\* The device asked to be notified of the first of the entries added since.
LEMMA KickNeeded ==
  ASSUME NEW e \in Idx, NEW a \in Idx, Dist(e, a) < IdxMod - 1
  PROVE  vring_need_event(e, (a + 1) % IdxMod, (a - Dist(e, a)) % IdxMod)
<1>1. IdxMod \in Nat /\ e \in Nat /\ a \in Nat /\ e < IdxMod /\ a < IdxMod
  BY Sizes DEF Idx
<1>2. Dist(e, a) = IF e <= a THEN a - e ELSE a - e + IdxMod
  BY Zenon, DistIs
<1>3. (a - Dist(e, a)) % IdxMod = e
  BY <1>1, <1>2
<1>4. (a + 1) % IdxMod = Inc(a) /\ Inc(a) \in Idx /\ Dist(e, Inc(a)) = Dist(e, a) + 1
  BY Zenon, DistMore DEF Inc
<1>5. (Inc(a) - e) % IdxMod = Dist(e, a) + 1
  BY Zenon, <1>4 DEF Dist
<1>6. (Inc(a) - e - 1) % IdxMod = Dist(e, a)
  <2>1. Inc(a) = IF a = IdxMod - 1 THEN 0 ELSE a + 1
    BY Zenon, IncIs
  <2> QED BY <1>1, <1>2, <2>1
<1>7. Dist(e, a) \in Nat
  BY <1>1, <1>2
<1> QED BY <1>3, <1>4, <1>5, <1>6, <1>7 DEF vring_need_event

\* What QueueRq does besides: the chain is made available, the list gets shorter.
LEMMA QueueRqAdds ==
  ASSUME TypeOK, RingInv, RqInv, PcInv, NEW r \in Reqs, QueueRq(r)
  PROVE  /\ avail'.ring = [avail.ring EXCEPT ![avail.idx % Num] = vq.free_head]
         /\ avail'.idx = Inc(avail.idx) /\ avail'.event = avail.event
         /\ vq'.last_used_idx = vq.last_used_idx
         /\ vq'.num_added = IF Len(list) = 1 THEN 0 ELSE vq.num_added + 1
         /\ Unserved' = Unserved + 1 /\ Uncompleted' = Uncompleted
         /\ Uncompleted = 0 /\ Unserved = vq.num_added /\ vq.num_free >= 3
         /\ Dist(used.event, avail.idx) = vq.num_added
         /\ 3 * (vq.num_added + 1) <= Num
         /\ \A x \in Idx : Waits(x)' <=> Waits(x) \/ x = avail.idx
         /\ Queued # <<>> /\ r = Head(Queued) /\ Queued' = Tail(Queued)
         /\ Len(list) \in Nat \ {0} /\ list' = Tail(list)
<1>1. /\ avail' = [avail EXCEPT !.ring[avail.idx % Num] = vq.free_head, !.idx = Inc(@)]
      /\ vq' = [vq EXCEPT !.num_free = @ - ChainLen,
                          !.free_head = desc.next[Three(vq.free_head)[ChainLen]],
                          !.data[vq.free_head] = r,
                          !.num_added = IF Len(list) = 1 THEN 0 ELSE @ + 1]
      /\ pc = "dispatch" /\ r = Head(list) /\ list' = Tail(list)
      /\ UNCHANGED <<used, q, todo>> /\ vq.num_free >= 3
  BY Fields, Sizes DEF QueueRq, RingFull
<1>2. /\ avail'.ring = [avail.ring EXCEPT ![avail.idx % Num] = vq.free_head]
      /\ avail'.idx = Inc(avail.idx) /\ avail'.event = avail.event
  BY Zenon, <1>1 DEF TypeOK
<1>3. /\ vq'.last_used_idx = vq.last_used_idx
      /\ vq'.num_added = IF Len(list) = 1 THEN 0 ELSE vq.num_added + 1
  BY Zenon, <1>1 DEF TypeOK
<1>4. /\ list # <<>> /\ Uncompleted = 0 /\ Unserved = vq.num_added
      /\ Dist(used.event, avail.idx) = vq.num_added
  BY Zenon, <1>1 DEF PcInv
<1>5. 3 * (vq.num_added + 1) <= Num /\ Unserved < IdxMod - 1
  BY <1>1, <1>4, Counts, Sizes
<1>6. Uncompleted' = Uncompleted
  BY Zenon, <1>1, <1>3 DEF Uncompleted, Dist
<1>7. /\ Unserved' = Unserved + 1
      /\ \A x \in Idx : Waits(x)' <=> Waits(x) \/ x = avail.idx
  <2>1. q.last_avail_idx \in Idx /\ avail.idx \in Idx
    BY Zenon, Fields
  <2>2. Unserved' = Dist(q.last_avail_idx, Inc(avail.idx))
    BY Zenon, <1>1, <1>2 DEF Unserved, Dist
  <2>3. ASSUME NEW x PROVE Waits(x)' <=> Dist(q.last_avail_idx, x) < Unserved'
    BY Zenon, <1>1 DEF Waits, Dist
  <2> QED BY <1>5, <2>1, <2>2, <2>3, DistMore DEF Waits, Unserved
<1>8. Queued # <<>> /\ r = Head(Queued) /\ Queued' = Tail(Queued)
  BY Zenon, <1>1, <1>4, QueuedType, ConcatTail DEF Queued
<1>9. Len(list) \in Nat \ {0}
  BY <1>4, QueuedType
<1> QED BY <1>1, <1>2, <1>3, <1>4, <1>5, <1>6, <1>7, <1>8, <1>9

\* A request moves from the list into the ring; the last one kicks the device.
LEMMA QueueRqStep ==
  ASSUME IInv, NEW r \in Reqs, QueueRq(r)
  PROVE  IInv'
<1>0. TypeOK /\ RingInv /\ ChainInv /\ FreeInv /\ RqInv /\ PcInv
  BY Zenon DEF IInv
<1>1. PICK f : FreeList(f)
  BY Zenon, <1>0 DEF FreeInv
<1>2. /\ vq.num_free >= 3 /\ Taken(r, f[1], f[2], f[3])
      /\ desc' \in [next : [Descs -> Descs], cont : [Descs -> BOOLEAN],
                    buf : [Descs -> [req : Reqs, part : Range(Parts)] \cup {None}]]
  BY Zenon, <1>0, <1>1, QueueRqTakes
<1>3. ChainInv' /\ FreeInv'
  BY Zenon, <1>0, <1>1, <1>2, TakenChains, TakenFree
<1>4. /\ vq.free_head = f[1] /\ f[1] \in Descs /\ f[3] \in Descs
      /\ vq.data[f[1]] = None
  <2>1. 1 \in 1 .. vq.num_free
    BY <1>0, <1>2, Fields
  <2> QED BY Zenon, <1>0, <1>1, <1>2, <2>1, FreeFront
<1>h. PICK h \in Descs : h = vq.free_head
  BY Zenon, <1>4
<1>5. /\ h \in Descs /\ vq.data[h] = None /\ vq'.data = [vq.data EXCEPT ![h] = r]
      /\ vq'.num_free = vq.num_free - 3 /\ vq'.free_head \in Descs
  BY <1>0, <1>2, <1>4, <1>h, Fields DEF Taken
<1>6. /\ avail'.ring = [avail.ring EXCEPT ![avail.idx % Num] = h]
      /\ avail'.idx = Inc(avail.idx) /\ avail'.event = avail.event
      /\ vq'.last_used_idx = vq.last_used_idx
      /\ vq'.num_added = IF Len(list) = 1 THEN 0 ELSE vq.num_added + 1
      /\ Unserved' = Unserved + 1 /\ Uncompleted' = Uncompleted
      /\ Uncompleted = 0 /\ Unserved = vq.num_added
      /\ Dist(used.event, avail.idx) = vq.num_added
      /\ 3 * (vq.num_added + 1) <= Num
      /\ \A x \in Idx : Waits(x)' <=> Waits(x) \/ x = avail.idx
      /\ Queued # <<>> /\ r = Head(Queued) /\ Queued' = Tail(Queued)
      /\ Len(list) \in Nat \ {0} /\ list' = Tail(list)
  BY Zenon, <1>0, <1>h, QueueRqAdds
<1>7. UNCHANGED <<used, q, irqVars, todo, stopped, dataVars>>
  BY Zenon DEF QueueRq
<1>8. /\ avail.idx \in Idx /\ avail.idx % Num \in Descs /\ Inc(avail.idx) \in Idx
      /\ q.last_avail_idx \in Idx /\ Unserved \in Nat /\ Unserved < Num
      /\ Dist(q.last_avail_idx, avail.idx) < Num
  <2>1. avail.idx \in Idx /\ q.last_avail_idx \in Idx
    BY Zenon, <1>0, Fields
  <2>2. Inc(avail.idx) \in Idx
    BY <2>1, Sizes, IncIs DEF Idx
  <2> QED BY <1>0, <2>1, <2>2, SlotType, Counts DEF Unserved
<1>9. pc' = IF Len(list) = 1 THEN "process" ELSE "dispatch"
  <2>1. NeedsKick(1)
    <3>1. used.event \in Idx /\ Dist(used.event, avail.idx) < IdxMod - 1
      BY <1>0, <1>6, Fields, Sizes
    <3> QED BY Zenon, <1>6, <1>8, <3>1, KickNeeded DEF NeedsKick
  <2> QED BY Zenon, <2>1 DEF QueueRq
<1>10. TypeOK'
  <2>1. avail' \in [ring : [Descs -> Descs \cup {None}], idx : Idx, event : Idx]
    <3>1. avail' = [ring |-> avail'.ring, idx |-> avail'.idx, event |-> avail'.event]
      BY Zenon, <1>0 DEF TypeOK, QueueRq
    <3>2. avail'.ring \in [Descs -> Descs \cup {None}]
      <4>1. avail'.ring = [avail.ring EXCEPT ![avail.idx % Num] = h] /\ h \in Descs
        BY Zenon, <1>5, <1>6
      <4>2. avail.ring \in [Descs -> Descs \cup {None}]
        BY Zenon, <1>0, Fields
      <4> QED BY Zenon, <4>1, <4>2
    <3>3. avail'.idx \in Idx /\ avail'.event \in Idx
      BY Zenon, <1>0, <1>6, <1>8, Fields
    <3> QED BY Zenon, <3>1, <3>2, <3>3
  <2>2. vq' \in [free_head : Descs, num_free : 0 .. Num,
                 data : [Descs -> Reqs \cup {None}], last_used_idx : Idx,
                 num_added : 0 .. Num]
    <3>1. vq' = [free_head |-> vq'.free_head, num_free |-> vq'.num_free,
                 data |-> vq'.data, last_used_idx |-> vq'.last_used_idx,
                 num_added |-> vq'.num_added]
      BY Zenon, <1>0 DEF TypeOK, QueueRq
    <3>2. vq'.num_free \in 0 .. Num
      BY <1>0, <1>2, <1>5, Fields, Sizes
    <3>3. vq'.data \in [Descs -> Reqs \cup {None}] /\ vq'.last_used_idx \in Idx
      BY <1>0, <1>5, <1>6, Fields
    <3>4. vq'.num_added \in 0 .. Num
      <4>1. vq'.num_added = 0 \/ vq'.num_added = vq.num_added + 1
        BY Zenon, <1>6
      <4>2. 3 * (vq.num_added + 1) <= Num /\ vq.num_added \in Nat
        BY <1>0, <1>6, Fields
      <4> QED BY <4>1, <4>2, Sizes
    <3> QED BY Zenon, <1>5, <3>1, <3>2, <3>3, <3>4
  <2>3. list' \in Seq(Reqs) /\ pc' \in {"process", "dispatch"} /\ ret' = "idle"
    BY <1>0, <1>6, <1>9 DEF TypeOK, QueueRq
  <2> QED BY Zenon, <1>0, <1>2, <1>7, <2>1, <2>2, <2>3 DEF TypeOK, irqVars, dataVars
<1>11. Len(Queued) \in Nat \ {0} /\ Queued \in Seq(Reqs) /\ DOMAIN Queued = 1 .. Len(Queued)
  BY <1>0, <1>6, QueuedType
<1>12. phase' = phase /\ phase[r] = "queued" /\ \A d \in Descs : vq.data[d] # r
  <2>1. r = Queued[1] /\ 1 \in DOMAIN Queued
    BY <1>6, <1>11
  <2> QED BY Zenon, <1>0, <1>7, <2>1 DEF RqInv, dataVars
<1>13. RingInv'
  <2>1. 3 * (Unserved' + Uncompleted') + vq'.num_free = Num
    BY <1>0, <1>5, <1>6, Counts
  <2>2. ASSUME NEW d, NEW p, HeadOf(d, p) PROVE HeadOf(d, p)' /\ d # h
    <3>1. d \in Descs /\ d # h
      BY Zenon, <1>5, <2>2 DEF HeadOf
    <3>2. vq'.data[d] = vq.data[d]
      BY Zenon, <1>0, <1>5, <3>1, Fields
    <3> QED BY Zenon, <1>12, <2>2, <3>1, <3>2 DEF HeadOf
  <2>3. HeadOf(h, "queued")'
    <3>1. vq'.data[h] = r
      BY Zenon, <1>0, <1>5, Fields
    <3> QED BY Zenon, <1>5, <1>12, <3>1, ReqsAssumption DEF HeadOf
  <2>4. ASSUME NEW x \in Idx, Waits(x)
        PROVE  AvailHead(x)' = AvailHead(x) /\ HeadOf(AvailHead(x), "queued")
    <3>1. x # avail.idx /\ Dist(q.last_avail_idx, x) < Num
      <4>1. Dist(q.last_avail_idx, x) \in Nat
        BY Zenon, <1>8, DistType, Sizes
      <4>2. Dist(q.last_avail_idx, x) < Dist(q.last_avail_idx, avail.idx)
        BY Zenon, <2>4 DEF Waits, Unserved
      <4> QED BY <1>8, <4>1, <4>2, Sizes DEF Unserved
    <3>2. x % Num # avail.idx % Num /\ x % Num \in Descs
      BY Zenon, <1>8, <3>1, WindowSlots, SlotType
    <3>3. avail'.ring[x % Num] = avail.ring[x % Num]
      BY Zenon, <1>0, <1>6, <3>2, Fields
    <3> QED BY Zenon, <1>0, <2>4, <3>3 DEF AvailHead, RingInv
  <2>5. AvailHead(avail.idx)' = avail'.ring[avail'.idx % Num]
    BY Zenon DEF AvailHead
  <2>6. PICK x0 \in Idx : x0 = avail.idx
    BY Zenon, <1>8
  <2>7. AvailHead(x0)' = h
    BY Zenon, <1>0, <1>6, <1>8, <2>6, Fields DEF AvailHead
  <2>8. \A x \in Idx : Waits(x)' => HeadOf(AvailHead(x), "queued")'
    <3> SUFFICES ASSUME NEW x \in Idx, Waits(x)' PROVE HeadOf(AvailHead(x), "queued")'
      BY Zenon
    <3>1. CASE Waits(x)
      <4>1. PICK d : d = AvailHead(x) /\ d = AvailHead(x)'
        BY Zenon, <2>4, <3>1
      <4>2. HeadOf(d, "queued")
        BY Zenon, <2>4, <3>1, <4>1
      <4>3. HeadOf(d, "queued")'
        BY Zenon, <2>2, <4>2
      <4> QED BY Zenon, <4>1, <4>3 DEF HeadOf
    <3>2. CASE x = x0
      BY Zenon, <2>3, <2>7, <3>2 DEF HeadOf
    <3> QED BY Zenon, <1>6, <2>6, <3>1, <3>2
  <2>9. ASSUME NEW x \in Idx
        PROVE  (IsUsed(x)' <=> IsUsed(x)) /\ UsedHead(x)' = UsedHead(x)
    BY Zenon, <1>6, <1>7 DEF IsUsed, UsedHead, Dist
  <2>10. \A x \in Idx : IsUsed(x)' => HeadOf(UsedHead(x), "served")'
    <3> SUFFICES ASSUME NEW x \in Idx, IsUsed(x)' PROVE HeadOf(UsedHead(x), "served")'
      BY Zenon
    <3>1. PICK d : d = UsedHead(x) /\ d = UsedHead(x)'
      BY Zenon, <2>9
    <3>2. HeadOf(d, "served")
      BY <1>0, <2>9, <3>1 DEF RingInv
    <3>3. HeadOf(d, "served")'
      BY Zenon, <2>2, <3>2
    <3> QED BY Zenon, <3>1, <3>3 DEF HeadOf
  <2>11. \A x, y \in Idx :
           Waits(x)' /\ Waits(y)' /\ AvailHead(x)' = AvailHead(y)' => x = y
    <3>1. \A x \in Idx : Waits(x) => AvailHead(x)' = AvailHead(x) /\ AvailHead(x) # h
      BY Zenon, <2>2, <2>4
    <3> QED BY <1>0, <1>6, <2>6, <2>7, <3>1 DEF RingInv
  <2>12. \A x, y \in Idx :
           IsUsed(x)' /\ IsUsed(y)' /\ UsedHead(x)' = UsedHead(y)' => x = y
    BY Zenon, <1>0, <2>9 DEF RingInv
  <2> QED BY Zenon, <2>1, <2>8, <2>10, <2>11, <2>12, Sizes DEF RingInv, ChainLen
<1>14. RqInv'
  <2>1. /\ DOMAIN Queued' = 1 .. Len(Queued) - 1
        /\ \A i \in 1 .. Len(Queued) - 1 :
             Queued'[i] = Queued[i + 1] /\ i + 1 \in DOMAIN Queued /\ i + 1 # 1
        /\ r = Queued[1] /\ 1 \in DOMAIN Queued
    BY <1>6, <1>11
  <2>2. ASSUME NEW d \in Descs PROVE vq'.data[d] = IF d = h THEN r ELSE vq.data[d]
    BY Zenon, <1>0, <1>5, Fields
  <2>3. \A i \in DOMAIN Queued' : Queued'[i] # r
    BY <1>0, <2>1 DEF RqInv
  <2>4. \A d, e \in Descs : vq'.data[d] # None /\ vq'.data[d] = vq'.data[e] => d = e
    BY <1>0, <1>12, <2>2 DEF RqInv
  <2>5. \A d \in Descs : vq'.data[d] # None => phase'[vq'.data[d]] # "free"
    BY Zenon, <1>0, <1>12, <2>2 DEF RqInv
  <2>6. \A i \in DOMAIN Queued' : phase'[Queued'[i]] = "queued"
    BY <1>0, <1>12, <2>1 DEF RqInv
  <2>7. \A i \in DOMAIN Queued', d \in Descs : vq'.data[d] # Queued'[i]
    BY <1>0, <2>1, <2>2, <2>3 DEF RqInv
  <2>8. \A i, j \in DOMAIN Queued' : Queued'[i] = Queued'[j] => i = j
    <3>1. \A i, j \in DOMAIN Queued' : Queued'[i] = Queued'[j] => i + 1 = j + 1
      BY <1>0, <2>1 DEF RqInv
    <3> QED BY <1>11, <2>1, <3>1
  <2> QED BY Zenon, <2>4, <2>5, <2>6, <2>7, <2>8 DEF RqInv
<1>15. PcInv'
  <2>1. irqs_enabled /\ ~pending /\ ~stopped
    BY Zenon, <1>0 DEF PcInv, QueueRq
  <2>2. irqs_enabled' /\ ~pending' /\ ~stopped' /\ ret' = "idle"
    BY <1>7, <2>1 DEF irqVars, QueueRq
  <2>3. Unserved' \in Nat \ {0} /\ Uncompleted' = 0
    BY <1>6, <1>8
  <2>4. CASE Len(list) = 1
    <3>1. pc' = "process" /\ list' = <<>> /\ vq'.num_added = 0
      BY <1>0, <1>6, <1>9, <2>4, QueuedType
    <3> QED BY Zenon, <2>2, <2>3, <3>1 DEF PcInv, Settled
  <2>5. CASE Len(list) # 1
    <3>0. list \in Seq(Reqs) /\ Len(list) \in Nat \ {0} /\ list' = Tail(list)
      BY Zenon, <1>0, <1>6 DEF TypeOK
    <3>1. list' # <<>>
      <4>1. Len(list') = Len(list) - 1 /\ Len(list) - 1 # 0
        BY <2>5, <3>0
      <4>2. \A s : s = <<>> => Len(s) = 0
        OBVIOUS
      <4> QED BY Zenon, <4>1, <4>2
    <3>4. pc' = "dispatch" /\ vq'.num_added = vq.num_added + 1
      BY Zenon, <1>6, <1>9, <2>5
    <3>2. Dist(used.event, avail.idx)' = vq.num_added + 1
      <4>1. used.event \in Idx /\ Dist(used.event, avail.idx) < IdxMod - 1
        BY <1>0, <1>6, Fields, Sizes
      <4>2. Dist(used.event, Inc(avail.idx)) = vq.num_added + 1
        BY <1>6, <1>8, <4>1, DistMore
      <4> QED BY Zenon, <1>6, <1>7, <4>2 DEF Dist
    <3>3. Unserved' = vq'.num_added
      BY Zenon, <1>6, <3>4
    <3> QED BY Zenon, <2>2, <2>3, <3>1, <3>2, <3>3, <3>4 DEF PcInv
  <2> QED BY Zenon, <2>4, <2>5
<1> QED BY Zenon, <1>3, <1>10, <1>13, <1>14, <1>15 DEF IInv

-----------------------------------------------------------------------------
(***************************************************************************)
(* The device serves one request.                                          *)
(***************************************************************************)
\* What the request r moves between the disk and its buffer.
Moves(r) ==
  LET s == Sector(rq[r].sector) IN
  \/ rq[r].op = "read" /\ mem' = [mem EXCEPT ![r] = disk[s]] /\ disk' = disk
  \/ rq[r].op = "write" /\ disk' = [disk EXCEPT ![s] = mem[r]] /\ mem' = mem

\* The device serves the oldest entry, whose chain h is the request r's.
Serves(h, r) ==
  /\ h \in Descs /\ r \in Reqs /\ h = AvailHead(q.last_avail_idx)
  /\ r = vq.data[h] /\ r # None /\ phase[r] = "queued"
  /\ phase' = [phase EXCEPT ![r] = "served"] /\ rq' = rq /\ Moves(r)
  /\ avail'.ring = [avail.ring EXCEPT ![q.last_avail_idx % Num] = None]
  /\ avail'.idx = avail.idx /\ avail'.event = avail.event
  /\ used'.ring = [used.ring EXCEPT ![used.idx % Num] = h]
  /\ used'.idx = Inc(used.idx) /\ used'.event = used.event
  /\ q'.last_avail_idx = Inc(q.last_avail_idx)
  /\ UNCHANGED <<desc, vq>>

\* One round of the loop serves the request of the oldest entry.
LEMMA ProcessOneServes ==
  ASSUME IInv, ProcessOne
  PROVE  \E h, r : Serves(h, r)
<1>0. TypeOK /\ RingInv /\ ChainInv
  BY Zenon DEF IInv
<1>1. q.last_avail_idx \in Idx /\ avail.idx \in Idx /\ q.last_avail_idx # avail.idx
  BY Zenon, <1>0, Fields DEF ProcessOne
<1>2. HeadOf(AvailHead(q.last_avail_idx), "queued")
  <2>1. Dist(q.last_avail_idx, q.last_avail_idx) = 0
    BY Zenon, <1>1, DistType
  <2>2. Unserved \in Idx /\ Unserved # 0
    BY Zenon, <1>1, DistType DEF Unserved
  <2>3. Waits(q.last_avail_idx)
    BY <2>1, <2>2, Sizes DEF Waits
  <2> QED BY Zenon, <1>0, <1>1, <2>3 DEF RingInv
<1>3. PICK h : h = AvailHead(q.last_avail_idx)
  BY Zenon
<1>4. h \in Descs /\ vq.data[h] # None /\ phase[vq.data[h]] = "queued"
  BY Zenon, <1>2, <1>3 DEF HeadOf
<1>5. PICK r : r = vq.data[h]
  BY Zenon
<1>6. /\ r \in Reqs /\ Chain(h) = <<h, Second(h), Third(h)>>
      /\ desc.buf[h].req = r /\ desc.buf[Second(h)].req = r
  BY Zenon, <1>0, <1>4, <1>5, ChainOf
<1> DEFINE bufs == [i \in 1 .. Len(Chain(h)) |-> desc.buf[Chain(h)[i]]]
<1>7. bufs[1].req = r /\ bufs[2].req = r
  <2>1. /\ Len(Chain(h)) = 3 /\ Chain(h)[1] = h /\ Chain(h)[2] = Second(h)
    BY <1>6
  <2>2. bufs[1] = desc.buf[h] /\ bufs[2] = desc.buf[Second(h)]
    BY <2>1
  <2> QED BY Zenon, <1>6, <2>2
<1>8. /\ BlkEnqueue(bufs) /\ phase' = [phase EXCEPT ![bufs[1].req] = "served"]
      /\ avail' = [avail EXCEPT !.ring[q.last_avail_idx % Num] = None]
      /\ used' = [used EXCEPT !.ring[used.idx % Num] = h, !.idx = Inc(used.idx)]
      /\ q'.last_avail_idx = Inc(q.last_avail_idx)
      /\ UNCHANGED <<desc, vq, rq>>
  BY Zenon, <1>3 DEF ProcessOne, AvailHead
<1> HIDE DEF bufs
<1>9. Moves(r) /\ phase' = [phase EXCEPT ![r] = "served"]
  BY Zenon, <1>7, <1>8 DEF BlkEnqueue, Moves
<1>10. /\ avail'.ring = [avail.ring EXCEPT ![q.last_avail_idx % Num] = None]
       /\ avail'.idx = avail.idx /\ avail'.event = avail.event
       /\ used'.ring = [used.ring EXCEPT ![used.idx % Num] = h]
       /\ used'.idx = Inc(used.idx) /\ used'.event = used.event
  BY Zenon, <1>0, <1>8 DEF TypeOK
<1>11. Serves(h, r)
  BY Zenon, <1>3, <1>4, <1>5, <1>6, <1>8, <1>9, <1>10 DEF Serves
<1> QED BY <1>11

\* The types of what it moves: a sector number is not larger after le32toh.
LEMMA MovesType ==
  ASSUME TypeOK, NEW r \in Reqs, Moves(r)
  PROVE  /\ disk' \in [Sectors -> Reqs \cup {0}] /\ mem' \in [Reqs -> Reqs \cup {0}]
         /\ Sector(rq[r].sector) \in Sectors
<1>1. rq[r].sector \in Sectors
  BY Zenon DEF TypeOK
<1>2. Sector(rq[r].sector) \in Sectors
  <2>1. rq[r].sector \in Nat /\ rq[r].sector < Capacity /\ Capacity \in Nat
    BY <1>1, DiskAssumption DEF Sectors
  <2>2. SectorMod \in Nat /\ SectorMod > 0
    BY DiskAssumption
  <2>3. \A s \in Nat, m \in Nat : m > 0 => s % m \in Nat /\ s % m <= s
    OBVIOUS
  <2> QED BY <2>1, <2>2, <2>3 DEF Sectors, Sector
<1>3. /\ disk \in [Sectors -> Reqs \cup {0}] /\ mem \in [Reqs -> Reqs \cup {0}]
  BY Zenon DEF TypeOK
<1>4. PICK s \in Sectors : s = Sector(rq[r].sector)
  BY Zenon, <1>2
<1>5. disk[s] \in Reqs \cup {0} /\ mem[r] \in Reqs \cup {0}
  BY Zenon, <1>3
<1>6. \/ mem' = [mem EXCEPT ![r] = disk[s]] /\ disk' = disk
      \/ disk' = [disk EXCEPT ![s] = mem[r]] /\ mem' = mem
  BY Zenon, <1>4 DEF Moves
<1> QED BY Zenon, <1>2, <1>3, <1>5, <1>6

\* The oldest entry leaves the available ring, and a used one is added.
LEMMA ServesCounts ==
  ASSUME TypeOK, RingInv, q.last_avail_idx # avail.idx, NEW h, NEW r, Serves(h, r)
  PROVE  /\ Unserved' = Unserved - 1 /\ Uncompleted' = Uncompleted + 1
         /\ Inc(q.last_avail_idx) \in Idx /\ Inc(used.idx) \in Idx
         /\ \A x \in Idx : Waits(x)' <=> Waits(x) /\ x # q.last_avail_idx
         /\ \A x \in Idx : IsUsed(x)' <=> IsUsed(x) \/ x = used.idx
<1>1. /\ q.last_avail_idx \in Idx /\ avail.idx \in Idx
      /\ vq.last_used_idx \in Idx /\ used.idx \in Idx
  BY Zenon, Fields
<1>2. Unserved \in Nat /\ Unserved # 0 /\ Uncompleted \in Nat
      /\ 3 * (Unserved + Uncompleted) <= Num
  <2>1. Unserved \in Nat /\ Uncompleted \in Nat /\ vq.num_free \in Nat /\ Unserved # 0
        /\ 3 * (Unserved + Uncompleted) + vq.num_free = Num
    BY Zenon, Counts
  <2> QED BY <2>1, Sizes
<1>3. Uncompleted < IdxMod - 1
  BY <1>2, Sizes
<1>4. /\ q'.last_avail_idx = Inc(q.last_avail_idx) /\ avail'.idx = avail.idx
      /\ used'.idx = Inc(used.idx) /\ vq' = vq
  BY Zenon DEF Serves
<1>5. /\ Unserved' = Unserved - 1 /\ Inc(q.last_avail_idx) \in Idx
      /\ \A x \in Idx : Waits(x)' <=> Waits(x) /\ x # q.last_avail_idx
  <2>1. /\ Inc(q.last_avail_idx) \in Idx
        /\ Dist(Inc(q.last_avail_idx), avail.idx) = Unserved - 1
        /\ \A x \in Idx : Dist(Inc(q.last_avail_idx), x)
                            < Dist(Inc(q.last_avail_idx), avail.idx)
             <=> Dist(q.last_avail_idx, x) < Unserved /\ x # q.last_avail_idx
    BY <1>1, DistLess DEF Unserved
  <2>2. Unserved' = Dist(Inc(q.last_avail_idx), avail.idx)
    BY Zenon, <1>4 DEF Unserved, Dist
  <2>3. \A x : Waits(x)' <=> Dist(Inc(q.last_avail_idx), x)
                               < Dist(Inc(q.last_avail_idx), avail.idx)
    BY Zenon, <1>4, <2>2 DEF Waits, Dist
  <2> QED BY Zenon, <2>1, <2>2, <2>3 DEF Waits
<1>6. /\ Uncompleted' = Uncompleted + 1 /\ Inc(used.idx) \in Idx
      /\ \A x \in Idx : IsUsed(x)' <=> IsUsed(x) \/ x = used.idx
  <2>1. /\ Inc(used.idx) \in Idx
        /\ Dist(vq.last_used_idx, Inc(used.idx)) = Uncompleted + 1
        /\ \A x \in Idx : Dist(vq.last_used_idx, x)
                            < Dist(vq.last_used_idx, Inc(used.idx))
             <=> Dist(vq.last_used_idx, x) < Uncompleted \/ x = used.idx
    BY Zenon, <1>1, <1>3, DistMore DEF Uncompleted
  <2>2. Uncompleted' = Dist(vq.last_used_idx, Inc(used.idx))
    BY Zenon, <1>4 DEF Uncompleted, Dist
  <2>3. \A x : IsUsed(x)' <=> Dist(vq.last_used_idx, x)
                                < Dist(vq.last_used_idx, Inc(used.idx))
    BY Zenon, <1>4, <2>2 DEF IsUsed, Dist
  <2> QED BY Zenon, <2>1, <2>2, <2>3 DEF IsUsed
<1> QED BY Zenon, <1>5, <1>6

\* The entries of both rings are still heads of different chains.
LEMMA ServesRings ==
  ASSUME TypeOK, RingInv, RqInv, q.last_avail_idx # avail.idx,
         NEW h, NEW r, Serves(h, r)
  PROVE  RingInv'
<1>0. PICK a \in Idx : a = q.last_avail_idx
  BY Zenon, Fields
<1>1. PICK u \in Idx : u = used.idx
  BY Zenon, Fields
<1>2. /\ Unserved' = Unserved - 1 /\ Uncompleted' = Uncompleted + 1
      /\ \A x \in Idx : Waits(x)' <=> Waits(x) /\ x # a
      /\ \A x \in Idx : IsUsed(x)' <=> IsUsed(x) \/ x = u
  BY Zenon, <1>0, <1>1, ServesCounts
<1>3. /\ h \in Descs /\ r = vq.data[h] /\ r # None /\ phase[r] = "queued"
      /\ h = AvailHead(a) /\ vq' = vq /\ phase' = [phase EXCEPT ![r] = "served"]
      /\ avail'.ring = [avail.ring EXCEPT ![a % Num] = None]
      /\ used'.ring = [used.ring EXCEPT ![u % Num] = h]
  BY Zenon, <1>0, <1>1 DEF Serves
<1>4. /\ Unserved \in Nat /\ Uncompleted \in Nat /\ vq.num_free \in Nat
      /\ Unserved # 0 /\ Unserved < Num /\ Uncompleted < Num
      /\ 3 * (Unserved + Uncompleted) + vq.num_free = Num
  BY Counts, Sizes
<1>5. Waits(a) /\ Dist(a, a) = 0
  <2>1. Dist(a, a) = 0
    BY Zenon, DistType
  <2> QED BY <1>0, <1>4, <2>1 DEF Waits
<1>6. ASSUME NEW d, NEW p, HeadOf(d, p), d # h PROVE HeadOf(d, p)'
  <2>1. d \in Descs /\ vq.data[d] # None /\ phase[vq.data[d]] = p
    BY Zenon, <1>6 DEF HeadOf
  <2>2. vq.data[d] # r
    BY Zenon, <1>3, <1>6, <2>1 DEF RqInv
  <2>3. vq.data[d] \in Reqs /\ phase \in [Reqs -> {"free", "queued", "served"}]
    BY <2>1, Fields DEF TypeOK
  <2>4. phase'[vq.data[d]] = p
    BY Zenon, <1>3, <2>1, <2>2, <2>3
  <2> QED BY Zenon, <1>3, <2>1, <2>4 DEF HeadOf
<1>7. HeadOf(h, "served")'
  <2>1. vq.data[h] \in Reqs /\ phase \in [Reqs -> {"free", "queued", "served"}]
    BY <1>3, Fields DEF TypeOK
  <2>2. phase'[vq.data[h]] = "served"
    BY Zenon, <1>3, <2>1
  <2> QED BY Zenon, <1>3, <2>2 DEF HeadOf
<1>8. ASSUME NEW x \in Idx, Waits(x), x # a
      PROVE  AvailHead(x)' = AvailHead(x) /\ AvailHead(x) # h
             /\ HeadOf(AvailHead(x), "queued")
  <2>1. AvailHead(x) # h /\ HeadOf(AvailHead(x), "queued")
    BY Zenon, <1>3, <1>5, <1>8 DEF RingInv
  <2>2. Dist(a, x) < Num /\ Dist(a, a) < Num
    <3>1. Dist(a, x) \in Nat /\ Dist(a, x) < Unserved
      BY Zenon, <1>0, <1>8, DistType, Sizes DEF Waits
    <3> QED BY <1>4, <1>5, <3>1, Sizes
  <2>3. x % Num # a % Num /\ x % Num \in Descs
    BY Zenon, <1>8, <2>2, WindowSlots, SlotType
  <2>4. avail'.ring[x % Num] = avail.ring[x % Num]
    BY Zenon, <1>3, <2>3, Fields
  <2> QED BY Zenon, <2>1, <2>4 DEF AvailHead
<1>9. ASSUME NEW x \in Idx, IsUsed(x)
      PROVE  UsedHead(x)' = UsedHead(x) /\ UsedHead(x) # h /\ x # u
             /\ HeadOf(UsedHead(x), "served")
  <2>1. HeadOf(UsedHead(x), "served")
    BY Zenon, <1>9 DEF RingInv
  <2>2. UsedHead(x) # h
    BY Zenon, <1>3, <2>1 DEF HeadOf
  <2>3. PICK l \in Idx : l = vq.last_used_idx
    BY Zenon, Fields
  <2>4. Dist(l, x) < Num /\ Dist(l, u) < Num /\ x # u
    <3>1. Dist(l, x) \in Nat /\ Dist(l, x) < Uncompleted /\ Dist(l, u) = Uncompleted
      BY Zenon, <1>1, <1>9, <2>3, DistType, Sizes DEF IsUsed, Uncompleted
    <3> QED BY <1>4, <3>1, Sizes
  <2>5. x % Num # u % Num /\ x % Num \in Descs
    BY Zenon, <2>4, WindowSlots, SlotType
  <2>6. used'.ring[x % Num] = used.ring[x % Num]
    BY Zenon, <1>3, <2>5, Fields
  <2> QED BY Zenon, <2>1, <2>2, <2>4, <2>6 DEF UsedHead
<1>10. UsedHead(u)' = h
  <2>1. u % Num \in Descs
    BY Zenon, SlotType
  <2> QED BY Zenon, <1>3, <2>1, Fields DEF UsedHead
<1>11. ChainLen * (Unserved' + Uncompleted') + vq'.num_free = Num
  BY <1>2, <1>3, <1>4, Sizes
<1>12. ASSUME NEW x \in Idx, Waits(x)' PROVE HeadOf(AvailHead(x), "queued")'
  <2>1. PICK d : d = AvailHead(x) /\ d = AvailHead(x)'
    BY Zenon, <1>2, <1>8, <1>12
  <2>2. HeadOf(d, "queued") /\ d # h
    BY Zenon, <1>2, <1>8, <1>12, <2>1
  <2>3. HeadOf(d, "queued")'
    BY Zenon, <1>6, <2>2
  <2> QED BY Zenon, <2>1, <2>3 DEF HeadOf
<1>13. ASSUME NEW x \in Idx, IsUsed(x)' PROVE HeadOf(UsedHead(x), "served")'
  <2>1. CASE IsUsed(x)
    <3>1. PICK d : d = UsedHead(x) /\ d = UsedHead(x)'
      BY Zenon, <1>9, <2>1
    <3>2. HeadOf(d, "served") /\ d # h
      BY Zenon, <1>9, <2>1, <3>1
    <3>3. HeadOf(d, "served")'
      BY Zenon, <1>6, <3>2
    <3> QED BY Zenon, <3>1, <3>3 DEF HeadOf
  <2>2. CASE x = u
    BY Zenon, <1>7, <1>10, <2>2 DEF HeadOf
  <2> QED BY Zenon, <1>2, <1>13, <2>1, <2>2
<1>14. \A x, y \in Idx :
         Waits(x)' /\ Waits(y)' /\ AvailHead(x)' = AvailHead(y)' => x = y
  BY Zenon, <1>2, <1>8 DEF RingInv
<1>15. \A x, y \in Idx :
         IsUsed(x)' /\ IsUsed(y)' /\ UsedHead(x)' = UsedHead(y)' => x = y
  BY Zenon, <1>2, <1>9, <1>10 DEF RingInv
<1> QED BY Zenon, <1>11, <1>12, <1>13, <1>14, <1>15 DEF RingInv

\* The device serves a request; the last one available always interrupts.
LEMMA ProcessOneStep ==
  ASSUME IInv, ProcessOne
  PROVE  IInv'
<1>0. TypeOK /\ RingInv /\ ChainInv /\ FreeInv /\ RqInv /\ PcInv
  BY Zenon DEF IInv
<1>1. PICK h, r : Serves(h, r)
  BY Zenon, ProcessOneServes
<1>2. pc = "process" /\ q.last_avail_idx # avail.idx
  BY Zenon DEF ProcessOne
<1>3. UNCHANGED <<desc, vq, irqs_enabled, req_done, blkVars, ret, rq>>
  BY Zenon DEF ProcessOne
<1>4. RingInv'
  BY Zenon, <1>0, <1>1, <1>2, ServesRings
<1>5. /\ Unserved' = Unserved - 1 /\ Uncompleted' = Uncompleted + 1
      /\ Inc(q.last_avail_idx) \in Idx /\ Inc(used.idx) \in Idx
  BY Zenon, <1>0, <1>1, <1>2, ServesCounts
<1>6. PICK send \in BOOLEAN :
        /\ send = SendIrq(Inc(used.idx), Inc(q.last_avail_idx))
        /\ q' = [last_avail_idx |-> Inc(q.last_avail_idx),
                 last_used_idx_signaled |-> IF send THEN Inc(used.idx)
                                            ELSE q.last_used_idx_signaled,
                 int_status |-> q.int_status \/ send]
        /\ pending' = (pending \/ (send /\ ~irqs_enabled))
        /\ pc' = IF send /\ irqs_enabled THEN "interrupt" ELSE "event"
  BY Zenon DEF ProcessOne, SendIrq, vring_need_event
<1>7. /\ h \in Descs /\ r \in Reqs /\ r = vq.data[h] /\ r # None
      /\ phase' = [phase EXCEPT ![r] = "served"] /\ Moves(r)
      /\ avail'.ring = [avail.ring EXCEPT ![q.last_avail_idx % Num] = None]
      /\ avail'.idx = avail.idx /\ avail'.event = avail.event
      /\ used'.ring = [used.ring EXCEPT ![used.idx % Num] = h]
      /\ used'.idx = Inc(used.idx) /\ used'.event = used.event
      /\ q'.last_avail_idx = Inc(q.last_avail_idx)
  BY Zenon, <1>1 DEF Serves
<1>8. TypeOK'
  <2>1. avail' \in [ring : [Descs -> Descs \cup {None}], idx : Idx, event : Idx]
    <3>1. avail' = [ring |-> avail'.ring, idx |-> avail'.idx, event |-> avail'.event]
      BY Zenon, <1>0 DEF TypeOK, ProcessOne
    <3>2. avail'.ring \in [Descs -> Descs \cup {None}]
      BY Zenon, <1>0, <1>7, Fields
    <3> QED BY Zenon, <1>0, <1>7, <3>1, <3>2, Fields
  <2>2. used' \in [ring : [Descs -> Descs \cup {None}], idx : Idx, event : Idx]
    <3>1. used' = [ring |-> used'.ring, idx |-> used'.idx, event |-> used'.event]
      BY Zenon, <1>0 DEF TypeOK, ProcessOne
    <3>2. used'.ring \in [Descs -> Descs \cup {None}]
      BY Zenon, <1>0, <1>7, Fields
    <3> QED BY Zenon, <1>0, <1>5, <1>7, <3>1, <3>2, Fields
  <2>3. q' \in [last_avail_idx : Idx, last_used_idx_signaled : Idx,
                int_status : BOOLEAN]
    <3>1. q.last_used_idx_signaled \in Idx
      BY Zenon, <1>0, Fields
    <3>2. (q.int_status \/ send) \in BOOLEAN
      BY Zenon
    <3> QED BY Zenon, <1>5, <1>6, <3>1, <3>2
  <2>4. disk' \in [Sectors -> Reqs \cup {0}] /\ mem' \in [Reqs -> Reqs \cup {0}]
    BY Zenon, <1>0, <1>7, MovesType
  <2>5. phase' \in [Reqs -> {"free", "queued", "served"}]
    BY Zenon, <1>0, <1>7 DEF TypeOK
  <2>6. pending' \in BOOLEAN
    BY <1>6, Zenon
  <2>7. pc' \in {"interrupt", "event"}
    BY Zenon, <1>6
  <2> QED BY Zenon, <1>0, <1>3, <2>1, <2>2, <2>3, <2>4, <2>5, <2>6, <2>7 DEF TypeOK, blkVars
<1>9. ChainInv' /\ FreeInv'
  <2>1. ChainInv'
    BY Zenon, <1>0, <1>3 DEF ChainInv, Second, Third
  <2>2. ASSUME NEW f, FreeList(f) PROVE FreeList(f)'
    BY Zenon, <1>3, <2>2 DEF FreeList, Held, Second, Third
  <2> QED BY Zenon, <1>0, <2>1, <2>2 DEF FreeInv
<1>10. RqInv'
  <2>1. Queued' = Queued /\ vq' = vq
    BY Zenon, <1>3 DEF Queued, blkVars
  <2>2. phase \in [Reqs -> {"free", "queued", "served"}]
    BY Zenon, <1>0 DEF TypeOK
  <2>3. ASSUME NEW d \in Descs, vq.data[d] # None PROVE phase'[vq.data[d]] # "free"
    <3>1. vq.data[d] \in Reqs /\ phase[vq.data[d]] # "free"
      BY Zenon, <1>0, <2>3, Fields DEF RqInv
    <3> QED BY Zenon, <1>7, <2>2, <3>1
  <2>4. ASSUME NEW i \in DOMAIN Queued PROVE phase'[Queued[i]] = "queued"
    <3>1. Queued[i] # r /\ phase[Queued[i]] = "queued"
      BY Zenon, <1>0, <1>7 DEF RqInv
    <3>2. Queued[i] \in Reqs
      BY <1>0, QueuedType
    <3> QED BY Zenon, <1>7, <2>2, <3>1, <3>2
  <2> QED BY Zenon, <1>0, <2>1, <2>3, <2>4 DEF RqInv
<1>11. PcInv'
  <2>1. /\ ~stopped
        /\ ret = "idle" => irqs_enabled /\ Settled
        /\ ret # "idle" => ~irqs_enabled
        /\ ret = "stop" => vq.num_added = 0
    BY Zenon, <1>0, <1>2 DEF PcInv
  <2>2. Unserved \in Nat /\ Unserved # 0 /\ Uncompleted \in Nat
    BY Zenon, <1>0, <1>2, Counts
  <2>3. Uncompleted' > 0
    BY <1>5, <2>2
  <2>4. Unserved' = 0 => send
    <3>1. Unserved' = 0 <=> q'.last_avail_idx = avail'.idx
      <4>1. q'.last_avail_idx \in Idx /\ avail'.idx \in Idx
        BY Zenon, <1>8 DEF TypeOK
      <4>2. Unserved' = Dist(q'.last_avail_idx, avail'.idx)
        BY Zenon DEF Unserved, Dist
      <4> QED BY Zenon, <4>1, <4>2, DistType
    <3> QED BY Zenon, <1>6, <1>7, <3>1 DEF SendIrq
  <2>5. send => q'.int_status
    BY Zenon, <1>6
  <2>6. /\ list' = list /\ stopped' = stopped /\ vq' = vq /\ ret' = ret
        /\ irqs_enabled' = irqs_enabled
    BY Zenon, <1>3 DEF blkVars
  <2>7. CASE send /\ irqs_enabled
    <3>1. pc' = "interrupt" /\ ret = "idle" /\ Settled
      BY Zenon, <1>6, <2>1, <2>7
    <3>2. Settled'
      BY Zenon, <1>6, <2>6, <2>7, <3>1 DEF Settled
    <3> QED BY Zenon, <2>1, <2>3, <2>5, <2>6, <2>7, <3>1, <3>2 DEF PcInv
  <2>8. CASE ~(send /\ irqs_enabled)
    <3>1. pc' = "event"
      BY Zenon, <1>6, <2>8
    <3>2. ASSUME ret' = "idle"
          PROVE  irqs_enabled' /\ Settled' /\ Unserved' # 0
      BY Zenon, <1>6, <2>1, <2>4, <2>6, <2>8, <3>2 DEF Settled
    <3>3. ASSUME ret' # "idle"
          PROVE  ~irqs_enabled' /\ (Unserved' = 0 => pending' /\ q'.int_status)
      BY Zenon, <1>6, <2>1, <2>4, <2>5, <2>6, <3>3
    <3> QED BY Zenon, <2>1, <2>3, <2>6, <3>1, <3>2, <3>3 DEF PcInv
  <2> QED BY Zenon, <2>7, <2>8
<1> QED BY <1>4, <1>8, <1>9, <1>10, <1>11 DEF IInv

-----------------------------------------------------------------------------
(***************************************************************************)
(* The driver takes a used chain back.                                     *)
(***************************************************************************)
\* The oldest used entry is the chain h of the request r, and becomes free.
Returns(h, r) ==
  /\ h \in Descs /\ r \in Reqs /\ h = UsedHead(vq.last_used_idx)
  /\ r = vq.data[h] /\ r # None /\ phase[r] = "served"
  /\ desc'.next = [desc.next EXCEPT ![Third(h)] = vq.free_head]
  /\ desc'.cont = desc.cont
  /\ desc'.buf = [d \in Descs |-> IF d \in {h, Second(h), Third(h)} THEN None
                                  ELSE desc.buf[d]]
  /\ used'.ring = [used.ring EXCEPT ![vq.last_used_idx % Num] = None]
  /\ used'.idx = used.idx /\ used'.event = used.event
  /\ vq'.free_head = h /\ vq'.num_free = vq.num_free + 3
  /\ vq'.data = [vq.data EXCEPT ![h] = None]
  /\ vq'.last_used_idx = Inc(vq.last_used_idx) /\ vq'.num_added = vq.num_added
  /\ phase' = [phase EXCEPT ![r] = "free"]
  /\ rq' = [rq EXCEPT ![r] = NoRequest] /\ mem' = [mem EXCEPT ![r] = 0]

\* virtqueue_get_buf takes the oldest used entry.
LEMMA GetBufReturns ==
  ASSUME IInv, GetBuf
  PROVE  \E h, r : Returns(h, r)
<1>0. TypeOK /\ RingInv /\ ChainInv
  BY Zenon DEF IInv
<1>1. vq.last_used_idx \in Idx /\ used.idx \in Idx /\ vq.last_used_idx # used.idx
  BY Zenon, <1>0, Fields DEF GetBuf, MoreUsed
<1>2. HeadOf(UsedHead(vq.last_used_idx), "served")
  <2>1. Dist(vq.last_used_idx, vq.last_used_idx) = 0
    BY Zenon, <1>1, DistType
  <2>2. Uncompleted \in Idx /\ Uncompleted # 0
    BY Zenon, <1>1, DistType DEF Uncompleted
  <2>3. IsUsed(vq.last_used_idx)
    BY <2>1, <2>2, Sizes DEF IsUsed
  <2> QED BY Zenon, <1>0, <1>1, <2>3 DEF RingInv
<1>3. PICK h : h = UsedHead(vq.last_used_idx)
  BY Zenon
<1>4. h \in Descs /\ vq.data[h] # None /\ phase[vq.data[h]] = "served"
  BY Zenon, <1>2, <1>3 DEF HeadOf
<1>5. PICK r : r = vq.data[h]
  BY Zenon
<1>6. r \in Reqs /\ Chain(h) = <<h, Second(h), Third(h)>>
  BY Zenon, <1>0, <1>4, <1>5, ChainOf
<1>7. /\ Len(Chain(h)) = 3 /\ Chain(h)[Len(Chain(h))] = Third(h) /\ Freed(Chain(h)) = 3
      /\ Range(Chain(h)) = {h, Second(h), Third(h)}
  BY <1>6 DEF Range, Freed
<1>8. /\ desc' = [desc EXCEPT !.next[Chain(h)[Len(Chain(h))]] = vq.free_head,
                    !.buf = [d \in Descs |-> IF d \in Range(Chain(h)) THEN None ELSE @[d]]]
      /\ used' = [used EXCEPT !.ring[vq.last_used_idx % Num] = None]
      /\ vq' = [vq EXCEPT !.free_head = h, !.num_free = @ + Freed(Chain(h)),
                          !.data[h] = None, !.last_used_idx = Inc(@)]
      /\ phase' = [phase EXCEPT ![r] = "free"]
      /\ rq' = [rq EXCEPT ![r] = NoRequest] /\ mem' = [mem EXCEPT ![r] = 0]
  BY Zenon, <1>3, <1>5 DEF GetBuf, UsedHead
<1>9. /\ desc'.next = [desc.next EXCEPT ![Third(h)] = vq.free_head]
      /\ desc'.cont = desc.cont
      /\ desc'.buf = [d \in Descs |-> IF d \in {h, Second(h), Third(h)} THEN None
                                      ELSE desc.buf[d]]
  BY Zenon, <1>0, <1>7, <1>8 DEF TypeOK
<1>10. /\ used'.ring = [used.ring EXCEPT ![vq.last_used_idx % Num] = None]
       /\ used'.idx = used.idx /\ used'.event = used.event
  BY Zenon, <1>0, <1>8 DEF TypeOK
<1>11. /\ vq'.free_head = h /\ vq'.num_free = vq.num_free + 3
       /\ vq'.data = [vq.data EXCEPT ![h] = None]
       /\ vq'.last_used_idx = Inc(vq.last_used_idx) /\ vq'.num_added = vq.num_added
  BY Zenon, <1>0, <1>7, <1>8 DEF TypeOK
<1>12. Returns(h, r)
  BY Zenon, <1>3, <1>4, <1>5, <1>6, <1>8, <1>9, <1>10, <1>11 DEF Returns
<1> QED BY Zenon, <1>12

\* The other chains are as they were: none shares a descriptor with h's.
LEMMA ReturnsOthers ==
  ASSUME TypeOK, ChainInv, RqInv, NEW h, NEW r, Returns(h, r),
         NEW g \in Descs, vq.data[g] # None, g # h
  PROVE  /\ vq'.data[g] = vq.data[g]
         /\ \A d \in {g, Second(g), Third(g)} :
              /\ d \in Descs /\ d \notin {h, Second(h), Third(h)}
              /\ desc'.buf[d] = desc.buf[d] /\ desc'.next[d] = desc.next[d]
         /\ Second(g)' = desc.next[g] /\ Third(g)' = desc.next[desc.next[g]]
<1>1. /\ h \in Descs /\ r = vq.data[h] /\ r # None
      /\ desc'.next = [desc.next EXCEPT ![Third(h)] = vq.free_head]
      /\ desc'.buf = [d \in Descs |-> IF d \in {h, Second(h), Third(h)} THEN None
                                      ELSE desc.buf[d]]
      /\ vq'.data = [vq.data EXCEPT ![h] = None]
  BY Zenon DEF Returns
<1>2. vq.data[g] # r
  BY Zenon, <1>1 DEF RqInv
<1>3. /\ Second(h) \in Descs /\ Third(h) \in Descs
      /\ \A d \in {h, Second(h), Third(h)} : desc.buf[d].req = r
  BY Zenon, <1>1, ChainOf
<1>4. /\ Second(g) \in Descs /\ Third(g) \in Descs
      /\ \A d \in {g, Second(g), Third(g)} : desc.buf[d].req = vq.data[g]
  BY Zenon, ChainOf
<1>5. ASSUME NEW d \in {g, Second(g), Third(g)}
      PROVE  d \in Descs /\ d \notin {h, Second(h), Third(h)}
  BY Zenon, <1>2, <1>3, <1>4
<1>6. ASSUME NEW d \in {g, Second(g), Third(g)}
      PROVE  desc'.buf[d] = desc.buf[d] /\ desc'.next[d] = desc.next[d]
  <2>1. d \in Descs /\ d # Third(h) /\ d \notin {h, Second(h), Third(h)}
    BY Zenon, <1>5
  <2>2. desc.next \in [Descs -> Descs]
    BY Zenon, Fields
  <2> QED BY Zenon, <1>1, <2>1, <2>2
<1>7. vq'.data[g] = vq.data[g]
  BY Zenon, <1>1, Fields
<1>8. Second(g)' = desc.next[g]
  BY Zenon, <1>6 DEF Second
<1>9. Third(g)' = desc.next[desc.next[g]]
  BY Zenon, <1>6 DEF Second, Third
<1> QED BY Zenon, <1>5, <1>6, <1>7, <1>8, <1>9

\* So they still hold the buffers of their requests.
LEMMA ReturnsChains ==
  ASSUME TypeOK, ChainInv, RqInv, NEW h, NEW r, Returns(h, r)
  PROVE  ChainInv'
<1> SUFFICES ASSUME NEW g \in Descs, vq'.data[g] # None
             PROVE  /\ desc'.cont[g] /\ desc'.cont[Second(g)'] /\ ~desc'.cont[Third(g)']
                    /\ desc'.buf[g] = Buffer(vq'.data[g], "header")
                    /\ desc'.buf[Second(g)'] = Buffer(vq'.data[g], "data")
                    /\ desc'.buf[Third(g)'] = Buffer(vq'.data[g], "status")
  BY Zenon DEF ChainInv, Buffer
<1>1. /\ h \in Descs /\ vq'.data = [vq.data EXCEPT ![h] = None]
      /\ desc'.cont = desc.cont
  BY Zenon DEF Returns
<1>2. vq.data[g] # None /\ g # h
  BY Zenon, <1>1, Fields
<1>3. /\ vq'.data[g] = vq.data[g]
      /\ desc'.buf[g] = desc.buf[g] /\ desc'.buf[Second(g)] = desc.buf[Second(g)]
      /\ desc'.buf[Third(g)] = desc.buf[Third(g)]
      /\ Second(g)' = Second(g) /\ Third(g)' = Third(g)
  BY <1>2, ReturnsOthers DEF Second, Third
<1>4. /\ desc.cont[g] /\ desc.cont[Second(g)] /\ ~desc.cont[Third(g)]
      /\ desc.buf[g] = Buffer(vq.data[g], "header")
      /\ desc.buf[Second(g)] = Buffer(vq.data[g], "data")
      /\ desc.buf[Third(g)] = Buffer(vq.data[g], "status")
  BY Zenon, <1>2 DEF ChainInv
<1> QED BY Zenon, <1>1, <1>3, <1>4

\* The three descriptors of the chain come first in the list.
LEMMA ReturnsFree ==
  ASSUME TypeOK, ChainInv, RqInv, NEW h, NEW r, Returns(h, r), NEW f, FreeList(f)
  PROVE  FreeInv'
<1>0. PICK n \in Nat : n = vq.num_free
  BY Fields
<1>1. PICK b \in Descs : b = Second(h)
  BY Zenon, ChainOf DEF Returns
<1>2. PICK c \in Descs : c = Third(h)
  BY Zenon, ChainOf DEF Returns
<1>3. /\ h \in Descs /\ vq.data[h] # None /\ h # b /\ h # c /\ b # c
      /\ b = desc.next[h] /\ c = desc.next[b]
      /\ desc.buf[h] # None /\ desc.buf[b] # None /\ desc.buf[c] # None
  <2>1. h \in Descs /\ vq.data[h] # None
    BY Zenon DEF Returns
  <2> QED BY Zenon, <1>1, <1>2, <2>1, ChainOf DEF Second, Third
<1>4. /\ desc'.next = [desc.next EXCEPT ![c] = vq.free_head]
      /\ desc'.buf = [d \in Descs |-> IF d \in {h, b, c} THEN None ELSE desc.buf[d]]
      /\ vq'.free_head = h /\ vq'.num_free = n + 3
      /\ vq'.data = [vq.data EXCEPT ![h] = None]
  BY Zenon, <1>0, <1>1, <1>2 DEF Returns
<1>5. /\ f \in [1 .. n -> Descs] /\ (n > 0 => f[1] = vq.free_head)
      /\ \A i \in 1 .. n - 1 : f[i + 1] = desc.next[f[i]]
      /\ \A i, j \in 1 .. n : f[i] = f[j] => i = j
      /\ \A i \in 1 .. n : desc.buf[f[i]] = None
      /\ \A d \in Descs : Held(d) \/ \E i \in 1 .. n : f[i] = d
  BY Zenon, <1>0 DEF FreeList
<1>6. \A i \in 1 .. n : f[i] \in Descs /\ f[i] # h /\ f[i] # b /\ f[i] # c
  <2>1. \A i \in 1 .. n : f[i] \in Descs /\ desc.buf[f[i]] = None
    BY Zenon, <1>5
  <2> QED BY Zenon, <1>3, <2>1
<1> DEFINE g == [i \in 1 .. n + 3 |-> IF i = 1 THEN h ELSE IF i = 2 THEN b
                                      ELSE IF i = 3 THEN c ELSE f[i - 3]]
<1>7. /\ g \in [1 .. n + 3 -> Descs] /\ g[1] = h /\ g[2] = b /\ g[3] = c
      /\ \A i \in 1 .. n : g[i + 3] = f[i]
      /\ \A i \in 1 .. n + 3 : i > 3 => g[i] = f[i - 3] /\ i - 3 \in 1 .. n
  BY <1>0, <1>3, <1>6
<1> HIDE DEF g
<1>8. desc.next \in [Descs -> Descs]
  BY Zenon, Fields
<1>9. ASSUME NEW i \in 1 .. n + 3 - 1 PROVE g[i + 1] = desc'.next[g[i]]
  <2>a. desc'.next[h] = b /\ desc'.next[b] = c
    BY Zenon, <1>3, <1>4, <1>8
  <2>1. CASE i = 1
    <3>1. g[i] = h /\ g[i + 1] = b
      BY <1>7, <2>1
    <3> QED BY Zenon, <2>a, <3>1
  <2>2. CASE i = 2
    <3>1. g[i] = b /\ g[i + 1] = c
      BY <1>7, <2>2
    <3> QED BY Zenon, <2>a, <3>1
  <2>3. CASE i = 3
    <3>1. n > 0 /\ 1 \in 1 .. n
      BY <1>0, <2>3
    <3>2. g[4] = f[1] /\ f[1] = vq.free_head
      BY <1>5, <1>7, <3>1
    <3> QED BY <1>4, <1>7, <1>8, <2>3, <3>2
  <2>4. CASE i > 3
    <3>1. /\ i - 3 \in 1 .. n /\ i - 3 \in 1 .. n - 1 /\ i + 1 \in 1 .. n + 3
          /\ i \in 1 .. n + 3 /\ i + 1 > 3 /\ (i + 1) - 3 = (i - 3) + 1
      BY <1>0, <2>4
    <3>2. g[i] = f[i - 3] /\ g[i + 1] = f[(i - 3) + 1]
      BY <1>7, <2>4, <3>1
    <3>3. f[(i - 3) + 1] = desc.next[f[i - 3]]
      BY Zenon, <1>5, <3>1
    <3>4. desc'.next[f[i - 3]] = desc.next[f[i - 3]]
      BY Zenon, <1>4, <1>6, <1>8, <3>1
    <3> QED BY Zenon, <3>2, <3>3, <3>4
  <2>5. i = 1 \/ i = 2 \/ i = 3 \/ i > 3
    BY <1>0
  <2> QED BY Zenon, <2>1, <2>2, <2>3, <2>4, <2>5
<1>10. ASSUME NEW i \in 1 .. n + 3, NEW j \in 1 .. n + 3, g[i] = g[j] PROVE i = j
  <2>1. CASE i > 3 /\ j > 3
    <3>1. f[i - 3] = f[j - 3] /\ i - 3 \in 1 .. n /\ j - 3 \in 1 .. n
      BY Zenon, <1>7, <1>10, <2>1
    <3>2. i - 3 = j - 3
      BY <1>5, <3>1
    <3> QED BY <1>0, <3>2
  <2>2. CASE i <= 3 /\ j > 3
    <3>1. i \in {1, 2, 3} /\ j - 3 \in 1 .. n /\ g[j] = f[j - 3]
      BY <1>0, <1>7, <2>2
    <3> QED BY <1>6, <1>7, <1>10, <3>1
  <2>3. CASE i > 3 /\ j <= 3
    <3>1. j \in {1, 2, 3} /\ i - 3 \in 1 .. n /\ g[i] = f[i - 3]
      BY <1>0, <1>7, <2>3
    <3> QED BY Zenon, <1>6, <1>7, <1>10, <3>1
  <2>4. CASE i <= 3 /\ j <= 3
    <3>1. i \in {1, 2, 3} /\ j \in {1, 2, 3}
      BY <1>0, <2>4
    <3> QED BY <1>3, <1>7, <1>10, <3>1
  <2> QED BY <1>0, <2>1, <2>2, <2>3, <2>4
<1>11. ASSUME NEW i \in 1 .. n + 3 PROVE desc'.buf[g[i]] = None
  <2>1. CASE i > 3
    <3>1. g[i] = f[i - 3] /\ i - 3 \in 1 .. n
      BY Zenon, <1>7, <2>1
    <3>2. f[i - 3] \in Descs /\ desc.buf[f[i - 3]] = None
      BY Zenon, <1>5, <1>6, <3>1
    <3> QED BY <1>4, <3>1, <3>2
  <2>2. CASE i <= 3
    <3>1. g[i] \in {h, b, c} /\ g[i] \in Descs
      <4>1. i \in {1, 2, 3}
        BY <1>0, <2>2
      <4> QED BY Zenon, <1>3, <1>7, <4>1
    <3> QED BY Zenon, <1>4, <3>1
  <2> QED BY <1>0, <2>1, <2>2
<1>12. ASSUME NEW d \in Descs PROVE Held(d)' \/ \E i \in 1 .. n + 3 : g[i] = d
  <2>1. CASE d \in {h, b, c}
    <3>1. 1 \in 1 .. n + 3 /\ 2 \in 1 .. n + 3 /\ 3 \in 1 .. n + 3
      BY <1>0
    <3> QED BY Zenon, <1>7, <2>1, <3>1
  <2>2. CASE \E i \in 1 .. n : f[i] = d
    <3>1. PICK i \in 1 .. n : f[i] = d
      BY Zenon, <2>2
    <3>2. i + 3 \in 1 .. n + 3
      BY <1>0
    <3> QED BY Zenon, <1>7, <3>1, <3>2
  <2>3. CASE Held(d) /\ d \notin {h, b, c}
    <3>1. PICK e \in Descs : vq.data[e] # None /\ d \in {e, Second(e), Third(e)}
      BY Zenon, <2>3 DEF Held
    <3>2. e # h
      BY Zenon, <1>1, <1>2, <2>3, <3>1
    <3>3. /\ vq'.data[e] = vq.data[e] /\ Second(e)' = Second(e) /\ Third(e)' = Third(e)
      BY <3>1, <3>2, ReturnsOthers DEF Second, Third
    <3>4. vq'.data[e] # None /\ d \in {e, Second(e)', Third(e)'}
      BY Zenon, <3>1, <3>3
    <3> QED BY Zenon, <3>4 DEF Held, Second, Third
  <2> QED BY Zenon, <1>5, <2>1, <2>2, <2>3
<1>13. FreeList(g)'
  <2>1. vq'.num_free = n + 3 /\ g[1] = vq'.free_head
    BY Zenon, <1>4, <1>7
  <2>2. /\ g \in [1 .. vq'.num_free -> Descs]
        /\ \A i \in 1 .. vq'.num_free - 1 : g[i + 1] = desc'.next[g[i]]
    <3>1. \A i \in 1 .. n + 3 - 1 : g[i + 1] = desc'.next[g[i]]
      BY Zenon, <1>9
    <3>2. 1 .. vq'.num_free = 1 .. n + 3 /\ 1 .. vq'.num_free - 1 = 1 .. n + 3 - 1
      BY <2>1
    <3>3. \A i \in 1 .. vq'.num_free - 1 : g[i + 1] = desc'.next[g[i]]
      BY Zenon, <3>1, <3>2
    <3>4. g \in [1 .. vq'.num_free -> Descs]
      BY Zenon, <1>7, <3>2
    <3> QED BY Zenon, <3>3, <3>4
  <2>3. \A i, j \in 1 .. vq'.num_free : g[i] = g[j] => i = j
    BY Zenon, <1>10, <2>1
  <2>4. \A i \in 1 .. vq'.num_free : desc'.buf[g[i]] = None
    BY Zenon, <1>11, <2>1
  <2>5. \A d \in Descs : Held(d)' \/ \E i \in 1 .. vq'.num_free : g[i] = d
    BY Zenon, <1>12, <2>1
  <2> QED BY Zenon, <2>1, <2>2, <2>3, <2>4, <2>5 DEF FreeList
<1> QED BY Zenon, <1>13 DEF FreeInv

\* The oldest entry leaves the used ring.
LEMMA ReturnsRings ==
  ASSUME TypeOK, RingInv, RqInv, vq.last_used_idx # used.idx, UNCHANGED <<avail, q>>,
         NEW h, NEW r, Returns(h, r)
  PROVE  /\ RingInv' /\ Unserved' = Unserved /\ vq.num_free + 3 \in 0 .. Num
         /\ Inc(vq.last_used_idx) \in Idx
<1>0. PICK a \in Idx : a = vq.last_used_idx
  BY Zenon, Fields
<1>1. /\ h \in Descs /\ r = vq.data[h] /\ r # None /\ phase[r] = "served"
      /\ h = UsedHead(a) /\ phase' = [phase EXCEPT ![r] = "free"]
      /\ used'.ring = [used.ring EXCEPT ![a % Num] = None] /\ used'.idx = used.idx
      /\ vq'.num_free = vq.num_free + 3 /\ vq'.data = [vq.data EXCEPT ![h] = None]
      /\ vq'.last_used_idx = Inc(a)
  BY Zenon, <1>0 DEF Returns
<1>2. /\ Unserved \in Nat /\ Uncompleted \in Nat /\ vq.num_free \in Nat
      /\ Uncompleted # 0 /\ Unserved < Num /\ Uncompleted < Num
      /\ 3 * (Unserved + Uncompleted) + vq.num_free = Num
  BY Counts, Sizes
<1>3. /\ Inc(a) \in Idx /\ Uncompleted' = Uncompleted - 1
      /\ \A x \in Idx : IsUsed(x)' <=> IsUsed(x) /\ x # a
  <2>1. /\ Inc(a) \in Idx /\ Dist(Inc(a), used.idx) = Uncompleted - 1
        /\ \A x \in Idx : Dist(Inc(a), x) < Dist(Inc(a), used.idx)
             <=> Dist(a, x) < Uncompleted /\ x # a
    BY Zenon, <1>0, Fields, DistLess DEF Uncompleted
  <2>2. Uncompleted' = Dist(Inc(a), used.idx)
    BY Zenon, <1>1 DEF Uncompleted, Dist
  <2>3. \A x : IsUsed(x)' <=> Dist(Inc(a), x) < Dist(Inc(a), used.idx)
    BY Zenon, <1>1, <2>2 DEF IsUsed, Dist
  <2> QED BY Zenon, <1>0, <2>1, <2>2, <2>3 DEF IsUsed
<1>4. /\ Unserved' = Unserved
      /\ \A x : (Waits(x)' <=> Waits(x)) /\ AvailHead(x)' = AvailHead(x)
  BY Zenon DEF Unserved, Waits, AvailHead, Dist
<1>5. IsUsed(a) /\ Dist(a, a) = 0
  <2>1. Dist(a, a) = 0
    BY Zenon, DistType
  <2> QED BY <1>0, <1>2, <2>1 DEF IsUsed
<1>6. ASSUME NEW d, NEW p, HeadOf(d, p), d # h PROVE HeadOf(d, p)'
  <2>1. d \in Descs /\ vq.data[d] # None /\ phase[vq.data[d]] = p
    BY Zenon, <1>6 DEF HeadOf
  <2>2. vq.data[d] # r
    <3>1. \A g, x \in Descs : vq.data[g] # None /\ vq.data[g] = vq.data[x] => g = x
      BY Zenon DEF RqInv
    <3> QED BY Zenon, <1>1, <1>6, <2>1, <3>1
  <2>3. vq.data[d] \in Reqs /\ phase \in [Reqs -> {"free", "queued", "served"}]
    <3>1. vq.data \in [Descs -> Reqs \cup {None}]
      BY Zenon, Fields
    <3>2. phase \in [Reqs -> {"free", "queued", "served"}]
      BY Zenon DEF TypeOK
    <3> QED BY Zenon, <2>1, <3>1, <3>2
  <2>4. phase'[vq.data[d]] = p
    BY Zenon, <1>1, <2>1, <2>2, <2>3
  <2>5. vq'.data[d] = vq.data[d]
    BY Zenon, <1>1, <1>6, <2>1, Fields
  <2> QED BY Zenon, <2>1, <2>4, <2>5 DEF HeadOf
<1>7. ASSUME NEW x \in Idx, IsUsed(x), x # a
      PROVE  UsedHead(x)' = UsedHead(x) /\ UsedHead(x) # h
             /\ HeadOf(UsedHead(x), "served")
  <2>1. UsedHead(x) # h /\ HeadOf(UsedHead(x), "served")
    BY Zenon, <1>1, <1>5, <1>7 DEF RingInv
  <2>2. Dist(a, x) < Num /\ Dist(a, a) < Num
    <3>1. Dist(a, x) \in Nat /\ Dist(a, x) < Uncompleted
      BY Zenon, <1>0, <1>7, DistType, Sizes DEF IsUsed
    <3> QED BY <1>2, <1>5, <3>1, Sizes
  <2>3. x % Num # a % Num /\ x % Num \in Descs
    BY Zenon, <1>7, <2>2, WindowSlots, SlotType
  <2>4. used'.ring[x % Num] = used.ring[x % Num]
    BY Zenon, <1>1, <2>3, Fields
  <2> QED BY Zenon, <2>1, <2>4 DEF UsedHead
<1>8. ASSUME NEW x \in Idx, Waits(x)
      PROVE  AvailHead(x) # h /\ HeadOf(AvailHead(x), "queued")
  BY Zenon, <1>1, <1>8 DEF RingInv, HeadOf
<1>9. ChainLen * (Unserved' + Uncompleted') + vq'.num_free = Num
  BY <1>1, <1>2, <1>3, <1>4, Sizes
<1>10. ASSUME NEW x \in Idx, Waits(x)' PROVE HeadOf(AvailHead(x), "queued")'
  <2>1. PICK d : d = AvailHead(x) /\ d = AvailHead(x)'
    BY Zenon, <1>4
  <2>2. HeadOf(d, "queued") /\ d # h
    BY Zenon, <1>4, <1>8, <1>10, <2>1
  <2>3. HeadOf(d, "queued")'
    BY Zenon, <1>6, <2>2
  <2> QED BY Zenon, <2>1, <2>3 DEF HeadOf
<1>11. ASSUME NEW x \in Idx, IsUsed(x)' PROVE HeadOf(UsedHead(x), "served")'
  <2>1. PICK d : d = UsedHead(x) /\ d = UsedHead(x)'
    BY Zenon, <1>3, <1>7, <1>11
  <2>2. HeadOf(d, "served") /\ d # h
    BY Zenon, <1>3, <1>7, <1>11, <2>1
  <2>3. HeadOf(d, "served")'
    BY Zenon, <1>6, <2>2
  <2> QED BY Zenon, <2>1, <2>3 DEF HeadOf
<1>12. \A x, y \in Idx :
         Waits(x)' /\ Waits(y)' /\ AvailHead(x)' = AvailHead(y)' => x = y
  BY Zenon, <1>4 DEF RingInv
<1>13. \A x, y \in Idx :
         IsUsed(x)' /\ IsUsed(y)' /\ UsedHead(x)' = UsedHead(y)' => x = y
  BY Zenon, <1>3, <1>7 DEF RingInv
<1>14. vq.num_free + 3 \in 0 .. Num
  BY <1>2, Sizes
<1> QED BY Zenon, <1>0, <1>3, <1>4, <1>9, <1>10, <1>11, <1>12, <1>13, <1>14 DEF RingInv

\* The driver completes a request and has its descriptors again.
LEMMA GetBufStep ==
  ASSUME IInv, GetBuf
  PROVE  IInv'
<1>0. TypeOK /\ RingInv /\ ChainInv /\ FreeInv /\ RqInv /\ PcInv
  BY Zenon DEF IInv
<1>1. PICK h, r : Returns(h, r)
  BY Zenon, GetBufReturns
<1>2. /\ vq.last_used_idx # used.idx /\ pc = "done" /\ req_done' = TRUE
      /\ UNCHANGED <<avail, q, irqs_enabled, pending, blkVars, pc, ret, disk>>
  BY Zenon DEF GetBuf, MoreUsed
<1>3. PICK f : FreeList(f)
  BY Zenon, <1>0 DEF FreeInv
<1>4. ChainInv' /\ FreeInv'
  BY Zenon, <1>0, <1>1, <1>3, ReturnsChains, ReturnsFree
<1>5. /\ RingInv' /\ Unserved' = Unserved /\ vq.num_free + 3 \in 0 .. Num
      /\ Inc(vq.last_used_idx) \in Idx
  BY Zenon, <1>0, <1>1, <1>2, ReturnsRings
<1>6. /\ h \in Descs /\ r \in Reqs /\ r = vq.data[h] /\ r # None
      /\ phase' = [phase EXCEPT ![r] = "free"]
      /\ rq' = [rq EXCEPT ![r] = NoRequest] /\ mem' = [mem EXCEPT ![r] = 0]
      /\ vq'.data = [vq.data EXCEPT ![h] = None] /\ vq'.num_added = vq.num_added
  BY Zenon, <1>1 DEF Returns
<1>7. TypeOK'
  <2>1. desc' \in [next : [Descs -> Descs], cont : [Descs -> BOOLEAN],
                   buf : [Descs -> [req : Reqs, part : Range(Parts)] \cup {None}]]
    <3>1. desc' = [next |-> desc'.next, cont |-> desc'.cont, buf |-> desc'.buf]
      BY Zenon, <1>0 DEF TypeOK, GetBuf
    <3>2. desc'.next \in [Descs -> Descs]
      <4>1. desc'.next = [desc.next EXCEPT ![Third(h)] = vq.free_head]
        BY Zenon, <1>1 DEF Returns
      <4>2. desc.next \in [Descs -> Descs] /\ vq.free_head \in Descs
        BY Zenon, <1>0, Fields
      <4> QED BY Zenon, <4>1, <4>2
    <3>3. desc'.cont \in [Descs -> BOOLEAN]
      BY Zenon, <1>0, <1>1, Fields DEF Returns
    <3>4. desc'.buf \in [Descs -> [req : Reqs, part : Range(Parts)] \cup {None}]
      BY <1>0, <1>1, Fields DEF Returns
    <3> QED BY Zenon, <3>1, <3>2, <3>3, <3>4
  <2>2. used' \in [ring : [Descs -> Descs \cup {None}], idx : Idx, event : Idx]
    <3>1. used' = [ring |-> used'.ring, idx |-> used'.idx, event |-> used'.event]
      BY Zenon, <1>0 DEF TypeOK, GetBuf
    <3>2. used'.ring \in [Descs -> Descs \cup {None}]
      <4>1. used'.ring = [used.ring EXCEPT ![vq.last_used_idx % Num] = None]
        BY Zenon, <1>1 DEF Returns
      <4>2. used.ring \in [Descs -> Descs \cup {None}]
        BY Zenon, <1>0, Fields
      <4> QED BY Zenon, <4>1, <4>2
    <3>3. used'.idx \in Idx /\ used'.event \in Idx
      BY Zenon, <1>0, <1>1, Fields DEF Returns
    <3> QED BY Zenon, <3>1, <3>2, <3>3
  <2>3. vq' \in [free_head : Descs, num_free : 0 .. Num,
                 data : [Descs -> Reqs \cup {None}], last_used_idx : Idx,
                 num_added : 0 .. Num]
    <3>1. vq' = [free_head |-> vq'.free_head, num_free |-> vq'.num_free,
                 data |-> vq'.data, last_used_idx |-> vq'.last_used_idx,
                 num_added |-> vq'.num_added]
      BY Zenon, <1>0 DEF TypeOK, GetBuf
    <3>2. vq'.data \in [Descs -> Reqs \cup {None}]
      BY Zenon, <1>0, <1>6, Fields
    <3>3. vq'.free_head \in Descs /\ vq'.num_free \in 0 .. Num /\ vq'.last_used_idx \in Idx
      BY Zenon, <1>1, <1>5 DEF Returns
    <3>4. vq'.num_added \in 0 .. Num
      BY Zenon, <1>0, <1>6, Fields
    <3> QED BY Zenon, <3>1, <3>2, <3>3, <3>4
  <2>4. phase' \in [Reqs -> {"free", "queued", "served"}]
    BY Zenon, <1>0, <1>6 DEF TypeOK
  <2>5. rq' \in [Reqs -> [op : Ops, sector : Sectors]]
    <3>1. NoRequest \in [op : Ops, sector : Sectors]
      BY DiskAssumption DEF NoRequest, Ops, Sectors
    <3>2. rq \in [Reqs -> [op : Ops, sector : Sectors]]
      BY Zenon, <1>0 DEF TypeOK
    <3> QED BY Zenon, <1>6, <3>1, <3>2
  <2>6. mem' \in [Reqs -> Reqs \cup {0}]
    BY Zenon, <1>0, <1>6 DEF TypeOK
  <2> QED BY Zenon, <1>0, <1>2, <2>1, <2>2, <2>3, <2>4, <2>5, <2>6 DEF TypeOK, blkVars
<1>8. RqInv'
  <2>1. Queued' = Queued
    BY Zenon, <1>2 DEF Queued, blkVars
  <2>2. phase \in [Reqs -> {"free", "queued", "served"}]
    BY Zenon, <1>0 DEF TypeOK
  <2>3. ASSUME NEW d \in Descs
        PROVE  /\ vq'.data[d] = IF d = h THEN None ELSE vq.data[d]
               /\ vq'.data[d] # None => vq'.data[d] # r
    <3>1. vq'.data[d] = IF d = h THEN None ELSE vq.data[d]
      BY Zenon, <1>0, <1>6, Fields
    <3> QED BY Zenon, <1>0, <1>6, <3>1 DEF RqInv
  <2>4. ASSUME NEW d \in Descs, vq'.data[d] # None PROVE phase'[vq'.data[d]] # "free"
    <3>1. vq'.data[d] \in Reqs /\ phase[vq'.data[d]] # "free" /\ vq'.data[d] # r
      BY <1>0, <2>3, <2>4, Fields DEF RqInv
    <3> QED BY Zenon, <1>6, <2>2, <3>1
  <2>5. ASSUME NEW i \in DOMAIN Queued PROVE phase'[Queued[i]] = "queued"
    <3>1. Queued[i] # r /\ phase[Queued[i]] = "queued"
      BY Zenon, <1>0, <1>6 DEF RqInv
    <3>2. Queued[i] \in Reqs
      BY <1>0, QueuedType
    <3> QED BY Zenon, <1>6, <2>2, <3>1, <3>2
  <2>6. ASSUME NEW i \in DOMAIN Queued, NEW d \in Descs PROVE vq'.data[d] # Queued[i]
    <3>1. Queued[i] # None /\ vq.data[d] # Queued[i]
      <4>1. Queued[i] \in Reqs
        BY <1>0, QueuedType
      <4> QED BY Zenon, <1>0, <4>1, ReqsAssumption DEF RqInv
    <3> QED BY Zenon, <2>3, <3>1
  <2>7. \A d, e \in Descs : vq'.data[d] # None /\ vq'.data[d] = vq'.data[e] => d = e
    BY <1>0, <2>3 DEF RqInv
  <2> QED BY Zenon, <1>0, <2>1, <2>4, <2>5, <2>6, <2>7 DEF RqInv
<1>9. PcInv'
  <2>1. /\ Settled /\ (irqs_enabled => ~stopped /\ ret = "idle")
        /\ ~irqs_enabled => CaughtUp
    BY Zenon, <1>0, <1>2 DEF PcInv
  <2>2. pc' = "done" /\ req_done' /\ irqs_enabled' = irqs_enabled
        /\ stopped' = stopped /\ ret' = ret
    BY Zenon, <1>2 DEF blkVars
  <2>3. Settled'
    BY Zenon, <1>2, <1>6, <2>1 DEF Settled, blkVars
  <2>4. CaughtUp => CaughtUp'
    <3>1. used'.event = used.event
      BY Zenon, <1>1 DEF Returns
    <3> QED BY Zenon, <1>2, <1>5, <3>1 DEF CaughtUp
  <2> QED BY Zenon, <2>1, <2>2, <2>3, <2>4 DEF PcInv
<1> QED BY Zenon, <1>4, <1>5, <1>7, <1>8, <1>9 DEF IInv

-----------------------------------------------------------------------------
(***************************************************************************)
(* The invariant is inductive.                                             *)
(***************************************************************************)
\* After the probe every descriptor is free and nothing is under way.
LEMMA InitInv ==
  ASSUME Init
  PROVE  IInv
<1>1. Num \in Nat /\ Num >= 3 /\ 0 \in Idx /\ 0 \in Descs /\ IdxMod \in Nat /\ IdxMod > 0
  BY Sizes DEF Descs
<1>2. /\ desc.next = [d \in Descs |-> (d + 1) % Num] /\ desc.cont = [d \in Descs |-> FALSE]
      /\ desc.buf = [d \in Descs |-> None]
      /\ avail.idx = 0 /\ used.idx = 0 /\ used.event = 0 /\ q.last_avail_idx = 0
      /\ vq.last_used_idx = 0 /\ vq.num_free = Num /\ vq.free_head = 0
      /\ vq.num_added = 0 /\ vq.data = [d \in Descs |-> None]
  BY Zenon DEF Init
<1>3. TypeOK
  <2>1. \A d \in Descs : (d + 1) % Num \in Descs
    BY <1>1 DEF Descs
  <2>2. desc \in [next : [Descs -> Descs], cont : [Descs -> BOOLEAN],
                  buf : [Descs -> [req : Reqs, part : Range(Parts)] \cup {None}]]
    BY Zenon, <2>1 DEF Init
  <2>3. /\ avail \in [ring : [Descs -> Descs \cup {None}], idx : Idx, event : Idx]
        /\ used \in [ring : [Descs -> Descs \cup {None}], idx : Idx, event : Idx]
    BY Zenon, <1>1 DEF Init
  <2>4. vq \in [free_head : Descs, num_free : 0 .. Num,
                data : [Descs -> Reqs \cup {None}], last_used_idx : Idx,
                num_added : 0 .. Num]
    BY <1>1 DEF Init
  <2>5. q \in [last_avail_idx : Idx, last_used_idx_signaled : Idx, int_status : BOOLEAN]
    BY Zenon, <1>1 DEF Init
  <2>6. rq \in [Reqs -> [op : Ops, sector : Sectors]]
    BY DiskAssumption DEF Init, NoRequest, Ops, Sectors
  <2>7. /\ phase \in [Reqs -> {"free", "queued", "served"}]
        /\ disk \in [Sectors -> Reqs \cup {0}] /\ mem \in [Reqs -> Reqs \cup {0}]
    BY Zenon DEF Init
  <2>8. /\ todo \in Seq(Reqs) /\ list \in Seq(Reqs) /\ pc = "idle" /\ ret = "idle"
    BY DEF Init
  <2>9. /\ irqs_enabled \in BOOLEAN /\ pending \in BOOLEAN /\ req_done \in BOOLEAN
        /\ stopped \in BOOLEAN
    BY Zenon DEF Init
  <2> QED BY Zenon, <2>2, <2>3, <2>4, <2>5, <2>6, <2>7, <2>8, <2>9 DEF TypeOK
<1>4. Unserved = 0 /\ Uncompleted = 0
  BY <1>1, <1>2, DistType DEF Unserved, Uncompleted
<1>5. \A x \in Idx : ~Waits(x) /\ ~IsUsed(x)
  <2> SUFFICES ASSUME NEW x \in Idx PROVE ~Waits(x) /\ ~IsUsed(x)
    BY Zenon
  <2>1. Dist(q.last_avail_idx, x) \in Nat /\ Dist(vq.last_used_idx, x) \in Nat
    BY Zenon, <1>1, <1>2, DistType, Sizes
  <2> QED BY <1>4, <2>1 DEF Waits, IsUsed
<1>6. RingInv
  <2>1. ChainLen * (Unserved + Uncompleted) + vq.num_free = Num
    BY <1>1, <1>2, <1>4, Sizes
  <2> QED BY Zenon, <1>5, <2>1 DEF RingInv
<1>7. ChainInv
  BY Zenon, <1>2 DEF ChainInv
<1>8. FreeInv
  <2> DEFINE f == [i \in 1 .. Num |-> i - 1]
  <2>1. f \in [1 .. Num -> Descs] /\ f[1] = 0
    BY <1>1 DEF Descs
  <2>2. ASSUME NEW i \in 1 .. Num - 1 PROVE f[i + 1] = desc.next[f[i]]
    <3>1. i \in Nat /\ i < Num /\ i \in 1 .. Num /\ i + 1 \in 1 .. Num /\ i - 1 \in Descs
      BY <1>1 DEF Descs
    <3>2. f[i + 1] = i /\ f[i] = i - 1
      BY <3>1
    <3>3. ((i - 1) + 1) % Num = i
      BY <1>1, <3>1
    <3> QED BY Zenon, <1>2, <3>1, <3>2, <3>3
  <2>3. \A i, j \in 1 .. Num : f[i] = f[j] => i = j
    BY <1>1
  <2>4. \A i \in 1 .. Num : desc.buf[f[i]] = None
    BY Zenon, <1>2, <2>1
  <2>5. \A d \in Descs : \E i \in 1 .. Num : f[i] = d
    <3> SUFFICES ASSUME NEW d \in Descs PROVE f[d + 1] = d /\ d + 1 \in 1 .. Num
      BY Zenon
    <3> QED BY <1>1 DEF Descs
  <2> HIDE DEF f
  <2>6. FreeList(f)
    BY Zenon, <1>2, <2>1, <2>2, <2>3, <2>4, <2>5 DEF FreeList
  <2> QED BY Zenon, <2>6 DEF FreeInv
<1>9. RqInv
  <2>1. Queued = <<>>
    BY ConcatEmpty DEF Init, Queued
  <2> QED BY <1>2, <2>1 DEF RqInv
<1>10. PcInv
  BY Zenon, <1>2, <1>4 DEF Init, PcInv, CaughtUp, Settled
<1> QED BY Zenon, <1>3, <1>6, <1>7, <1>8, <1>9, <1>10 DEF IInv

\* Every step of the driver, the device and the block layer keeps it.
LEMMA NextInv ==
  ASSUME IInv, [Next]_vars
  PROVE  IInv'
<1>1. ASSUME NEW r \in Reqs, NEW k \in Kinds, Submit(r, k[1], k[2]) PROVE IInv'
  BY Zenon, <1>1, SubmitStep
<1>2. ASSUME NEW r \in Reqs, QueueRq(r) PROVE IInv'
  BY Zenon, <1>2, QueueRqStep
<1>3. CASE RunHwQueue
  BY Zenon, <1>3, RunHwQueueStep
<1>4. CASE QueueRqFull
  BY Zenon, <1>4, QueueRqFullStep
<1>5. CASE Kick
  BY Zenon, <1>5, KickStep
<1>6. CASE QueueRqBusy
  BY Zenon, <1>6, QueueRqBusyStep
<1>7. CASE ProcessOne
  BY Zenon, <1>7, ProcessOneStep
<1>8. CASE SetAvailEvent
  BY Zenon, <1>8, SetAvailEventStep
<1>9. CASE ProcessReturn
  BY Zenon, <1>9, ProcessReturnStep
<1>10. CASE Interrupt
  BY Zenon, <1>10, InterruptStep
<1>11. CASE GetBuf
  BY Zenon, <1>11, GetBufStep
<1>12. CASE EnableCb
  BY Zenon, <1>12, EnableCbStep
<1>13. CASE UNCHANGED vars
  <2>1. /\ SameRing /\ UNCHANGED <<q, avail, used, vq, phase, list, todo>>
        /\ UNCHANGED <<irqVars, stopped, pc, ret>>
    BY Zenon, <1>13 DEF SameRing, vars, ringVars, blkVars, dataVars
  <2>2. TypeOK'
    BY Zenon, <1>13 DEF IInv, TypeOK, vars, ringVars, blkVars, dataVars, irqVars
  <2>3. RingInv' /\ ChainInv' /\ FreeInv'
    BY Zenon, <2>1, RingKept, EntriesKept DEF IInv
  <2>4. RqInv'
    BY Zenon, <2>1, RequestsKept DEF IInv, Queued
  <2>5. PcInv'
    BY Zenon, <2>1, RingKept DEF IInv, PcInv, CaughtUp, Settled, Dist, irqVars
  <2> QED BY Zenon, <2>2, <2>3, <2>4, <2>5 DEF IInv
<1> QED BY Zenon, <1>1, <1>2, <1>3, <1>4, <1>5, <1>6, <1>7, <1>8, <1>9, <1>10, <1>11, <1>12,
           <1>13 DEF Next, Step

\* The driver, the ring and the device keep the whole invariant.
THEOREM Inductive == Spec => []IInv
<1>1. Init => IInv
  BY Zenon, InitInv
<1>2. IInv /\ [Next]_vars => IInv'
  BY Zenon, NextInv
<1> QED BY <1>1, <1>2, PTL DEF Spec

-----------------------------------------------------------------------------
(***************************************************************************)
(* What the invariant says: no descriptor is lost, nothing is forgotten.   *)
(***************************************************************************)
LOCAL INSTANCE WellFoundedInduction

\* A set of numbers has a smallest one: what takes the place of induction.
LEMMA Smallest ==
  ASSUME NEW S \in SUBSET Nat, S # {}
  PROVE  \E x \in S : \A y \in S : x <= y
<1> DEFINE less == {ss \in Nat \X Nat : ss[1] < ss[2]}
<1>1. IsWellFoundedOn(less, Nat)
  BY Zenon, NatLessThanWellFounded DEF OpToRel
<1>2. PICK x \in S : \A y \in S : <<y, x>> \notin less
  <2> HIDE DEF less
  <2> QED BY Zenon, <1>1, WFMin
<1>3. ASSUME NEW y \in S PROVE x <= y
  <2>1. <<y, x>> \in Nat \X Nat /\ <<y, x>> \notin less
    BY Zenon, <1>2
  <2>2. ~(y < x)
    BY Zenon, <2>1
  <2> QED BY <2>2
<1> QED BY Zenon, <1>3

\* g follows the list for n descriptors.
Follows(g, n) ==
  g = [i \in 1 .. n |-> IF i = 1 THEN vq.free_head ELSE desc.next[g[i - 1]]]

\* The list can be followed as far as one likes.
LEMMA FollowsExists ==
  ASSUME NEW n \in Nat
  PROVE  \E g : Follows(g, n)
<1> DEFINE Bad == {m \in Nat : ~\E g : Follows(g, m)}
<1> SUFFICES ASSUME Bad # {} PROVE FALSE
  BY Zenon
<1>1. PICK m \in Bad : \A k \in Bad : m <= k
  BY Zenon, Smallest
<1>2. m # 0
  <2>1. Follows([i \in 1 .. 0 |-> 0], 0)
    BY DEF Follows
  <2> QED BY Zenon, <2>1
<1>3. m - 1 \in Nat /\ m - 1 \notin Bad
  BY <1>1, <1>2
<1>4. PICK f : Follows(f, m - 1)
  BY Zenon, <1>3
<1>5. \A i \in 1 .. m - 1 : f[i] = IF i = 1 THEN vq.free_head ELSE desc.next[f[i - 1]]
  BY Zenon, <1>4 DEF Follows
<1> DEFINE g == [i \in 1 .. m |-> IF i = 1 THEN vq.free_head ELSE desc.next[f[i - 1]]]
<1>6. \A i \in 1 .. m - 1 : g[i] = f[i]
  BY <1>3, <1>5
<1>7. \A i \in 1 .. m : i # 1 => g[i - 1] = f[i - 1]
  <2> HIDE DEF g
  <2> QED BY <1>3, <1>6
<1>8. Follows(g, m)
  BY Zenon, <1>7 DEF Follows
<1> QED BY Zenon, <1>8

\* Following the list gives the free descriptors.
LEMMA FreeAtIs ==
  ASSUME TypeOK, NEW f, FreeList(f)
  PROVE  \A i \in 1 .. vq.num_free : FreeAt[i] = f[i]
<1>1. /\ vq.num_free \in Nat /\ vq.num_free <= Num /\ Num \in Nat
  BY Fields, Sizes
<1>2. Follows(FreeAt, Num)
  <2>1. \E g : Follows(g, Num)
    BY Zenon, <1>1, FollowsExists
  <2> QED BY Zenon, <2>1 DEF FreeAt, Follows
<1>3. PICK g : g = FreeAt
  BY Zenon
<1>4. \A i \in 1 .. Num : g[i] = IF i = 1 THEN vq.free_head ELSE desc.next[g[i - 1]]
  BY Zenon, <1>2, <1>3 DEF Follows
<1> DEFINE Bad == {i \in 1 .. vq.num_free : g[i] # f[i]}
<1> SUFFICES ASSUME Bad # {} PROVE FALSE
  BY Zenon, <1>3
<1>5. PICK m \in Bad : \A k \in Bad : m <= k
  <2>1. Bad \in SUBSET Nat
    BY <1>1
  <2> HIDE DEF Bad
  <2> QED BY Zenon, <2>1, Smallest
<1>6. m \in Nat /\ m >= 1 /\ m <= vq.num_free /\ m \in 1 .. Num /\ g[m] # f[m]
  BY <1>1, <1>5
<1>7. CASE m = 1
  BY <1>1, <1>4, <1>6, <1>7 DEF FreeList
<1>8. CASE m # 1
  <2>1. m - 1 \in 1 .. vq.num_free - 1 /\ m - 1 \in 1 .. vq.num_free /\ (m - 1) + 1 = m
    BY <1>1, <1>6, <1>8
  <2>2. g[m - 1] = f[m - 1]
    BY <1>5, <1>6, <2>1
  <2>3. f[m] = desc.next[f[m - 1]]
    BY Zenon, <2>1 DEF FreeList
  <2> QED BY Zenon, <1>4, <1>6, <1>8, <2>2, <2>3
<1> QED BY Zenon, <1>7, <1>8

\* The free list and the chains are the descriptors, each in one place.
LEMMA InvConserves ==
  ASSUME IInv
  PROVE  DescriptorsConserved
<1>0. TypeOK /\ ChainInv /\ FreeInv /\ RqInv
  BY Zenon DEF IInv
<1>1. PICK f : FreeList(f)
  BY Zenon, <1>0 DEF FreeInv
<1>2. \A i \in 1 .. vq.num_free : FreeAt[i] = f[i]
  BY Zenon, <1>0, <1>1, FreeAtIs
<1> DEFINE free == {FreeAt[i] : i \in 1 .. vq.num_free}
           heads == {d \in Descs : vq.data[d] # None}
           chain(h) == Range(Chain(h))
<1>3. \A d \in free : \E i \in 1 .. vq.num_free : d = f[i] /\ d \in Descs /\ desc.buf[d] = None
  BY <1>1, <1>2 DEF FreeList
<1>4. \A i, j \in 1 .. vq.num_free : FreeAt[i] = FreeAt[j] => i = j
  BY <1>1, <1>2 DEF FreeList
<1>5. ASSUME NEW h \in heads
      PROVE  /\ chain(h) = {h, Second(h), Third(h)} /\ chain(h) \subseteq Descs
             /\ \A d \in chain(h) : desc.buf[d] # None /\ desc.buf[d].req = vq.data[h]
  <2>1. Chain(h) = <<h, Second(h), Third(h)>>
    BY Zenon, <1>0, ChainOf
  <2>2. chain(h) = {h, Second(h), Third(h)}
    BY <2>1 DEF Range
  <2> QED BY Zenon, <1>0, <2>2, ChainOf
<1>6. ASSUME NEW h \in heads
      PROVE  [i \in 1 .. ChainLen |-> desc.buf[Chain(h)[i]]]
               = [i \in 1 .. ChainLen |-> [req |-> vq.data[h], part |-> Parts[i]]]
  <2>1. Chain(h) = <<h, Second(h), Third(h)>>
    BY Zenon, <1>0, ChainOf
  <2>2. /\ desc.buf[h] = [req |-> vq.data[h], part |-> Parts[1]]
        /\ desc.buf[Second(h)] = [req |-> vq.data[h], part |-> Parts[2]]
        /\ desc.buf[Third(h)] = [req |-> vq.data[h], part |-> Parts[3]]
    BY Zenon, <1>0 DEF ChainInv, Buffer, Parts
  <2>3. Chain(h)[1] = h /\ Chain(h)[2] = Second(h) /\ Chain(h)[3] = Third(h)
    BY <2>1
  <2>4. ASSUME NEW i \in 1 .. 3
        PROVE  desc.buf[Chain(h)[i]] = [req |-> vq.data[h], part |-> Parts[i]]
    <3>1. i = 1 \/ i = 2 \/ i = 3
      OBVIOUS
    <3> QED BY Zenon, <2>2, <2>3, <3>1
  <2> QED BY Zenon, <2>4, Sizes
<1>7. ASSUME NEW h \in heads PROVE chain(h) \cap free = {}
  <2> HIDE DEF free, heads, chain
  <2> QED BY <1>3, <1>5
<1>8. ASSUME NEW h \in heads, NEW g \in heads \ {h} PROVE chain(g) \cap chain(h) = {}
  <2>1. vq.data[g] # vq.data[h]
    BY Zenon, <1>0 DEF RqInv
  <2> HIDE DEF free, heads, chain
  <2> QED BY <1>5, <2>1
<1>9. Descs = free \cup UNION {chain(h) : h \in heads}
  <2>1. ASSUME NEW d \in Descs PROVE d \in free \cup UNION {chain(h) : h \in heads}
    <3>1. CASE \E i \in 1 .. vq.num_free : f[i] = d
      BY Zenon, <1>2, <3>1
    <3>2. CASE Held(d)
      <4>1. PICK h \in heads : d \in {h, Second(h), Third(h)}
        BY Zenon, <3>2 DEF Held
      <4>2. d \in chain(h)
        BY Zenon, <1>5, <4>1
      <4> HIDE DEF free, heads, chain
      <4> QED BY Zenon, <4>2
    <3> QED BY Zenon, <1>1, <3>1, <3>2 DEF FreeList
  <2> HIDE DEF free, heads, chain
  <2> QED BY <1>3, <1>5, <2>1
<1> QED BY Zenon, <1>0, <1>4, <1>6, <1>7, <1>8, <1>9 DEF DescriptorsConserved

\* For any number of requests and any size of the ring, the free list and the
\* chains of virtio_ring.c share no descriptor and lose none, and each chain
\* holds the three buffers of its own request.
THEOREM DescriptorSafety == Spec => []DescriptorsConserved
<1>1. IInv => DescriptorsConserved
  BY Zenon, InvConserves
<1> QED BY <1>1, Inductive, PTL

\* Whenever the thread has left the driver nothing is left in a ring, no
\* interrupt waits and the queue is not stopped: the event indexes and the stop
\* of a full ring lose no notification, also where the indexes wrap around.
THEOREM NoneForgotten == Spec => []NothingForgotten
<1>1. IInv => NothingForgotten
  <2> SUFFICES ASSUME IInv, pc = "idle"
               PROVE  /\ q.last_avail_idx = avail.idx /\ vq.last_used_idx = used.idx
                      /\ vq.num_added = 0 /\ ~pending /\ ~stopped
    BY Zenon DEF NothingForgotten
  <2>1. Unserved = 0 /\ Uncompleted = 0 /\ vq.num_added = 0 /\ ~pending /\ ~stopped
    BY Zenon DEF IInv, PcInv, CaughtUp, Settled
  <2> QED BY Zenon, <2>1, Counts DEF IInv
<1> QED BY <1>1, Inductive, PTL

-----------------------------------------------------------------------------
(***************************************************************************)
(* The device serves the queue of BlkService, in its order.                *)
(***************************************************************************)
\* A sequence with one more entry.
LEMMA IsAppend ==
  ASSUME NEW S, NEW n \in Nat, NEW s \in [1 .. n -> S], NEW x \in S,
         NEW t \in [1 .. n + 1 -> S], \A i \in 1 .. n : t[i] = s[i], t[n + 1] = x
  PROVE  t = Append(s, x)
<1>1. s \in Seq(S) /\ Len(s) = n /\ t \in Seq(S) /\ Len(t) = n + 1
  OBVIOUS
<1>2. Append(s, x) \in Seq(S) /\ Len(Append(s, x)) = n + 1
  BY <1>1
<1>3. \A i \in 1 .. n + 1 : t[i] = Append(s, x)[i]
  BY <1>1
<1> QED BY <1>1, <1>2, <1>3

\* A sequence without its first entry.
LEMMA IsTail ==
  ASSUME NEW S, NEW n \in Nat, n > 0, NEW s \in [1 .. n -> S],
         NEW t \in [1 .. n - 1 -> S], \A i \in 1 .. n - 1 : t[i] = s[i + 1]
  PROVE  t = Tail(s) /\ s # <<>> /\ Head(s) = s[1]
<1>1. s \in Seq(S) /\ Len(s) = n /\ t \in Seq(S) /\ Len(t) = n - 1
  OBVIOUS
<1>2. Tail(s) \in Seq(S) /\ Len(Tail(s)) = n - 1 /\ s # <<>> /\ Head(s) = s[1]
  BY <1>1
<1>3. \A i \in 1 .. n - 1 : t[i] = Tail(s)[i]
  BY <1>1
<1> QED BY <1>1, <1>2, <1>3

\* The index of the i-th entry from last_avail_idx on.
Entry(i) == (q.last_avail_idx + i - 1) % IdxMod

\* It has the slot that Waiting looks at, and is as far away as it says.
LEMMA EntryIs ==
  ASSUME TypeOK, NEW i \in 1 .. IdxMod
  PROVE  /\ Entry(i) \in Idx /\ Dist(q.last_avail_idx, Entry(i)) = i - 1
         /\ Entry(i) % Num = (q.last_avail_idx + i - 1) % Num
<1>1. PICK a \in Idx : a = q.last_avail_idx
  BY Zenon, Fields
<1>2. IdxMod \in Nat /\ IdxMod > 0 /\ a \in Nat /\ a < IdxMod
  BY Sizes DEF Idx
<1>3. PICK j \in Nat : j = i - 1 /\ j < IdxMod
  BY <1>2
<1>4. a + i - 1 = a + j
  BY Zenon, <1>2, <1>3
<1>5. (a + j) % IdxMod = IF a + j < IdxMod THEN a + j ELSE a + j - IdxMod
  BY <1>2, <1>3
<1>6. (a + j) % IdxMod \in Idx
  BY <1>2, <1>3, <1>5 DEF Idx
<1>7. Dist(a, (a + j) % IdxMod) = j
  <2>1. PICK b \in Idx : b = (a + j) % IdxMod
    BY Zenon, <1>6
  <2>2. Dist(a, b) = IF a <= b THEN b - a ELSE b - a + IdxMod
    BY Zenon, DistIs
  <2> QED BY <1>2, <1>3, <1>5, <2>1, <2>2
<1>8. ((a + j) % IdxMod) % Num = (a + j) % Num
  BY Zenon, <1>3, SlotWraps
<1> QED BY Zenon, <1>1, <1>3, <1>4, <1>6, <1>7, <1>8 DEF Entry

\* The entries that wait, and the slot that comes after them.
LEMMA EntryWaits ==
  ASSUME TypeOK, RingInv
  PROVE  /\ Unserved \in Nat /\ Unserved + 1 <= IdxMod
         /\ \A i \in 1 .. Unserved :
              /\ Entry(i) \in Idx /\ Waits(Entry(i)) /\ (Entry(i) = q.last_avail_idx => i = 1)
              /\ AvailHead(Entry(i)) = avail.ring[(q.last_avail_idx + i - 1) % Num]
              /\ HeadOf(AvailHead(Entry(i)), "queued")
         /\ (q.last_avail_idx + (Unserved + 1) - 1) % Num = avail.idx % Num
<1>1. Unserved \in Nat /\ Unserved + 1 <= IdxMod /\ IdxMod \in Nat
  BY Counts, Sizes
<1>2. ASSUME NEW i \in 1 .. Unserved
      PROVE  /\ Entry(i) \in Idx /\ Waits(Entry(i)) /\ (Entry(i) = q.last_avail_idx => i = 1)
             /\ AvailHead(Entry(i)) = avail.ring[(q.last_avail_idx + i - 1) % Num]
             /\ HeadOf(AvailHead(Entry(i)), "queued")
  <2>1. i \in 1 .. IdxMod /\ i - 1 < Unserved
    BY <1>1
  <2>2. /\ Entry(i) \in Idx /\ Dist(q.last_avail_idx, Entry(i)) = i - 1
        /\ Entry(i) % Num = (q.last_avail_idx + i - 1) % Num
    BY Zenon, <2>1, EntryIs
  <2>3. Waits(Entry(i))
    BY Zenon, <2>1, <2>2 DEF Waits
  <2>4. Entry(i) = q.last_avail_idx => i = 1
    <3>1. Entry(i) = q.last_avail_idx => i - 1 = 0
      BY Zenon, <2>2, Fields, DistType
    <3> QED BY <1>1, <3>1
  <2>5. AvailHead(Entry(i)) = avail.ring[(q.last_avail_idx + i - 1) % Num]
    BY Zenon, <2>2 DEF AvailHead
  <2> QED BY Zenon, <2>2, <2>3, <2>4, <2>5 DEF RingInv
<1>3. (q.last_avail_idx + (Unserved + 1) - 1) % Num = avail.idx % Num
  <2>1. PICK i \in 1 .. IdxMod : i = Unserved + 1
    BY <1>1
  <2>2. /\ Entry(i) \in Idx /\ Dist(q.last_avail_idx, Entry(i)) = Unserved
        /\ Entry(i) % Num = (q.last_avail_idx + i - 1) % Num
    BY <1>1, <2>1, EntryIs
  <2>3. Entry(i) = avail.idx
    <3>1. PICK a \in Idx : a = q.last_avail_idx
      BY Zenon, Fields
    <3>2. PICK b \in Idx : b = avail.idx
      BY Zenon, Fields
    <3>3. PICK c \in Idx : c = Entry(i)
      BY Zenon, <2>2
    <3>4. Dist(a, b) = Dist(a, c)
      BY Zenon, <2>2, <3>1, <3>2, <3>3 DEF Unserved
    <3>5. /\ Dist(a, b) = IF a <= b THEN b - a ELSE b - a + IdxMod
          /\ Dist(a, c) = IF a <= c THEN c - a ELSE c - a + IdxMod
      BY Zenon, DistIs
    <3>6. b = c
      <4>1. /\ IdxMod \in Nat /\ a \in Nat /\ b \in Nat /\ c \in Nat
            /\ a < IdxMod /\ b < IdxMod /\ c < IdxMod
        BY <1>1 DEF Idx
      <4>2. (IF a <= b THEN b - a ELSE b - a + IdxMod)
              = (IF a <= c THEN c - a ELSE c - a + IdxMod)
        BY Zenon, <3>4, <3>5
      <4> QED BY <4>1, <4>2
    <3> QED BY Zenon, <3>2, <3>3, <3>6
  <2> QED BY Zenon, <2>1, <2>2, <2>3
<1> QED BY Zenon, <1>1, <1>2, <1>3

\* The requests that wait are requests.
LEMMA WaitingType ==
  ASSUME TypeOK, RingInv
  PROVE  /\ Waiting \in [1 .. Unserved -> Reqs] /\ Waiting \in Seq(Reqs)
         /\ \A i \in 1 .. Unserved : Waiting[i] = vq.data[AvailHead(Entry(i))]
<1>1. Unserved \in Nat
  BY Zenon, EntryWaits
<1>2. Waiting = [i \in 1 .. Unserved |->
                   vq.data[avail.ring[(q.last_avail_idx + i - 1) % Num]]]
  BY Zenon DEF Waiting, Unserved, Dist
<1>3. ASSUME NEW i \in 1 .. Unserved
      PROVE  /\ vq.data[avail.ring[(q.last_avail_idx + i - 1) % Num]]
                  = vq.data[AvailHead(Entry(i))]
             /\ vq.data[AvailHead(Entry(i))] \in Reqs
  <2>1. HeadOf(AvailHead(Entry(i)), "queued")
    BY Zenon, EntryWaits
  <2>2. AvailHead(Entry(i)) = avail.ring[(q.last_avail_idx + i - 1) % Num]
    BY Zenon, EntryWaits
  <2>3. vq.data[AvailHead(Entry(i))] \in Reqs
    BY Zenon, <2>1, Fields DEF HeadOf
  <2> QED BY Zenon, <2>2, <2>3
<1>4. Waiting \in [1 .. Unserved -> Reqs]
  BY Zenon, <1>2, <1>3
<1>5. \A i \in 1 .. Unserved : Waiting[i] = vq.data[AvailHead(Entry(i))]
  BY Zenon, <1>2, <1>3
<1>6. Waiting \in Seq(Reqs)
  <2>1. PICK n \in Nat : n = Unserved
    BY Zenon, <1>1
  <2>2. PICK w : w = Waiting
    BY Zenon
  <2>3. w \in [1 .. n -> Reqs] => w \in Seq(Reqs)
    OBVIOUS
  <2> QED BY Zenon, <1>4, <2>1, <2>2, <2>3
<1> QED BY Zenon, <1>4, <1>5, <1>6

\* A step that leaves the entries that wait, and their requests, alone.
LEMMA WaitingKept ==
  ASSUME TypeOK, RingInv, avail'.ring = avail.ring, avail'.idx = avail.idx,
         q'.last_avail_idx = q.last_avail_idx,
         \A h \in Descs : HeadOf(h, "queued") => vq'.data[h] = vq.data[h]
  PROVE  Waiting' = Waiting
<1>1. /\ Waiting = [i \in 1 .. Unserved |->
                      vq.data[avail.ring[(q.last_avail_idx + i - 1) % Num]]]
      /\ Waiting' = [i \in 1 .. Unserved |->
                      vq'.data[avail.ring[(q.last_avail_idx + i - 1) % Num]]]
  BY Zenon DEF Waiting, Unserved, Dist
<1>2. ASSUME NEW i \in 1 .. Unserved
      PROVE  vq'.data[avail.ring[(q.last_avail_idx + i - 1) % Num]]
               = vq.data[avail.ring[(q.last_avail_idx + i - 1) % Num]]
  <2>1. /\ HeadOf(AvailHead(Entry(i)), "queued")
        /\ AvailHead(Entry(i)) = avail.ring[(q.last_avail_idx + i - 1) % Num]
    BY Zenon, EntryWaits
  <2> QED BY Zenon, <2>1 DEF HeadOf
<1> QED BY Zenon, <1>1, <1>2

\* virtqueue_add puts the request behind those that wait.
LEMMA WaitingGrows ==
  ASSUME IInv, NEW r \in Reqs, QueueRq(r)
  PROVE  Waiting' = Append(Waiting, r)
<1>0. TypeOK /\ RingInv /\ ChainInv /\ FreeInv /\ RqInv /\ PcInv
  BY Zenon DEF IInv
<1>1. PICK f : FreeList(f)
  BY Zenon, <1>0 DEF FreeInv
<1>2. PICK n \in Nat : n = Unserved
  BY Zenon, <1>0, EntryWaits
<1>3. vq.num_free >= 3 /\ Taken(r, f[1], f[2], f[3])
  BY Zenon, <1>0, <1>1, QueueRqTakes
<1>4. vq.free_head = f[1] /\ vq.data[f[1]] = None
  <2>1. 1 \in 1 .. vq.num_free
    BY <1>0, <1>3, Fields
  <2> QED BY Zenon, <1>0, <1>1, <1>3, <2>1, FreeFront
<1>5. PICK h \in Descs : h = vq.free_head
  BY Zenon, <1>0, Fields
<1>6. /\ avail'.ring = [avail.ring EXCEPT ![avail.idx % Num] = h]
      /\ vq'.data = [vq.data EXCEPT ![h] = r] /\ vq.data[h] = None
      /\ Unserved' = n + 1 /\ q' = q
  <2>1. /\ avail'.ring = [avail.ring EXCEPT ![avail.idx % Num] = vq.free_head]
        /\ Unserved' = Unserved + 1
    BY Zenon, <1>0, QueueRqAdds
  <2>2. q' = q
    BY Zenon DEF QueueRq
  <2>3. vq'.data = [vq.data EXCEPT ![h] = r]
    BY Zenon, <1>3, <1>4, <1>5 DEF Taken
  <2> QED BY Zenon, <1>2, <1>4, <1>5, <2>1, <2>2, <2>3
<1> DEFINE slot(i) == (q.last_avail_idx + i - 1) % Num
<1>7. Waiting' = [i \in 1 .. n + 1 |-> vq'.data[avail'.ring[slot(i)]]]
  BY Zenon, <1>6 DEF Waiting, Unserved, Dist
<1>8. Waiting \in [1 .. n -> Reqs]
  BY Zenon, <1>0, <1>2, WaitingType
<1>9. ASSUME NEW i \in 1 .. n
      PROVE  vq'.data[avail'.ring[slot(i)]] = Waiting[i] /\ Waiting[i] \in Reqs
  <2>1. /\ Entry(i) \in Idx /\ Waits(Entry(i)) /\ HeadOf(AvailHead(Entry(i)), "queued")
        /\ AvailHead(Entry(i)) = avail.ring[slot(i)]
    BY Zenon, <1>0, <1>2, EntryWaits
  <2>2. i \in 1 .. IdxMod
    BY <1>0, <1>2, EntryWaits, Sizes
  <2>3. Entry(i) % Num = slot(i) /\ slot(i) \in Descs
    BY Zenon, <1>0, <2>2, EntryIs, SlotType
  <2>4. slot(i) # avail.idx % Num
    <3>1. PICK a \in Idx : a = q.last_avail_idx
      BY Zenon, <1>0, Fields
    <3>2. PICK b \in Idx : b = avail.idx
      BY Zenon, <1>0, Fields
    <3>3. Dist(a, b) = n /\ n < Num
      BY <1>0, <1>2, <3>1, <3>2, Counts, Sizes DEF Unserved
    <3>4. Dist(a, Entry(i)) < n /\ Dist(a, Entry(i)) \in Nat
      BY Zenon, <1>2, <2>1, <3>1, DistType, Sizes DEF Waits
    <3>5. Entry(i) # b /\ Dist(a, Entry(i)) < Num
      BY <3>3, <3>4, Sizes
    <3> QED BY Zenon, <2>1, <2>3, <3>2, <3>3, <3>5, WindowSlots
  <2>5. avail'.ring[slot(i)] = avail.ring[slot(i)]
    BY Zenon, <1>0, <1>6, <2>3, <2>4, Fields
  <2>6. vq'.data[AvailHead(Entry(i))] = vq.data[AvailHead(Entry(i))]
    <3>1. AvailHead(Entry(i)) \in Descs /\ AvailHead(Entry(i)) # h
      BY Zenon, <1>6, <2>1 DEF HeadOf
    <3> QED BY Zenon, <1>0, <1>6, <3>1, Fields
  <2> QED BY Zenon, <1>0, <1>2, <1>8, <2>1, <2>5, <2>6, WaitingType
<1>10. vq'.data[avail'.ring[slot(n + 1)]] = r
  <2>1. slot(n + 1) = avail.idx % Num /\ avail.idx % Num \in Descs
    BY Zenon, <1>0, <1>2, EntryWaits, Fields, SlotType
  <2>2. avail'.ring[slot(n + 1)] = h
    BY Zenon, <1>0, <1>6, <2>1, Fields
  <2> QED BY Zenon, <1>0, <1>6, <2>2, Fields
<1> HIDE DEF slot
<1>11. /\ Waiting' \in [1 .. n + 1 -> Reqs] /\ Waiting'[n + 1] = r
       /\ \A i \in 1 .. n : Waiting'[i] = Waiting[i]
  <2>1. \A i \in 1 .. n + 1 : i = n + 1 \/ i \in 1 .. n
    OBVIOUS
  <2>2. \A i \in 1 .. n + 1 : vq'.data[avail'.ring[slot(i)]] \in Reqs
    BY Zenon, <1>9, <1>10, <2>1
  <2>3. Waiting' \in [1 .. n + 1 -> Reqs]
    BY Zenon, <1>7, <2>2
  <2>4. \A i \in 1 .. n : Waiting'[i] = Waiting[i]
    BY <1>7, <1>9
  <2>5. Waiting'[n + 1] = r
    BY <1>7, <1>10
  <2> QED BY Zenon, <2>3, <2>4, <2>5
<1> QED BY <1>8, <1>11, IsAppend

\* The slot of the i-th entry after the next index.
LEMMA NextSlot ==
  ASSUME NEW a \in Idx, NEW i \in 1 .. IdxMod - 1
  PROVE  (Inc(a) + i - 1) % Num = (a + (i + 1) - 1) % Num
<1>1. IdxMod \in Nat /\ Num \in Nat /\ Num > 0 /\ a \in Nat /\ a < IdxMod /\ i \in Nat
  BY Sizes DEF Idx
<1>2. a + (i + 1) - 1 = a + i
  BY <1>1
<1>3. CASE a = IdxMod - 1
  <2>1. Inc(a) = 0
    BY Zenon, <1>3, IncIs
  <2>2. (a + i) % IdxMod = i - 1
    BY <1>1, <1>3
  <2>3. ((a + i) % IdxMod) % Num = (a + i) % Num
    BY <1>1, SlotWraps
  <2>4. Inc(a) + i - 1 = i - 1
    BY <1>1, <2>1
  <2> QED BY Zenon, <1>2, <2>2, <2>3, <2>4
<1>4. CASE a # IdxMod - 1
  <2>1. Inc(a) = a + 1
    BY Zenon, <1>4, IncIs
  <2>2. Inc(a) + i - 1 = a + i
    BY <1>1, <2>1
  <2> QED BY Zenon, <1>2, <2>2
<1> QED BY Zenon, <1>3, <1>4

\* The device serves the first request that waits.
LEMMA WaitingShrinks ==
  ASSUME IInv, ProcessOne, NEW h, NEW r, Serves(h, r)
  PROVE  Waiting' = Tail(Waiting) /\ Waiting # <<>> /\ Head(Waiting) = r
<1>0. TypeOK /\ RingInv
  BY Zenon DEF IInv
<1>1. PICK n \in Nat : n = Unserved
  BY Zenon, <1>0, EntryWaits
<1>2. PICK a \in Idx : a = q.last_avail_idx
  BY Zenon, <1>0, Fields
<1>3. n > 0 /\ n + 1 <= IdxMod /\ n < Num
  <2>1. a # avail.idx
    BY Zenon, <1>2 DEF ProcessOne
  <2> QED BY <1>0, <1>1, <1>2, <2>1, Counts, EntryWaits, Sizes
<1>4. /\ Unserved' = n - 1 /\ q'.last_avail_idx = Inc(a) /\ vq' = vq
      /\ avail'.ring = [avail.ring EXCEPT ![a % Num] = None]
      /\ h = AvailHead(a) /\ r = vq.data[h]
  <2>1. Unserved' = n - 1
    BY Zenon, <1>0, <1>1, ServesCounts DEF ProcessOne
  <2> QED BY Zenon, <1>2, <2>1 DEF Serves
<1> DEFINE slot(i) == (a + i - 1) % Num
<1>5. ASSUME NEW i \in 1 .. n - 1
      PROVE  (Inc(a) + i - 1) % Num = slot(i + 1) /\ i + 1 \in 1 .. n /\ i + 1 # 1
  <2>1. i \in 1 .. IdxMod - 1 /\ i + 1 \in 1 .. n /\ i + 1 # 1
    BY <1>3, Sizes
  <2> QED BY Zenon, <2>1, NextSlot
<1>6. Waiting' = [i \in 1 .. n - 1 |-> vq.data[avail'.ring[(Inc(a) + i - 1) % Num]]]
  BY Zenon, <1>4 DEF Waiting, Unserved, Dist
<1>7. Waiting \in [1 .. n -> Reqs]
  BY Zenon, <1>0, <1>1, WaitingType
<1>8. ASSUME NEW j \in 1 .. n, j # 1
      PROVE  vq.data[avail'.ring[slot(j)]] = Waiting[j] /\ Waiting[j] \in Reqs
  <2>1. /\ Entry(j) \in Idx /\ Waits(Entry(j)) /\ Entry(j) # a
        /\ AvailHead(Entry(j)) = avail.ring[slot(j)]
    BY Zenon, <1>0, <1>1, <1>2, <1>8, EntryWaits
  <2>2. j \in 1 .. IdxMod
    BY <1>3, Sizes
  <2>3. Entry(j) % Num = slot(j) /\ slot(j) \in Descs
    BY Zenon, <1>0, <1>2, <2>2, EntryIs, SlotType
  <2>4. slot(j) # a % Num
    <3>1. Dist(a, a) = 0
      BY Zenon, DistType
    <3>2. Dist(a, Entry(j)) < n /\ Dist(a, Entry(j)) \in Nat
      BY Zenon, <1>1, <1>2, <2>1, DistType, Sizes DEF Waits
    <3>3. Dist(a, Entry(j)) < Num /\ Dist(a, a) < Num
      BY <1>3, <3>1, <3>2, Sizes
    <3> QED BY Zenon, <2>1, <2>3, <3>3, WindowSlots
  <2>5. avail'.ring[slot(j)] = avail.ring[slot(j)]
    BY Zenon, <1>0, <1>4, <2>3, <2>4, Fields
  <2> QED BY Zenon, <1>0, <1>1, <1>7, <2>1, <2>5, WaitingType
<1> HIDE DEF slot
<1>9. \A i \in 1 .. n - 1 : vq.data[avail'.ring[(Inc(a) + i - 1) % Num]] = Waiting[i + 1]
                            /\ Waiting[i + 1] \in Reqs
  BY Zenon, <1>5, <1>8
<1>10. /\ Waiting' \in [1 .. n - 1 -> Reqs]
       /\ \A i \in 1 .. n - 1 : Waiting'[i] = Waiting[i + 1]
  BY Zenon, <1>6, <1>9
<1>11. Waiting[1] = r
  <2>1. 1 \in 1 .. n /\ 1 \in 1 .. IdxMod
    BY <1>3, Sizes
  <2>2. Entry(1) = a
    <3>1. IdxMod \in Nat /\ a \in Nat /\ a < IdxMod
      BY Sizes DEF Idx
    <3>2. a + 1 - 1 = a /\ a % IdxMod = a
      BY <3>1
    <3> QED BY Zenon, <1>2, <3>2 DEF Entry
  <2> QED BY Zenon, <1>0, <1>1, <1>4, <2>1, <2>2, WaitingType
<1> QED BY <1>3, <1>7, <1>10, <1>11, IsTail

\* The queue of BlkService.
Queue == Waiting \o list \o todo

\* Its parts are sequences of requests.
LEMMA QueueIs ==
  ASSUME IInv
  PROVE  /\ Waiting \in Seq(Reqs) /\ list \in Seq(Reqs) /\ todo \in Seq(Reqs)
         /\ Waiting \o list \in Seq(Reqs)
         /\ Queue = (Waiting \o list) \o todo /\ Queue = Waiting \o (list \o todo)
<1>1. TypeOK /\ RingInv
  BY Zenon DEF IInv
<1>2. Waiting \in Seq(Reqs) /\ list \in Seq(Reqs) /\ todo \in Seq(Reqs)
  BY Zenon, <1>1, WaitingType, QueuedType
<1>3. Waiting \o list \in Seq(Reqs)
  BY Zenon, <1>2, Concat
<1> QED BY <1>2, <1>3, ConcatAssoc DEF Queue

\* The block layer queues a request.
LEMMA SubmitSubmits ==
  ASSUME IInv, NEW r \in Reqs, NEW k \in Kinds, Submit(r, k[1], k[2])
  PROVE  Service!Submit(r, k[1], k[2])
<1>1. Waiting' = Waiting
  BY Zenon, WaitingKept DEF IInv, Submit, ringVars
<1>2. list' = list /\ todo' = Append(todo, r)
  BY Zenon DEF Submit
<1>3. Queue' = Append(Queue, r)
  BY <1>1, <1>2, QueueIs, ConcatAppend DEF Queue
<1> QED BY Zenon, <1>3 DEF Submit, Service!Submit, Queue

\* One round of the loop serves the head of the queue; of a disk with at most
\* SectorMod sectors, at the sector asked for.
LEMMA ProcessOneIsServe ==
  ASSUME Capacity <= SectorMod, IInv, ProcessOne
  PROVE  \E r \in Reqs : Service!Serve(r)
<1>1. PICK h, r : Serves(h, r)
  BY Zenon, ProcessOneServes
<1>2. r \in Reqs /\ phase' = [phase EXCEPT ![r] = "served"] /\ rq' = rq /\ Moves(r)
  BY Zenon, <1>1 DEF Serves
<1>3. Sector(rq[r].sector) = rq[r].sector
  <2>1. rq[r].sector \in Sectors
    BY Zenon, <1>2 DEF IInv, TypeOK
  <2>2. rq[r].sector \in Nat /\ rq[r].sector < SectorMod
    BY <2>1, DiskAssumption DEF Sectors
  <2>3. \A s \in Nat, m \in Nat : s < m => s % m = s
    OBVIOUS
  <2> QED BY Zenon, <2>2, <2>3, DiskAssumption DEF Sector
<1>4. Waiting' = Tail(Waiting) /\ Waiting # <<>> /\ Head(Waiting) = r
  BY Zenon, <1>1, WaitingShrinks
<1>5. list' = list /\ todo' = todo
  BY Zenon DEF ProcessOne, blkVars
<1>6. Queue # <<>> /\ r = Head(Queue) /\ Queue' = Tail(Queue)
  <2>1. list \o todo \in Seq(Reqs)
    BY Zenon, QueueIs, Concat
  <2>2. /\ Queue # <<>> /\ Head(Queue) = Head(Waiting)
        /\ Tail(Queue) = Tail(Waiting) \o (list \o todo)
    <3>1. PICK w \in Seq(Reqs) : w = Waiting
      BY Zenon, QueueIs
    <3>2. PICK u \in Seq(Reqs) : u = list \o todo
      BY Zenon, <2>1
    <3>3. Tail(w) \o u = Tail(w \o u) /\ Head(w \o u) = Head(w) /\ w \o u # <<>>
      BY Zenon, <1>4, <3>1, ConcatTail
    <3>4. Queue = w \o u
      BY Zenon, <3>1, <3>2, QueueIs
    <3> QED BY Zenon, <3>1, <3>2, <3>3, <3>4
  <2>3. Tail(Waiting) \in Seq(Reqs)
    BY <1>4, QueueIs
  <2>4. Queue' = Tail(Waiting) \o (list \o todo)
    BY <1>4, <1>5, <2>3, QueueIs, ConcatAssoc DEF Queue
  <2> QED BY Zenon, <1>4, <2>2, <2>4
<1>7. \/ rq[r].op = "read" /\ mem' = [mem EXCEPT ![r] = disk[rq[r].sector]] /\ disk' = disk
      \/ rq[r].op = "write" /\ disk' = [disk EXCEPT ![rq[r].sector] = mem[r]] /\ mem' = mem
  BY Zenon, <1>2, <1>3 DEF Moves
<1>8. Service!Serve(r)
  BY Zenon, <1>2, <1>6, <1>7 DEF Service!Serve, Queue
<1> QED BY Zenon, <1>2, <1>8

\* virtblk_done completes a request that was served.
LEMMA GetBufCompletes ==
  ASSUME IInv, GetBuf
  PROVE  \E r \in Reqs : Service!Complete(r)
<1>0. TypeOK /\ RingInv
  BY Zenon DEF IInv
<1>1. PICK h, r : Returns(h, r)
  BY Zenon, GetBufReturns
<1>2. /\ r \in Reqs /\ h \in Descs /\ r = vq.data[h] /\ phase[r] = "served"
      /\ vq'.data = [vq.data EXCEPT ![h] = None]
      /\ phase' = [phase EXCEPT ![r] = "free"]
      /\ rq' = [rq EXCEPT ![r] = NoRequest] /\ mem' = [mem EXCEPT ![r] = 0]
  BY Zenon, <1>1 DEF Returns
<1>3. UNCHANGED <<avail, q, list, todo, disk>>
  BY Zenon DEF GetBuf, blkVars
<1>4. Waiting' = Waiting
  <2>1. ASSUME NEW d \in Descs, HeadOf(d, "queued") PROVE vq'.data[d] = vq.data[d]
    <3>1. d # h
      BY Zenon, <1>2, <2>1 DEF HeadOf
    <3> QED BY Zenon, <1>0, <1>2, <3>1, Fields
  <2> QED BY Zenon, <1>0, <1>3, <2>1, WaitingKept
<1>5. Queue' = Queue
  BY Zenon, <1>3, <1>4 DEF Queue
<1>6. Service!Complete(r)
  BY Zenon, <1>2, <1>3, <1>5 DEF Service!Complete, Queue, NoRequest, Service!NoRequest
<1> QED BY Zenon, <1>2, <1>6

\* Moving requests between the lists and into the ring changes nothing.
LEMMA QueueKept ==
  ASSUME IInv,
         \/ RunHwQueue \/ (\E r \in Reqs : QueueRq(r)) \/ QueueRqFull \/ Kick
         \/ QueueRqBusy \/ SetAvailEvent \/ ProcessReturn \/ Interrupt \/ EnableCb
         \/ UNCHANGED vars
  PROVE  UNCHANGED <<Queue, phase, rq, disk, mem>>
<1>0. TypeOK /\ RingInv /\ PcInv
  BY Zenon DEF IInv
<1>1. UNCHANGED <<phase, rq, disk, mem>>
  BY Zenon DEF RunHwQueue, QueueRq, QueueRqFull, Kick, QueueRqBusy, SetAvailEvent,
         ProcessReturn, Interrupt, EnableCb, vars, dataVars
<1>2. CASE RunHwQueue
  <2>1. Waiting' = Waiting
    BY Zenon, <1>0, <1>2, WaitingKept DEF RunHwQueue, ringVars
  <2>2. list = <<>> /\ list' = todo /\ todo' = <<>>
    BY Zenon, <1>0, <1>2 DEF RunHwQueue, PcInv, Settled
  <2>3. Queue = Waiting \o todo
    BY Zenon, <2>2, QueueIs, ConcatEmpty
  <2>4. Queue' = (Waiting \o todo) \o <<>>
    BY Zenon, <2>1, <2>2 DEF Queue
  <2>5. Waiting \o todo \in Seq(Reqs)
    BY Zenon, QueueIs, Concat
  <2> QED BY Zenon, <1>1, <2>3, <2>4, <2>5, ConcatEmpty
<1>3. ASSUME NEW r \in Reqs, QueueRq(r) PROVE UNCHANGED <<Queue, phase, rq, disk, mem>>
  <2>1. Waiting' = Append(Waiting, r)
    BY Zenon, <1>3, WaitingGrows
  <2>2. r = Head(list) /\ list' = Tail(list) /\ todo' = todo /\ list # <<>>
    BY Zenon, <1>0, <1>3 DEF QueueRq, PcInv
  <2>3. Append(Waiting, Head(list)) \o Tail(list) = Waiting \o list
    BY Zenon, <2>2, QueueIs, ConcatMove
  <2> QED BY Zenon, <1>1, <2>1, <2>2, <2>3 DEF Queue
<1>4. CASE QueueRqBusy
  <2>1. Waiting' = Waiting
    BY Zenon, <1>0, <1>4, WaitingKept DEF QueueRqBusy, ringVars
  <2>2. todo' = list \o todo /\ list' = <<>>
    BY Zenon, <1>4 DEF QueueRqBusy
  <2>3. Queue' = (Waiting \o <<>>) \o (list \o todo)
    BY Zenon, <2>1, <2>2 DEF Queue
  <2>4. Waiting \o <<>> = Waiting
    BY Zenon, QueueIs, ConcatEmpty
  <2> QED BY Zenon, <1>1, <2>3, <2>4, QueueIs
<1>5. CASE \/ QueueRqFull \/ Kick \/ SetAvailEvent \/ ProcessReturn \/ Interrupt
           \/ EnableCb \/ UNCHANGED vars
  <2>1. /\ avail'.ring = avail.ring /\ avail'.idx = avail.idx
        /\ q'.last_avail_idx = q.last_avail_idx /\ vq'.data = vq.data
        /\ list' = list /\ todo' = todo
    <3>1. CASE QueueRqFull \/ SetAvailEvent \/ ProcessReturn \/ UNCHANGED vars
      BY Zenon, <3>1 DEF QueueRqFull, SetAvailEvent, ProcessReturn, vars, ringVars, blkVars
    <3>2. CASE Kick
      BY Zenon, <1>0, <3>2 DEF Kick, ringVars, blkVars, TypeOK
    <3>3. CASE Interrupt
      BY Zenon, <1>0, <3>3 DEF Interrupt, ringVars, blkVars, TypeOK
    <3>4. CASE EnableCb
      BY Zenon, <1>0, <3>4 DEF EnableCb, TypeOK
    <3> QED BY Zenon, <1>5, <3>1, <3>2, <3>3, <3>4
  <2>2. Waiting' = Waiting
    BY Zenon, <1>0, <2>1, WaitingKept
  <2> QED BY Zenon, <1>1, <2>1, <2>2 DEF Queue
<1> QED BY Zenon, <1>2, <1>3, <1>4, <1>5

\* On a disk of at most SectorMod sectors, the driver, the ring and the device
\* are the disk of BlkService: every request is served once, as a whole and in
\* the order of the queue, and only what was served is completed.
THEOREM Refinement ==
  ASSUME Capacity <= SectorMod
  PROVE  Spec => ImplementsBlkService
<1>1. Init => Service!Init
  <2> SUFFICES ASSUME Init PROVE Service!Init
    BY Zenon
  <2>1. Unserved = 0
    BY Zenon, Sizes, DistType DEF Init, Unserved
  <2>2. Waiting = <<>>
    <3>1. Waiting \in [1 .. 0 -> Reqs]
      BY Zenon, <2>1, InitInv, WaitingType DEF IInv
    <3>2. \A w : w \in [1 .. 0 -> Reqs] => w = <<>>
      OBVIOUS
    <3> QED BY Zenon, <3>1, <3>2
  <2>3. Queue = <<>>
    <3>1. list = <<>> /\ todo = <<>>
      BY Zenon DEF Init
    <3> QED BY <2>2, <3>1 DEF Queue
  <2> QED BY Zenon, <2>3 DEF Init, Service!Init, NoRequest, Service!NoRequest, Queue, Sectors
<1>2. IInv /\ [Next]_vars => [Service!Next]_(Service!serviceVars)
  <2> SUFFICES ASSUME IInv, [Next]_vars PROVE [Service!Next]_(Service!serviceVars)
    BY Zenon
  <2>1. CASE \E r \in Reqs, k \in Kinds : Submit(r, k[1], k[2])
    <3>1. \E r \in Reqs, k \in Kinds : Service!Submit(r, k[1], k[2])
      BY Zenon, <2>1, SubmitSubmits
    <3> QED BY Zenon, <3>1 DEF Service!Next
  <2>2. CASE ProcessOne
    BY Zenon, <2>2, ProcessOneIsServe DEF Service!Next
  <2>3. CASE GetBuf
    BY Zenon, <2>3, GetBufCompletes DEF Service!Next
  <2>4. CASE \/ RunHwQueue \/ (\E r \in Reqs : QueueRq(r)) \/ QueueRqFull \/ Kick
             \/ QueueRqBusy \/ SetAvailEvent \/ ProcessReturn \/ Interrupt \/ EnableCb
             \/ UNCHANGED vars
    <3>1. UNCHANGED <<Queue, phase, rq, disk, mem>>
      BY Zenon, <2>4, QueueKept
    <3> QED BY Zenon, <3>1 DEF Queue, Service!serviceVars
  <2> QED BY Zenon, <2>1, <2>2, <2>3, <2>4 DEF Next, Step
<1> QED BY <1>1, <1>2, Inductive, PTL DEF Spec, ImplementsBlkService, Service!Spec

================================================================================
