----------------------------- MODULE DisksProofs -----------------------------
(***************************************************************************)
(* Proofs about Disks, for any number of disks, partitions, regions and    *)
(* interrupts, with or without inner system calls that fail.  The          *)
(* inductive invariant IInv adds what keeps the numbers of the kernel from *)
(* being used twice: ids are below nextId, the index of a mounted device   *)
(* is not free, and every mount has its directory.                         *)
(***************************************************************************)
EXTENDS Disks, FiniteSetTheorems, TLAPS

(***************************************************************************)
(* The inductive invariant.                                                *)
(***************************************************************************)
\* No table knows an id that was not given yet.
FreshInv ==
  /\ \A id \in (disks \ {ErrId}) \cup regions \cup DOMAIN bound : id < nextId
  /\ \A i \in DOMAIN irqs : irqs[i] # Lost => irqs[i] < nextId
  /\ \A dev \in DOMAIN mounted : mounted[dev] < nextId
  /\ \A mp \in DOMAIN mounts : mounts[mp].diskId \in Ids /\ mounts[mp].diskId < nextId

\* There is an index for every disk, and a mounted device keeps its index.
IndexInv ==
  /\ Cardinality(indexes) <= nextId
  /\ \A dev \in DOMAIN mounted : dev[1] \in indexes

\* What is mounted, or was and is still known to lkl.js, has its directory.
DirInv == DOMAIN mounts \cup DOMAIN mounted \subseteq dirs

IInv ==
  /\ NoRegionLeak /\ NoSharedDeviceNumber /\ MountsAgree
  /\ FreshInv /\ IndexInv /\ DirInv

(***************************************************************************)
(* Facts about the operators.                                              *)
(***************************************************************************)
\* The first free number is free.
LEMMA MinIn ==
  ASSUME NEW S \in SUBSET Nat, S # {}
  PROVE  Min(S) \in S
<1> DEFINE less == {ss \in Nat \X Nat : ss[1] < ss[2]}
<1>1. IsWellFoundedOn(less, Nat)
  BY Zenon, NatLessThanWellFounded DEF OpToRel
<1>2. PICK x \in S : \A y \in S : <<y, x>> \notin less
  <2> HIDE DEF less
  <2> QED BY Zenon, <1>1, WFMin
<1>3. ASSUME NEW y \in S PROVE x <= y
  <2>1. <<y, x>> \in Nat \X Nat /\ <<y, x>> \notin less
    BY Zenon, <1>2
  <2>2. ~(y < x)
    BY Zenon, <2>1
  <2> QED BY <2>2
<1> QED BY Zenon, <1>3 DEF Min

\* Extend adds one value, or changes it.
LEMMA Extended ==
  ASSUME NEW f, NEW x, NEW y
  PROVE  /\ DOMAIN Extend(f, x, y) = DOMAIN f \cup {x}
         /\ Extend(f, x, y)[x] = y
         /\ \A z \in DOMAIN f : z # x => Extend(f, x, y)[z] = f[z]
         /\ x \notin DOMAIN f => Range(Extend(f, x, y)) = Range(f) \cup {y}
<1>1. /\ DOMAIN Extend(f, x, y) = DOMAIN f \cup {x}
      /\ Extend(f, x, y)[x] = y
      /\ \A z \in DOMAIN f : z # x => Extend(f, x, y)[z] = f[z]
  BY Zenon DEF Extend
<1>2. ASSUME x \notin DOMAIN f PROVE Range(Extend(f, x, y)) = Range(f) \cup {y}
  BY Zenon, <1>1, <1>2 DEF Range
<1> QED BY Zenon, <1>1, <1>2

\* Drop removes one value.
LEMMA Dropped ==
  ASSUME NEW f, NEW x
  PROVE  /\ DOMAIN Drop(f, x) = DOMAIN f \ {x}
         /\ \A z \in DOMAIN f \ {x} : Drop(f, x)[z] = f[z]
         /\ Range(Drop(f, x)) \subseteq Range(f)
BY Zenon DEF Drop, Restrict, Range

\* Ids, indexes and regions are finitely many.
LEMMA Finite ==
  ASSUME TypeOK
  PROVE  /\ IsFiniteSet(regions) /\ IsFiniteSet(indexes)
         /\ Cardinality(regions) \in Nat /\ Cardinality(indexes) \in Nat
<1>1. IsFiniteSet(Ids) /\ IsFiniteSet(Indexes)
  BY BoundsAssumption, FS_Interval DEF Ids, Indexes
<1> QED BY Zenon, <1>1, FS_Subset, FS_CardinalityType DEF TypeOK

\* While there are ids there are indexes: vd_index_ida does not run out first.
LEMMA IndexLeft ==
  ASSUME IInv, nextId < MaxDisks
  PROVE  Min(Indexes \ indexes) \in Indexes \ indexes
<1>1. IsFiniteSet(Indexes) /\ Cardinality(Indexes) = MaxDisks
  <2>1. MaxDisks \in Nat \ {0}
    BY BoundsAssumption DEF IInv, NoRegionLeak, TypeOK
  <2>2. Cardinality(0 .. MaxDisks - 1) = (MaxDisks - 1) - 0 + 1
    BY <2>1, FS_Interval
  <2> QED BY <2>1, <2>2, FS_Interval DEF Indexes
<1>2. indexes # Indexes
  BY <1>1, BoundsAssumption, Finite DEF IInv, NoRegionLeak, TypeOK, IndexInv
<1>3. Indexes \ indexes # {} /\ Indexes \ indexes \in SUBSET Nat
  <2>1. indexes \subseteq Indexes
    BY Zenon DEF IInv, NoRegionLeak, TypeOK
  <2>2. Indexes \in SUBSET Nat
    BY BoundsAssumption DEF Indexes
  <2> QED BY Zenon, <1>2, <2>1, <2>2
<1> QED BY Zenon, <1>3, MinIn

\* lkl_get_free_irq gives an interrupt nobody has.
LEMMA FreeIrqGiven ==
  ASSUME FreeIrqs # {}, NEW user, GetFreeIrq(user)
  PROVE  \E i \in (1 .. NrIrqs) \ DOMAIN irqs :
           /\ DOMAIN irqs' = DOMAIN irqs \cup {i} /\ irqs'[i] = user
           /\ \A j \in DOMAIN irqs : irqs'[j] = irqs[j]
           /\ Range(irqs)' = Range(irqs) \cup {user}
<1>1. Min(FreeIrqs) \in FreeIrqs
  BY MinIn, BoundsAssumption DEF FreeIrqs
<1>2. PICK i \in (1 .. NrIrqs) \ DOMAIN irqs : irqs' = Extend(irqs, i, user)
  BY Zenon, <1>1 DEF GetFreeIrq, FreeIrqs
<1>3. /\ DOMAIN irqs' = DOMAIN irqs \cup {i} /\ irqs'[i] = user
      /\ \A j \in DOMAIN irqs : irqs'[j] = irqs[j]
  BY Zenon, <1>2 DEF Extend
<1>4. Range(irqs)' = Range(irqs) \cup {user}
  BY <1>2, <1>3 DEF Range
<1> QED BY Zenon, <1>2, <1>3, <1>4

(***************************************************************************)
(* One lemma per action: it preserves the invariant.                       *)
(***************************************************************************)

\* do_disk_add after an error: at most an interrupt is lost.
LEMMA DiskAddFailedStep ==
  ASSUME IInv, NEW answer, DiskAddFailed(answer)
  PROVE  IInv'
<1> USE ErrAssumption DEF IInv, NoRegionLeak, kernelVars
<1>1. \/ irqs' = irqs
      \/ \E i \in (1 .. NrIrqs) \ DOMAIN irqs :
           /\ DOMAIN irqs' = DOMAIN irqs \cup {i} /\ irqs'[i] = Lost
           /\ \A j \in DOMAIN irqs : irqs'[j] = irqs[j]
           /\ Range(irqs)' = Range(irqs) \cup {Lost}
  BY Zenon, FreeIrqGiven DEF DiskAddFailed
<1>2. /\ DOMAIN irqs' \subseteq 1 .. NrIrqs
      /\ Range(irqs)' \subseteq Range(irqs) \cup {Lost}
      /\ \A i \in DOMAIN irqs' :
           (i \in DOMAIN irqs /\ irqs'[i] = irqs[i]) \/ irqs'[i] = Lost
      /\ Range(irqs) \subseteq Range(irqs)'
  BY Zenon, <1>1 DEF TypeOK
<1>3. TypeOK'
  BY Zenon, <1>2 DEF DiskAddFailed, TypeOK
<1>4. NoRegionLeak'
  BY Zenon, <1>2, <1>3 DEF DiskAddFailed
<1>5. NoSharedDeviceNumber' /\ MountsAgree' /\ DirInv'
  BY DEF DiskAddFailed, NoSharedDeviceNumber, MountsAgree, DirInv, Device
<1>6. FreshInv' /\ IndexInv'
  BY Zenon, <1>2 DEF DiskAddFailed, FreshInv, IndexInv
<1> QED BY Zenon, <1>4, <1>5, <1>6

\* virtio_dev_setup has a region and an interrupt for the new id.
LEMMA SetUp ==
  ASSUME IInv, nextId < MaxDisks, RegionFree, FreeIrqs # {}, GetFreeIrq(nextId),
         nextId' = nextId + 1, regions' = regions \cup {nextId}
  PROVE  /\ nextId \in Ids /\ nextId' \in 0 .. MaxDisks /\ nextId < nextId'
         /\ regions' \subseteq Ids /\ Cardinality(regions') <= MaxRegions
         /\ DOMAIN irqs' \subseteq 1 .. NrIrqs /\ Range(irqs)' = Range(irqs) \cup {nextId}
         /\ \A i, j \in DOMAIN irqs' : irqs'[i] = irqs'[j] => i = j \/ irqs'[i] = Lost
         /\ \A i \in DOMAIN irqs' : irqs'[i] # Lost => irqs'[i] < nextId'
<1> USE ErrAssumption, BoundsAssumption DEF IInv, NoRegionLeak
<1>1. nextId \in Ids /\ nextId' \in 0 .. MaxDisks /\ nextId < nextId'
  BY DEF TypeOK, Ids
<1>2. regions' \subseteq Ids /\ Cardinality(regions') <= MaxRegions
  <2>1. nextId \notin regions
    BY <1>1 DEF FreshInv, Ids
  <2>2. Cardinality(regions') = Cardinality(regions) + 1
    BY Zenon, <2>1, Finite, FS_AddElement
  <2> QED BY <1>1, <2>2, Finite DEF RegionFree, TypeOK
<1>4. PICK i \in (1 .. NrIrqs) \ DOMAIN irqs :
        /\ DOMAIN irqs' = DOMAIN irqs \cup {i} /\ irqs'[i] = nextId
        /\ \A j \in DOMAIN irqs : irqs'[j] = irqs[j]
        /\ Range(irqs)' = Range(irqs) \cup {nextId}
  BY Zenon, FreeIrqGiven
<1>5. \A j \in DOMAIN irqs : irqs[j] # nextId /\ (irqs[j] # Lost => irqs[j] \in Ids)
  <2>1. nextId # Lost
    BY Zenon, <1>1
  <2>2. \A j \in DOMAIN irqs : irqs[j] # Lost => irqs[j] \in Ids /\ irqs[j] < nextId
    BY DEF TypeOK, FreshInv, Range
  <2> QED BY <1>1, <2>1, <2>2 DEF Ids
<1>6. \A j \in DOMAIN irqs' : irqs'[j] # Lost => irqs'[j] < nextId'
  <2>1. \A j \in DOMAIN irqs : irqs[j] # Lost => irqs[j] < nextId'
    BY <1>1, <1>5 DEF FreshInv, Ids, TypeOK
  <2> QED BY Zenon, <1>1, <1>4, <2>1
<1> QED BY <1>1, <1>2, <1>4, <1>5, <1>6 DEF TypeOK, Range

\* The ids of the tables stay below nextId when it grows.
LEMMA StillFresh ==
  ASSUME IInv, nextId' \in 0 .. MaxDisks, nextId <= nextId'
  PROVE  /\ \A id \in (disks \ {ErrId}) \cup regions \cup DOMAIN bound : id < nextId'
         /\ \A dev \in DOMAIN mounted : mounted[dev] < nextId'
         /\ \A mp \in DOMAIN mounts : mounts[mp].diskId < nextId'
<1> USE BoundsAssumption DEF IInv, NoRegionLeak
<1>1. \A id \in (disks \ {ErrId}) \cup regions \cup DOMAIN bound : id \in Ids
  BY Zenon DEF TypeOK
<1>2. \A dev \in DOMAIN mounted : mounted[dev] \in Ids
  BY Zenon DEF TypeOK, Range
<1> QED BY <1>1, <1>2 DEF FreshInv, TypeOK, Ids

\* virtio_mmio_device_add fails: a region and an interrupt stay behind.
LEMMA DiskAddNoDeviceStep ==
  ASSUME IInv, NEW answer, DiskAddNoDevice(answer)
  PROVE  IInv'
<1> USE ErrAssumption, BoundsAssumption DEF IInv, NoRegionLeak, kernelVars
<1>1. /\ nextId \in Ids /\ nextId' \in 0 .. MaxDisks /\ nextId < nextId'
      /\ regions' \subseteq Ids /\ Cardinality(regions') <= MaxRegions
      /\ DOMAIN irqs' \subseteq 1 .. NrIrqs /\ Range(irqs)' = Range(irqs) \cup {nextId}
      /\ \A i, j \in DOMAIN irqs' : irqs'[i] = irqs'[j] => i = j \/ irqs'[i] = Lost
      /\ \A i \in DOMAIN irqs' : irqs'[i] # Lost => irqs'[i] < nextId'
  BY Zenon, SetUp DEF DiskAddNoDevice
<1>2. TypeOK'
  <2>1. failed' \in BOOLEAN
    BY Zenon DEF DiskAddNoDevice
  <2> QED BY Zenon, <1>1, <2>1 DEF DiskAddNoDevice, TypeOK
<1>3. NoRegionLeak'
  BY Zenon, <1>1, <1>2 DEF DiskAddNoDevice
<1>4. NoSharedDeviceNumber' /\ MountsAgree' /\ DirInv'
  BY DEF DiskAddNoDevice, NoSharedDeviceNumber, MountsAgree, DirInv, Device
<1>5. FreshInv'
  <2>1. nextId <= nextId'
    BY <1>1 DEF Ids
  <2> QED BY Zenon, <1>1, <2>1, StillFresh DEF DiskAddNoDevice, FreshInv
<1>6. IndexInv'
  BY <1>1, Finite DEF DiskAddNoDevice, IndexInv, Ids
<1> QED BY Zenon, <1>3, <1>4, <1>5, <1>6

\* The driver does not probe the device: the disk has no index.
LEMMA DiskAddNoDriverStep ==
  ASSUME IInv, NEW answer, DiskAddNoDriver(answer)
  PROVE  IInv'
<1> USE ErrAssumption, BoundsAssumption DEF IInv, NoRegionLeak, kernelVars
<1>1. /\ nextId \in Ids /\ nextId' \in 0 .. MaxDisks /\ nextId < nextId'
      /\ regions' \subseteq Ids /\ Cardinality(regions') <= MaxRegions
      /\ DOMAIN irqs' \subseteq 1 .. NrIrqs /\ Range(irqs)' = Range(irqs) \cup {nextId}
      /\ \A i, j \in DOMAIN irqs' : irqs'[i] = irqs'[j] => i = j \/ irqs'[i] = Lost
      /\ \A i \in DOMAIN irqs' : irqs'[i] # Lost => irqs'[i] < nextId'
  BY Zenon, SetUp DEF DiskAddNoDriver
<1>2. TypeOK'
  <2>1. failed' \in BOOLEAN
    BY Zenon DEF DiskAddNoDriver
  <2> QED BY Zenon, <1>1, <2>1 DEF DiskAddNoDriver, TypeOK
<1>3. NoRegionLeak'
  BY Zenon, <1>1, <1>2 DEF DiskAddNoDriver
<1>4. NoSharedDeviceNumber' /\ MountsAgree' /\ DirInv'
  BY DEF DiskAddNoDriver, NoSharedDeviceNumber, MountsAgree, DirInv, Device
<1>5. FreshInv'
  <2>1. nextId <= nextId'
    BY <1>1 DEF Ids
  <2> QED BY Zenon, <1>1, <2>1, StillFresh DEF DiskAddNoDriver, FreshInv
<1>6. IndexInv'
  BY <1>1, Finite DEF DiskAddNoDriver, IndexInv, Ids
<1> QED BY Zenon, <1>3, <1>4, <1>5, <1>6

\* A new disk has an id and an index that nothing else has.
LEMMA DiskAddStep ==
  ASSUME IInv, NEW answer, DiskAdd(answer)
  PROVE  IInv'
<1> USE ErrAssumption, BoundsAssumption DEF IInv, NoRegionLeak
<1>1. /\ nextId \in Ids /\ nextId' \in 0 .. MaxDisks /\ nextId < nextId'
      /\ regions' \subseteq Ids /\ Cardinality(regions') <= MaxRegions
      /\ DOMAIN irqs' \subseteq 1 .. NrIrqs /\ Range(irqs)' = Range(irqs) \cup {nextId}
      /\ \A i, j \in DOMAIN irqs' : irqs'[i] = irqs'[j] => i = j \/ irqs'[i] = Lost
      /\ \A i \in DOMAIN irqs' : irqs'[i] # Lost => irqs'[i] < nextId'
  BY Zenon, SetUp DEF DiskAdd
<1>2. PICK index \in Indexes \ indexes :
        bound' = Extend(bound, nextId, index) /\ indexes' = indexes \cup {index}
  BY Zenon, IndexLeft DEF DiskAdd
<1>3. nextId \notin DOMAIN bound
  BY <1>1 DEF FreshInv, Ids
<1>4. /\ DOMAIN bound' = DOMAIN bound \cup {nextId} /\ bound'[nextId] = index
      /\ \A id \in DOMAIN bound : bound'[id] = bound[id] /\ bound[id] \in indexes
      /\ Range(bound)' = Range(bound) \cup {index}
  <2>1. \A id \in DOMAIN bound : bound[id] \in indexes
    BY Zenon DEF TypeOK, Range
  <2> QED BY <1>2, <1>3, <2>1, Extended
<1>5. TypeOK'
  BY Zenon, <1>1, <1>2, <1>4 DEF DiskAdd, TypeOK
<1>6. NoRegionLeak'
  BY Zenon, <1>1, <1>3, <1>4, <1>5 DEF DiskAdd
<1>7. MountsAgree' /\ DirInv'
  BY Zenon DEF DiskAdd, MountsAgree, DirInv
<1>8. FreshInv'
  <2>1. nextId <= nextId'
    BY <1>1 DEF Ids
  <2> QED BY Zenon, <1>1, <1>4, <2>1, StillFresh DEF DiskAdd, FreshInv
<1>9. IndexInv'
  <2>1. Cardinality(indexes') = Cardinality(indexes) + 1
    BY Zenon, <1>2, Finite, FS_AddElement
  <2>2. Cardinality(indexes') <= nextId'
    BY <2>1, Finite DEF DiskAdd, IndexInv, TypeOK
  <2> QED BY Zenon, <1>2, <2>2 DEF DiskAdd, IndexInv
<1>10. NoSharedDeviceNumber'
  <2>1. \A a, b \in DOMAIN bound' : bound'[a] = bound'[b] => a = b
    BY <1>2, <1>4 DEF NoSharedDeviceNumber
  <2>2. \A dev \in DOMAIN mounted : mounted[dev] # nextId /\ dev[1] # index
    BY <1>1, <1>2 DEF FreshInv, IndexInv, Ids
  <2>3. \A mp \in DOMAIN mounts : mounts[mp].diskId # nextId
    BY <1>1 DEF FreshInv, Ids
  <2>4. \A dev \in DOMAIN mounted, id \in DOMAIN bound' :
          bound'[id] = dev[1] <=> mounted[dev] = id
    BY <1>4, <2>2 DEF NoSharedDeviceNumber
  <2>5. \A mp \in DOMAIN mounts :
          /\ mp \in DOMAIN mounted => mounts[mp].diskId = mounted[mp]
          /\ mounts[mp].diskId \in DOMAIN bound' =>
               mp = <<bound'[mounts[mp].diskId], mounts[mp].partition>>
    BY <1>4, <2>3 DEF NoSharedDeviceNumber, Device
  <2>6. UNCHANGED <<mounted, mounts>>
    BY Zenon DEF DiskAdd
  <2> QED BY <2>1, <2>4, <2>5, <2>6 DEF NoSharedDeviceNumber, Device
<1> QED BY Zenon, <1>6, <1>7, <1>8, <1>9, <1>10

\* virtblk_remove of a disk: the index is free again unless something is mounted,
\* so that no other disk gets the number of a mounted device.
LEMMA Unbound ==
  ASSUME IInv, NEW id, bound' = Drop(bound, id), FreeIndex(id),
         UNCHANGED <<nextId, mounted, mounts>>
  PROVE  /\ DOMAIN bound' = DOMAIN bound \ {id} /\ NoSharedDeviceNumber'
         /\ Range(bound)' \subseteq indexes' /\ indexes' \subseteq indexes
         /\ Cardinality(indexes') <= nextId'
         /\ \A dev \in DOMAIN mounted : dev[1] \in indexes'
<1> USE DEF IInv, NoRegionLeak
<1>1. /\ DOMAIN bound' = DOMAIN bound \ {id}
      /\ \A x \in DOMAIN bound \ {id} : bound'[x] = bound[x]
  BY Zenon, Dropped
<1>2. \A x \in DOMAIN bound : bound[x] \in indexes
  BY Zenon DEF TypeOK, Range
<1>3. \A a, b \in DOMAIN bound : bound[a] = bound[b] => a = b
  BY Zenon DEF NoSharedDeviceNumber
<1>4. indexes' = indexes \/ indexes' = indexes \ Index(id)
  BY Zenon DEF FreeIndex
<1>10. \A x \in Index(id) : id \in DOMAIN bound /\ x = bound[id]
  BY Zenon DEF Index
<1>5. \A x \in DOMAIN bound \ {id} : bound[x] \in indexes'
  BY Zenon, <1>2, <1>3, <1>4, <1>10
<1>6. \A dev \in DOMAIN mounted : dev[1] \in indexes'
  <2>1. CASE \E dev \in DOMAIN mounted : mounted[dev] = id
    BY Zenon, <2>1 DEF FreeIndex, IndexInv
  <2>2. CASE \A dev \in DOMAIN mounted : mounted[dev] # id
    BY Zenon, <1>4, <1>10, <2>2 DEF NoSharedDeviceNumber, IndexInv
  <2> QED BY Zenon, <2>1, <2>2
<1>7. Cardinality(indexes') <= nextId'
  <2>1. Cardinality(indexes') <= Cardinality(indexes) /\ Cardinality(indexes') \in Nat
    <3> HIDE DEF IInv, NoRegionLeak
    <3>1. IsFiniteSet(indexes) /\ indexes' \subseteq indexes
      BY Zenon, <1>4, Finite DEF IInv, NoRegionLeak
    <3> QED BY Zenon, <3>1, FS_Subset, FS_CardinalityType
  <2> QED BY <2>1, Finite DEF IndexInv, TypeOK
<1>8. NoSharedDeviceNumber'
  <2>1. \A a, b \in DOMAIN bound' : bound'[a] = bound'[b] => a = b
    BY Zenon, <1>1, <1>3
  <2>2. \A dev \in DOMAIN mounted, x \in DOMAIN bound' :
          bound'[x] = dev[1] <=> mounted[dev] = x
    BY <1>1 DEF NoSharedDeviceNumber
  <2>3. \A mp \in DOMAIN mounts :
          /\ mp \in DOMAIN mounted => mounts[mp].diskId = mounted[mp]
          /\ mounts[mp].diskId \in DOMAIN bound' =>
               mp = <<bound'[mounts[mp].diskId], mounts[mp].partition>>
    BY Zenon, <1>1 DEF NoSharedDeviceNumber, Device
  <2> QED BY <2>1, <2>2, <2>3 DEF NoSharedDeviceNumber, Device
<1>9. Range(bound)' \subseteq indexes'
  BY <1>1, <1>5 DEF Range
<1> QED BY Zenon, <1>1, <1>4, <1>6, <1>7, <1>8, <1>9

\* virtio_dev_cleanup fails, before or after the unbind.
LEMMA DiskRemoveFailedStep ==
  ASSUME IInv, NEW id \in Ids, DiskRemoveFailed(id)
  PROVE  IInv'
<1> USE ErrAssumption DEF IInv, NoRegionLeak
<1>1. id # ErrId
  BY Zenon DEF DiskRemoveFailed
<1>2. failed' \in BOOLEAN /\ failed'
  BY Zenon DEF DiskRemoveFailed
<1>3. /\ DOMAIN bound' \subseteq DOMAIN bound /\ DOMAIN bound \ {id} \subseteq DOMAIN bound'
      /\ NoSharedDeviceNumber'
      /\ Range(bound)' \subseteq indexes' /\ indexes' \subseteq indexes
      /\ Cardinality(indexes') <= nextId'
      /\ \A dev \in DOMAIN mounted : dev[1] \in indexes'
  <2>1. CASE UNCHANGED <<bound, indexes>>
    BY <2>1 DEF DiskRemoveFailed, NoSharedDeviceNumber, Device, IndexInv, TypeOK
  <2>2. CASE bound' = Drop(bound, id) /\ FreeIndex(id)
    BY Zenon, <2>2, Unbound DEF DiskRemoveFailed
  <2> QED BY Zenon, <2>1, <2>2 DEF DiskRemoveFailed
<1>4. TypeOK'
  BY Zenon, <1>2, <1>3 DEF DiskRemoveFailed, TypeOK
<1>5. NoRegionLeak' /\ MountsAgree' /\ DirInv'
  BY Zenon, <1>2, <1>4 DEF DiskRemoveFailed, MountsAgree, DirInv
<1>6. FreshInv'
  BY Zenon, <1>3 DEF DiskRemoveFailed, FreshInv
<1>7. IndexInv'
  BY Zenon, <1>3 DEF DiskRemoveFailed, IndexInv
<1> QED BY Zenon, <1>3, <1>5, <1>6, <1>7

\* A disk is removed with its region and its interrupt.
LEMMA DiskRemoveStep ==
  ASSUME IInv, NEW id \in Ids, DiskRemove(id)
  PROVE  IInv'
<1> USE ErrAssumption DEF IInv, NoRegionLeak
<1>1. id # ErrId /\ id # Lost
  BY Zenon DEF DiskRemove
<1>2. /\ DOMAIN bound' = DOMAIN bound \ {id} /\ NoSharedDeviceNumber'
      /\ Range(bound)' \subseteq indexes' /\ indexes' \subseteq indexes
      /\ Cardinality(indexes') <= nextId'
      /\ \A dev \in DOMAIN mounted : dev[1] \in indexes'
  BY Zenon, Unbound DEF DiskRemove
<1>3. /\ DOMAIN irqs' = {i \in DOMAIN irqs : irqs[i] # id}
      /\ \A i \in DOMAIN irqs' : irqs'[i] = irqs[i]
  BY Zenon DEF DiskRemove, PutIrq, Restrict
<1>4. Range(irqs)' = Range(irqs) \ {id}
  BY <1>3 DEF Range
<1>5. regions' = regions \ {id} /\ Cardinality(regions') <= MaxRegions
  <2>1. regions' = regions \ {id}
    BY Zenon DEF DiskRemove, UnregisterIomem
  <2>2. Cardinality(regions') <= Cardinality(regions) /\ Cardinality(regions') \in Nat
    <3> HIDE DEF IInv, NoRegionLeak
    <3>1. IsFiniteSet(regions) /\ regions' \subseteq regions
      BY Zenon, <2>1, Finite DEF IInv, NoRegionLeak
    <3> QED BY Zenon, <3>1, FS_Subset, FS_CardinalityType
  <2> QED BY <2>1, <2>2, Finite, BoundsAssumption DEF TypeOK
<1>6. TypeOK'
  BY Zenon, <1>2, <1>3, <1>4, <1>5 DEF DiskRemove, TypeOK
<1>7. NoRegionLeak'
  <2>1. \A i, j \in DOMAIN irqs' : irqs'[i] = irqs'[j] => i = j \/ irqs'[i] = Lost
    BY Zenon, <1>3
  <2> QED BY Zenon, <1>1, <1>2, <1>4, <1>5, <1>6, <2>1 DEF DiskRemove
<1>8. MountsAgree' /\ DirInv'
  BY Zenon DEF DiskRemove, MountsAgree, DirInv
<1>9. FreshInv'
  BY Zenon, <1>2, <1>3, <1>5 DEF DiskRemove, FreshInv
<1>10. IndexInv'
  BY Zenon, <1>2 DEF DiskRemove, IndexInv
<1> QED BY Zenon, <1>2, <1>7, <1>8, <1>9, <1>10

\* mkdir of /mnt fails: a device node stays behind.
LEMMA MountNoMntStep ==
  ASSUME IInv, NEW id \in Ids, NEW part \in Parts, MountNoMnt(id, part)
  PROVE  IInv'
<1> USE DEF IInv, NoRegionLeak, tables
<1>1. failed' \in BOOLEAN /\ failed'
  BY Zenon DEF MountNoMnt
<1>2. Device(id, part) \in Devices
  BY Zenon DEF MountNoMnt, Found, Device, Devices, TypeOK, Range
<1>3. TypeOK'
  BY Zenon, <1>1, <1>2 DEF MountNoMnt, TypeOK
<1>4. NoRegionLeak' /\ MountsAgree'
  BY Zenon, <1>1, <1>3 DEF MountNoMnt, MountsAgree
<1>5. NoSharedDeviceNumber' /\ FreshInv' /\ IndexInv' /\ DirInv'
  BY DEF MountNoMnt, NoSharedDeviceNumber, Device, FreshInv, IndexInv, DirInv
<1> QED BY Zenon, <1>4, <1>5

\* A mount is recorded under the device it has in the kernel.
LEMMA MountStep ==
  ASSUME IInv, NEW id \in Ids, NEW part \in Parts, Mount(id, part)
  PROVE  IInv'
<1> DEFINE dev == <<bound[id], part>>
<1>1. /\ id \in DOMAIN bound /\ dev \notin nodes \cup dirs
      /\ nodes' = nodes \cup {dev} /\ dirs' = dirs \cup {dev}
      /\ mounted' = Extend(mounted, dev, id)
      /\ mounts' = Extend(mounts, dev, [diskId |-> id, partition |-> part])
      /\ UNCHANGED <<nextId, disks, regions, irqs, bound, indexes, busy, failed, stuck>>
  BY Zenon DEF Mount, Found, Device, RecordMount, tables
<1>2. bound[id] \in indexes /\ dev \in Devices /\ dev[1] = bound[id] /\ id < nextId
  BY Zenon, <1>1 DEF IInv, NoRegionLeak, TypeOK, Range, Devices, FreshInv
<1>3. dev \notin DOMAIN mounted /\ dev \notin DOMAIN mounts
  BY Zenon, <1>1 DEF IInv, DirInv
<1> HIDE DEF dev
<1>4. /\ DOMAIN mounted' = DOMAIN mounted \cup {dev} /\ mounted'[dev] = id
      /\ \A d \in DOMAIN mounted : mounted'[d] = mounted[d]
  BY Zenon, <1>1, <1>3 DEF Extend
<1>5. /\ DOMAIN mounts' = DOMAIN mounts \cup {dev}
      /\ mounts'[dev].diskId = id /\ mounts'[dev].partition = part
      /\ \A mp \in DOMAIN mounts : mounts'[mp] = mounts[mp]
  BY Zenon, <1>1, <1>3 DEF Extend
<1>6. Range(mounted)' \subseteq Ids
  BY Zenon, <1>4 DEF Range, IInv, NoRegionLeak, TypeOK
<1>7. TypeOK'
  BY Zenon, <1>1, <1>2, <1>4, <1>5, <1>6 DEF IInv, NoRegionLeak, TypeOK
<1>8. NoRegionLeak' /\ MountsAgree'
  BY Zenon, <1>1, <1>4, <1>5, <1>7 DEF IInv, NoRegionLeak, MountsAgree
<1>9. FreshInv'
  BY <1>1, <1>2, <1>4, <1>5 DEF IInv, FreshInv
<1>10. IndexInv' /\ DirInv'
  BY Zenon, <1>1, <1>2, <1>4, <1>5 DEF IInv, IndexInv, DirInv
<1>11. NoSharedDeviceNumber'
  <2>1. \A a, b \in DOMAIN bound : bound[a] = bound[b] => a = b
    BY Zenon DEF IInv, NoSharedDeviceNumber
  <2>2. \A d \in DOMAIN mounted', x \in DOMAIN bound : bound[x] = d[1] <=> mounted'[d] = x
    BY <1>1, <1>2, <1>4, <2>1 DEF IInv, NoSharedDeviceNumber
  <2>3. \A mp \in DOMAIN mounts' :
          /\ mp \in DOMAIN mounted' => mounts'[mp].diskId = mounted'[mp]
          /\ mounts'[mp].diskId \in DOMAIN bound =>
               mp = <<bound[mounts'[mp].diskId], mounts'[mp].partition>>
    <3>1. dev = <<bound[id], part>>
      BY Zenon DEF dev
    <3> QED BY Zenon, <1>3, <1>4, <1>5, <3>1 DEF IInv, NoSharedDeviceNumber, Device
  <2> QED BY <1>1, <2>1, <2>2, <2>3 DEF NoSharedDeviceNumber, Device
<1> QED BY Zenon, <1>8, <1>9, <1>10, <1>11 DEF IInv


\* The device umount finds by disk id and partition is the one mounted there.
LEMMA UmountDevice ==
  ASSUME IInv, NEW mp \in DOMAIN mounts,
         Found(mounts[mp].diskId, mounts[mp].partition)
  PROVE  Device(mounts[mp].diskId, mounts[mp].partition) = mp
BY Zenon DEF IInv, NoSharedDeviceNumber, Found

\* The unlink or the rmdir fails after the file system is detached.
LEMMA UmountPartlyStep ==
  ASSUME IInv, NEW mp \in Devices, UmountPartly(mp)
  PROVE  IInv'
<1> USE DEF IInv, NoRegionLeak
<1>1. /\ mp \in DOMAIN mounted \ busy /\ mounted' = Drop(mounted, mp)
      /\ nodes' \in {nodes, nodes \ {mp}}
      /\ UNCHANGED <<nextId, disks, regions, irqs, bound, indexes, dirs, busy, mounts, stuck>>
  BY Zenon, UmountDevice DEF UmountPartly, Info, tables
<1>2. failed' \in BOOLEAN /\ failed'
  BY Zenon DEF UmountPartly
<1>3. /\ DOMAIN mounted' = DOMAIN mounted \ {mp}
      /\ \A d \in DOMAIN mounted \ {mp} : mounted'[d] = mounted[d]
  BY Zenon, <1>1, Dropped
<1>4. Range(mounted)' \subseteq Ids
  BY Zenon, <1>3 DEF Range, TypeOK
<1>5. TypeOK'
  BY Zenon, <1>1, <1>2, <1>3, <1>4 DEF TypeOK
<1>6. NoRegionLeak' /\ MountsAgree'
  BY Zenon, <1>1, <1>2, <1>5 DEF MountsAgree
<1>7. NoSharedDeviceNumber'
  BY <1>1, <1>3 DEF NoSharedDeviceNumber, Device
<1>8. FreshInv' /\ IndexInv' /\ DirInv'
  BY Zenon, <1>1, <1>3 DEF FreshInv, IndexInv, DirInv
<1> QED BY Zenon, <1>6, <1>7, <1>8

\* umount forgets the mount, the node and the directory together.
LEMMA UmountStep ==
  ASSUME IInv, NEW mp \in Devices, Umount(mp)
  PROVE  IInv'
<1> USE DEF IInv, NoRegionLeak
<1>1. /\ mp \in DOMAIN mounted \ busy /\ mounted' = Drop(mounted, mp)
      /\ mp \in DOMAIN mounts /\ mounts' = Drop(mounts, mp)
      /\ nodes' = nodes \ {mp} /\ dirs' = dirs \ {mp}
      /\ UNCHANGED <<nextId, disks, regions, irqs, bound, indexes, busy, failed, stuck>>
  BY UmountDevice DEF Umount, Info, ForgetMount, tables
<1>2. /\ DOMAIN mounted' = DOMAIN mounted \ {mp}
      /\ \A d \in DOMAIN mounted \ {mp} : mounted'[d] = mounted[d]
  BY Zenon, <1>1, Dropped
<1>3. /\ DOMAIN mounts' = DOMAIN mounts \ {mp}
      /\ \A d \in DOMAIN mounts \ {mp} : mounts'[d] = mounts[d]
  BY Zenon, <1>1, Dropped
<1>4. Range(mounted)' \subseteq Ids
  BY Zenon, <1>2 DEF Range, TypeOK
<1>5. TypeOK'
  BY Zenon, <1>1, <1>2, <1>3, <1>4 DEF TypeOK
<1>6. NoRegionLeak' /\ MountsAgree'
  BY Zenon, <1>1, <1>2, <1>3, <1>5 DEF MountsAgree
<1>7. NoSharedDeviceNumber'
  BY <1>1, <1>2, <1>3 DEF NoSharedDeviceNumber, Device
<1>8. FreshInv' /\ IndexInv' /\ DirInv'
  BY Zenon, <1>1, <1>2, <1>3 DEF FreshInv, IndexInv, DirInv
<1> QED BY Zenon, <1>6, <1>7, <1>8

\* The tables are those of before: a call that failed and was undone, a umount
\* that threw, a file opened or closed.
LEMMA TablesKept ==
  ASSUME IInv, UNCHANGED <<nextId, disks, regions, irqs, bound, indexes, nodes,
                           dirs, mounted, mounts, failed>>,
         busy' \subseteq DOMAIN mounted, stuck' \in BOOLEAN
  PROVE  IInv'
BY DEF IInv, NoRegionLeak, TypeOK, Range, MountsAgree, NoSharedDeviceNumber,
       Device, FreshInv, IndexInv, DirInv

\* Nothing is in the tables at first.
LEMMA InitInv == Init => IInv
<1> SUFFICES ASSUME Init PROVE IInv
  BY Zenon
<1>1. Cardinality({}) = 0 /\ DOMAIN NoFun = {} /\ Range(NoFun) = {}
  BY Zenon, FS_EmptySet DEF NoFun, Range
<1>2. TypeOK
  <2>1. failed \in BOOLEAN /\ stuck \in BOOLEAN
    BY Zenon DEF Init
  <2> QED BY <1>1, <2>1, BoundsAssumption DEF Init, TypeOK
<1>3. NoRegionLeak
  BY Zenon, <1>1, <1>2 DEF Init, NoRegionLeak
<1>4. NoSharedDeviceNumber /\ MountsAgree /\ FreshInv /\ DirInv
  BY Zenon, <1>1 DEF Init, NoSharedDeviceNumber, MountsAgree, FreshInv, DirInv
<1>5. IndexInv
  BY <1>1 DEF Init, IndexInv
<1> QED BY Zenon, <1>3, <1>4, <1>5 DEF IInv

\* Every call keeps the invariant.
LEMMA NextInv == IInv /\ [Next]_vars => IInv'
<1> SUFFICES ASSUME IInv, [Next]_vars PROVE IInv'
  BY Zenon
<1>1. ASSUME NEW a \in {"null", "Error", "number"}, DiskAddFailed(a) PROVE IInv'
  BY Zenon, <1>1, DiskAddFailedStep
<1>2. ASSUME NEW a \in {"null", "Error", "number"}, DiskAddNoDevice(a) PROVE IInv'
  BY Zenon, <1>2, DiskAddNoDeviceStep
<1>16. ASSUME NEW a \in {"null", "Error", "number"}, DiskAddNoDriver(a) PROVE IInv'
  BY Zenon, <1>16, DiskAddNoDriverStep
<1>3. ASSUME NEW a \in {"null", "Error", "number"}, DiskAdd(a) PROVE IInv'
  BY Zenon, <1>3, DiskAddStep
<1>4. ASSUME NEW id \in Ids, DiskRemoveUnknown(id) PROVE UNCHANGED vars
  BY Zenon, <1>4 DEF DiskRemoveUnknown
<1>5. ASSUME NEW id \in Ids, DiskRemoveFailed(id) PROVE IInv'
  BY Zenon, <1>5, DiskRemoveFailedStep
<1>6. ASSUME NEW id \in Ids, DiskRemove(id) PROVE IInv'
  BY Zenon, <1>6, DiskRemoveStep
<1>7. ASSUME NEW id \in Ids, NEW part \in Parts, MountFailed(id, part)
      PROVE  UNCHANGED vars
  BY Zenon, <1>7 DEF MountFailed, MountCleaned, tables, vars, kernelVars
<1>8. ASSUME NEW id \in Ids, NEW part \in Parts, MountNoMnt(id, part) PROVE IInv'
  BY Zenon, <1>8, MountNoMntStep
<1>9. ASSUME NEW id \in Ids, NEW part \in Parts, Mount(id, part) PROVE IInv'
  BY Zenon, <1>9, MountStep
<1>10. ASSUME NEW mp \in Devices, UmountUnknown(mp) PROVE IInv'
  <2>1. stuck' \in BOOLEAN
    BY <1>10, Zenon DEF UmountUnknown
  <2>2. busy \subseteq DOMAIN mounted
    BY Zenon DEF IInv, NoRegionLeak, TypeOK
  <2> QED BY Zenon, <1>10, <2>1, <2>2, TablesKept DEF UmountUnknown, tables, kernelVars
<1>11. ASSUME NEW mp \in Devices, UmountFailed(mp) PROVE UNCHANGED vars
  BY Zenon, <1>11 DEF UmountFailed
<1>12. ASSUME NEW mp \in Devices, UmountPartly(mp) PROVE IInv'
  BY Zenon, <1>12, UmountPartlyStep
<1>13. ASSUME NEW mp \in Devices, Umount(mp) PROVE IInv'
  BY Zenon, <1>13, UmountStep
<1>14. ASSUME NEW mp \in Devices, Open(mp) \/ Close(mp) PROVE IInv'
  <2>1. busy' \subseteq DOMAIN mounted
    BY <1>14 DEF Open, Close, IInv, NoRegionLeak, TypeOK
  <2>2. stuck' \in BOOLEAN
    BY <1>14, Zenon DEF Open, Close, IInv, NoRegionLeak, TypeOK
  <2> QED BY Zenon, <1>14, <2>1, <2>2, TablesKept DEF Open, Close, tables
<1>15. ASSUME UNCHANGED vars PROVE IInv'
  <2>1. busy \subseteq DOMAIN mounted /\ stuck \in BOOLEAN
    BY Zenon DEF IInv, NoRegionLeak, TypeOK
  <2> QED BY Zenon, <1>15, <2>1, TablesKept DEF vars, tables, kernelVars
<1> QED
  BY Zenon, <1>1, <1>2, <1>3, <1>4, <1>5, <1>6, <1>7, <1>8, <1>9, <1>10, <1>11, <1>12,
     <1>13, <1>14, <1>15, <1>16 DEF Next

-----------------------------------------------------------------------------
\* The inductive invariant holds through every sequence of diskAdd, diskRemove,
\* mount, umount, open and close, whatever fails in the kernel.
THEOREM Inductive == Spec => []IInv
BY InitInv, NextInv, PTL DEF Spec

\* Adding and removing disks leaks no iomem region and leaves no disk without
\* its interrupt, for any number of disks, regions and interrupts
\* (virtio_dev_setup and virtio_dev_cleanup of virtio.c).
THEOREM DisksKeepTheirResources == Spec => []NoRegionLeak
<1>1. IInv => NoRegionLeak
  BY Zenon DEF IInv
<1> QED BY <1>1, Inductive, PTL

\* umount(mountpoint), which goes by the disk id lkl.js recorded, reaches the
\* file system of that disk and no other, also after diskRemove of a mounted
\* disk (virtblk_remove keeps the index of a disk in use).
THEOREM UmountReachesItsDisk == Spec => []NoSharedDeviceNumber
<1>1. IInv => NoSharedDeviceNumber
  BY Zenon DEF IInv
<1> QED BY <1>1, Inductive, PTL

\* `mounts` of lkl.js, the mounts of the kernel and the files of /dev and /mnt
\* agree as long as no call of the kernel failed half way.
THEOREM MountTablesAgree == Spec => []MountsAgree
<1>1. IInv => MountsAgree
  BY Zenon DEF IInv
<1> QED BY <1>1, Inductive, PTL
=============================================================================
