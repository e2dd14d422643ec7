------------------------------- MODULE Disks --------------------------------
(***************************************************************************)
(* The life of disks and mounts: lkl.diskAdd, diskRemove, mount, umount.   *)
(* Five tables describe them: the disks of src/disk.cc, the mounts of      *)
(* lib/lkl.js, the host's iomem regions, the interrupts of arch/lkl's      *)
(* irq.c, and the kernel's own for devices and mounts.  An action          *)
(* is one operation of the queue, its callback included: the operations    *)
(* run one at a time (Bridge), and nothing else changes these tables.      *)
(*                                                                         *)
(* Disk ids are never used again (the platform device stays after the      *)
(* unbind); device numbers are.  A device is <<index, partition>>; its     *)
(* names /dev/%08x and /mnt/%08x encode exactly that pair.                 *)
(***************************************************************************)
EXTENDS Naturals, FiniteSets, FiniteSetsExt, Functions

CONSTANTS
  MaxDisks,       \* bound: disks ever added
  Parts,          \* partition numbers clients use; 0 is the whole disk
  Present,        \* those a disk has
  MaxRegions,     \* MAX_IOMEM_REGIONS - 1
  NrIrqs,         \* NR_IRQS, less 0 (not valid) and the timer's number
  Lost,           \* who holds an interrupt of no disk
  ErrId,          \* a negative result stored as a key of `disks`
  KernelMayFail   \* whether there may be no memory, and inner system calls fail

Ids == 0 .. MaxDisks - 1
Indexes == 0 .. MaxDisks - 1
Devices == Indexes \X Parts

ASSUME PartsAssumption == Present \subseteq Parts /\ Parts \subseteq Nat
ASSUME BoundsAssumption == {MaxDisks, MaxRegions, NrIrqs} \subseteq Nat
ASSUME ErrAssumption == {ErrId, Lost} \cap Ids = {} /\ KernelMayFail \in BOOLEAN

VARIABLES
  nextId,   \* the id of the next platform device
  disks,    \* keys of disk.cc's `disks`
  regions,  \* iomem_regions in use: the disk id each belongs to
  irqs,     \* irq.c: interrupt in use -> the disk id it belongs to, or Lost
  bound,    \* disk id -> index of the block device, while the driver has it
  indexes,  \* vd_index_ida: the indexes not free
  nodes,    \* files /dev/%08x
  dirs,     \* directories /mnt/%08x
  mounted,  \* the kernel's mounts: device -> disk id
  mounts,   \* lkl.js: mount point (its device) -> [diskId, partition]
  busy,     \* devices with an open descriptor on their mount
  failed,   \* history: an inner system call failed
  stuck     \* a queued method threw: the queue runs no more

kernelVars == <<bound, indexes, nodes, dirs, mounted, busy>>
tables == <<disks, regions, irqs>>
vars == <<nextId, tables, kernelVars, mounts, failed, stuck>>

NoFun == [x \in {} |-> 0]

Init ==
  /\ nextId = 0 /\ disks = {} /\ regions = {} /\ irqs = NoFun
  /\ bound = NoFun /\ indexes = {} /\ nodes = {} /\ dirs = {}
  /\ mounted = NoFun /\ mounts = NoFun /\ busy = {}
  /\ failed = FALSE /\ stuck = FALSE

Extend(f, x, y) == [z \in DOMAIN f \cup {x} |-> IF z = x THEN y ELSE f[z]]
Drop(f, x) == Restrict(f, DOMAIN f \ {x})

(***************************************************************************)
(* lkl.diskAdd.                                                            *)
(***************************************************************************)
\* get_capacity_done: null is success; a number is returned; an Error object
\* becomes a number by IntegerValue, which gives 0.
GetCapacity(answer) == answer \in {"null", "Error"}

\* lkl_get_free_irq takes the first number that is free; none is EBUSY.
FreeIrqs == (1 .. NrIrqs) \ DOMAIN irqs
GetFreeIrq(user) == irqs' = Extend(irqs, Min(FreeIrqs), user)

\* register_iomem finds a free region.
RegionFree == Cardinality(regions) < MaxRegions

\* do_disk_add records whatever lkl_disk_add returned.  Without memory for the
\* queue, or without a region, virtio_dev_setup does not put the interrupt back.
DiskAddFailed(answer) ==
  /\ ~stuck
  /\ \/ (~GetCapacity(answer) \/ FreeIrqs = {} \/ KernelMayFail) /\ UNCHANGED irqs
     \/ /\ GetCapacity(answer) /\ FreeIrqs # {}
        /\ ~RegionFree \/ KernelMayFail
        /\ GetFreeIrq(Lost)
  /\ disks' = disks \cup {ErrId}
  /\ UNCHANGED <<nextId, regions, kernelVars, mounts, failed, stuck>>

\* virtio_mmio_device_add fails: virtio_dev_setup keeps the iomem region and
\* the interrupt.  The id, which the kernel gives to the next device, names here
\* who holds them.
DiskAddNoDevice(answer) ==
  /\ ~stuck /\ KernelMayFail /\ nextId < MaxDisks
  /\ GetCapacity(answer) /\ RegionFree /\ FreeIrqs # {}
  /\ GetFreeIrq(nextId)
  /\ nextId' = nextId + 1
  /\ regions' = regions \cup {nextId}
  /\ disks' = disks \cup {ErrId}
  /\ failed' = TRUE
  /\ UNCHANGED <<kernelVars, mounts, stuck>>

\* The device is there but its driver is not: virtio_mmio_probe or virtblk_probe
\* failed, which platform_device_add does not report.  diskAdd succeeds.
DiskAddNoDriver(answer) ==
  /\ ~stuck /\ KernelMayFail /\ nextId < MaxDisks
  /\ GetCapacity(answer) /\ RegionFree /\ FreeIrqs # {}
  /\ GetFreeIrq(nextId)
  /\ nextId' = nextId + 1
  /\ regions' = regions \cup {nextId}
  /\ disks' = disks \cup {nextId}
  /\ failed' = TRUE
  /\ UNCHANGED <<kernelVars, mounts, stuck>>

DiskAdd(answer) ==
  /\ ~stuck /\ nextId < MaxDisks
  /\ GetCapacity(answer) /\ RegionFree /\ FreeIrqs # {}
  /\ GetFreeIrq(nextId)
  /\ nextId' = nextId + 1
  /\ regions' = regions \cup {nextId}
  /\ LET index == Min(Indexes \ indexes) IN
       /\ bound' = Extend(bound, nextId, index)
       /\ indexes' = indexes \cup {index}
  /\ disks' = disks \cup {nextId}
  /\ UNCHANGED <<nodes, dirs, mounted, busy, mounts, failed, stuck>>

(***************************************************************************)
(* lkl.diskRemove.                                                         *)
(***************************************************************************)
\* The index of a disk, if it has one.
Index(id) == {bound[x] : x \in {id} \cap DOMAIN bound}

\* Mutant: the index is free again although the disk has users.
FreeIndexAlways(id) == indexes' = indexes \ Index(id)

\* virtblk_remove: `Only free device id if we don't have any users`.
FreeIndex(id) ==
  IF \E dev \in DOMAIN mounted : mounted[dev] = id
    THEN UNCHANGED indexes
    ELSE indexes' = indexes \ Index(id)

\* A disk not in `disks` reads as one with a null device: EINVAL.
DiskRemoveUnknown(id) ==
  /\ ~stuck /\ id < nextId /\ id \notin disks
  /\ UNCHANGED vars

\* virtio_dev_cleanup fails before or after the unbind, or in it when there is no
\* driver (ENODEV); the key is erased all the same.
DiskRemoveFailed(id) ==
  /\ ~stuck /\ id \in disks \cap Ids /\ KernelMayFail
  /\ disks' = disks \ {id}
  /\ failed' = TRUE
  /\ \/ UNCHANGED <<bound, indexes>>
     \/ bound' = Drop(bound, id) /\ FreeIndex(id)
  /\ UNCHANGED <<nextId, regions, irqs, nodes, dirs, mounted, busy, mounts,
                 stuck>>

\* Mutant: virtio_dev_cleanup does not unregister the iomem region.
UnregisterNothing(id) == regions

UnregisterIomem(id) == regions \ {id}

\* lkl_put_irq of the number the device has.
PutIrq(id) == Restrict(irqs, {i \in DOMAIN irqs : irqs[i] # id})

DiskRemove(id) ==
  /\ ~stuck /\ id \in disks \cap Ids
  /\ disks' = disks \ {id}
  /\ bound' = Drop(bound, id) /\ FreeIndex(id)
  /\ irqs' = PutIrq(id) /\ regions' = UnregisterIomem(id)
  /\ UNCHANGED <<nextId, nodes, dirs, mounted, busy, mounts, failed,
                 stuck>>

(***************************************************************************)
(* lkl.mount.                                                              *)
(***************************************************************************)
\* lkl_get_virtio_blkdev finds the device number in sysfs.
Found(id, part) == id \in DOMAIN bound /\ part \in Present
Device(id, part) == <<bound[id], part>>

\* The callback of mount in lkl.js, without an error.
RecordMount(mp, id, part) ==
  mounts' = Extend(mounts, mp, [diskId |-> id, partition |-> part])

\* Mutant: the device node is not removed when mount fails.
CleanNothing(dev) == UNCHANGED <<dirs>> /\ nodes' = nodes \cup {dev}

\* The errors of lkl_mount_dev that leave nothing behind: no such device,
\* EEXIST from mknod, or mkdir or mount failed after it and was undone.
MountCleaned(dev) == UNCHANGED <<nodes, dirs>>

MountFailed(id, part) ==
  /\ ~stuck
  /\ \/ ~Found(id, part) /\ UNCHANGED <<nodes, dirs>>
     \/ Found(id, part) /\ Device(id, part) \in nodes /\ UNCHANGED <<nodes, dirs>>
     \/ /\ Found(id, part) /\ Device(id, part) \notin nodes
        /\ MountCleaned(Device(id, part))
  /\ UNCHANGED <<nextId, tables, bound, indexes, mounted, busy, mounts,
                 failed, stuck>>

\* mkdir of /mnt fails: the device node stays.
MountNoMnt(id, part) ==
  /\ ~stuck /\ KernelMayFail
  /\ Found(id, part) /\ Device(id, part) \notin nodes
  /\ nodes' = nodes \cup {Device(id, part)}
  /\ failed' = TRUE
  /\ UNCHANGED <<nextId, tables, bound, indexes, dirs, mounted, busy,
                 mounts, stuck>>

Mount(id, part) ==
  /\ ~stuck
  /\ Found(id, part)
  /\ LET dev == Device(id, part) IN
       /\ dev \notin nodes \cup dirs
       /\ nodes' = nodes \cup {dev} /\ dirs' = dirs \cup {dev}
       /\ mounted' = Extend(mounted, dev, id)
       /\ RecordMount(dev, id, part)
  /\ UNCHANGED <<nextId, tables, bound, indexes, busy, failed,
                 stuck>>

(***************************************************************************)
(* lkl.umount.                                                             *)
(***************************************************************************)
\* `info.diskId` of an unknown mount point throws in the queue.
UmountUnknown(mp) ==
  /\ ~stuck /\ mp \notin DOMAIN mounts
  /\ stuck' = TRUE
  /\ UNCHANGED <<nextId, tables, kernelVars, mounts, failed>>

\* The device umount(mp) looks up, from the entry's disk and partition.
Info(mp) == mounts[mp]

\* The callback of umount in lkl.js, without an error.
ForgetMount(mp) == mounts' = Drop(mounts, mp)

\* The disk is gone (ENOENT); EBUSY for all of the 1000 ms, for nothing can
\* close a descriptor meanwhile; or nothing is mounted there (EINVAL).
UmountFailed(mp) ==
  /\ ~stuck /\ mp \in DOMAIN mounts
  /\ Found(Info(mp).diskId, Info(mp).partition) =>
       LET dev == Device(Info(mp).diskId, Info(mp).partition) IN
         dev \in busy \/ dev \notin DOMAIN mounted
  /\ UNCHANGED vars

\* lkl_umount_dev up to the unlink or the rmdir that fails; `mounts` is kept.
UmountPartly(mp) ==
  /\ ~stuck /\ KernelMayFail /\ mp \in DOMAIN mounts
  /\ Found(Info(mp).diskId, Info(mp).partition)
  /\ LET dev == Device(Info(mp).diskId, Info(mp).partition) IN
       /\ dev \in DOMAIN mounted \ busy
       /\ mounted' = Drop(mounted, dev)
       /\ nodes' \in {nodes, nodes \ {dev}}
  /\ failed' = TRUE
  /\ UNCHANGED <<nextId, tables, bound, indexes, dirs, busy, mounts,
                 stuck>>

Umount(mp) ==
  /\ ~stuck /\ mp \in DOMAIN mounts
  /\ Found(Info(mp).diskId, Info(mp).partition)
  /\ LET dev == Device(Info(mp).diskId, Info(mp).partition) IN
       /\ dev \in DOMAIN mounted \ busy
       /\ mounted' = Drop(mounted, dev)
       /\ nodes' = nodes \ {dev} /\ dirs' = dirs \ {dev}
  /\ ForgetMount(mp)
  /\ UNCHANGED <<nextId, tables, bound, indexes, busy, failed,
                 stuck>>

\* lkl.fs.open and close of a file below a mount point.
Open(dev) ==
  /\ ~stuck /\ dev \in DOMAIN mounted \ busy
  /\ busy' = busy \cup {dev}
  /\ UNCHANGED <<nextId, tables, bound, indexes, nodes, dirs, mounted,
                 mounts, failed, stuck>>

Close(dev) ==
  /\ ~stuck /\ dev \in busy
  /\ busy' = busy \ {dev}
  /\ UNCHANGED <<nextId, tables, bound, indexes, nodes, dirs, mounted,
                 mounts, failed, stuck>>

Next ==
  \/ \E answer \in {"null", "Error", "number"} :
       \/ DiskAddFailed(answer) \/ DiskAddNoDevice(answer)
       \/ DiskAddNoDriver(answer) \/ DiskAdd(answer)
  \/ \E id \in Ids :
       DiskRemoveUnknown(id) \/ DiskRemoveFailed(id) \/ DiskRemove(id)
  \/ \E id \in Ids, part \in Parts :
       MountFailed(id, part) \/ MountNoMnt(id, part) \/ Mount(id, part)
  \/ \E mp \in Devices :
       \/ UmountUnknown(mp) \/ UmountFailed(mp) \/ UmountPartly(mp)
       \/ Umount(mp) \/ Open(mp) \/ Close(mp)

Spec == Init /\ [][Next]_vars

(***************************************************************************)
(* Properties.                                                             *)
(***************************************************************************)
\* Every table has its type, and no table holds what was never added.
TypeOK ==
  /\ nextId \in 0 .. MaxDisks /\ disks \subseteq Ids \cup {ErrId}
  /\ regions \subseteq Ids /\ Cardinality(regions) <= MaxRegions
  /\ DOMAIN irqs \subseteq 1 .. NrIrqs /\ Range(irqs) \subseteq Ids \cup {Lost}
  /\ DOMAIN bound \subseteq Ids /\ Range(bound) \subseteq indexes
  /\ indexes \subseteq Indexes
  /\ nodes \subseteq Devices /\ dirs \subseteq Devices
  /\ DOMAIN mounted \subseteq Devices /\ Range(mounted) \subseteq Ids
  /\ DOMAIN mounts \subseteq Devices /\ busy \subseteq DOMAIN mounted
  /\ failed \in BOOLEAN /\ stuck \in BOOLEAN

\* The mounts lkl.js knows, those the kernel has, and the files of /dev and
\* /mnt are the same, through failed mounts, busy umounts and disks removed
\* while mounted: what is mounted can be named, and what is not can be mounted.
MountsAgree ==
  ~failed =>
    /\ DOMAIN mounts = DOMAIN mounted
    /\ nodes = DOMAIN mounted /\ dirs = DOMAIN mounted

\* A mount point names one disk only: no other disk has the device number of a
\* mount, even of one whose disk was removed.  So umount(mountpoint), which
\* goes by disk id, never detaches another disk's file system.
NoSharedDeviceNumber ==
  /\ \A a, b \in DOMAIN bound : bound[a] = bound[b] => a = b
  /\ \A dev \in DOMAIN mounted, id \in DOMAIN bound :
       bound[id] = dev[1] <=> mounted[dev] = id
  /\ \A mp \in DOMAIN mounts :
       /\ mp \in DOMAIN mounted => mounts[mp].diskId = mounted[mp]
       /\ mounts[mp].diskId \in DOMAIN bound =>
            mp = Device(mounts[mp].diskId, mounts[mp].partition)

\* Adding and removing disks leaks no iomem region and leaves no disk without
\* its interrupt, or with another's: each disk the kernel has holds one of each
\* and can be removed, and no other disk does.  The interrupts lost to a full
\* table of regions (virtio.c:545) or to a failed allocation belong to no disk.
NoRegionLeak ==
  /\ TypeOK
  /\ \A i, j \in DOMAIN irqs : irqs[i] = irqs[j] => i = j \/ irqs[i] = Lost
  /\ ~failed =>
       /\ regions = DOMAIN bound /\ DOMAIN bound = disks \ {ErrId}
       /\ Range(irqs) \ {Lost} = DOMAIN bound
=============================================================================
