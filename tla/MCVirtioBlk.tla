---------------------------- MODULE MCVirtioBlk ----------------------------
(* Instance of VirtioBlk for model checking. *)
EXTENDS VirtioBlk

\* Reads and writes of one sector, so that they depend on each other: the last
\* one, which is the first that an error in the sector number would miss.
LastSector == Ops \X {Capacity - 1}
=============================================================================
