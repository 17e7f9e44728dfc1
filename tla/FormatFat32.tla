---------------------------- MODULE FormatFat32 ----------------------------
(***************************************************************************)
(* FormatLargeFAT32() of format_fat32.c: the layout of a FAT32 volume, the *)
(* checks on it, and the writes that make the volume.  Sizes are those of  *)
(* the program: the volume and its clusters in units, all else in sectors. *)
(***************************************************************************)
EXTENDS LayoutParameters

VARIABLES
    volume,         \* The volume: offset, Length, SectorSize and ClusterSize
    fat_pc,         \* "closed", "size", "layout", "clear", "write", "done" ...
    FatSize,
    ReservedSectCount,
    cleared,        \* The loop variable: how many sectors were zeroed
    r,              \* The return value
    ErrorStatus     \* (global) The error of the operation, if any

layoutVars == <<FatSize, ReservedSectCount>>
fatVars == <<volume, fat_pc, layoutVars, cleared, r, ErrorStatus>>

NumFATs == 2
FatElementSize == 4
BackupBootSect == 6
BurstSize == 128
MinSectors == 65536
MinClusters == 65536
MaxClusters == 268435455        \* 0x0FFFFFFF

\* Mistake: the clusters of the smallest volumes are the default for all.
SmallClusters(megabytes) == 512

\* The default size of a cluster, in bytes
DefaultClusterSize(megabytes) ==
    IF megabytes < 64 THEN 512 ELSE
    IF megabytes < 128 THEN 1024 ELSE
    IF megabytes < 256 THEN 2048 ELSE
    IF megabytes < 8192 THEN 4096 ELSE          \* 8 GB
    IF megabytes < 16384 THEN 8192 ELSE
    IF megabytes < 32768 THEN 16384 ELSE
    IF megabytes < 2097152 THEN 32768 ELSE      \* 2 TB
    65536

BytesPerSect == volume.SectorSize * Unit
TotalSectors == volume.Length \div volume.SectorSize
ClusterBytes ==
    IF volume.ClusterSize = 0
    THEN DefaultClusterSize(volume.Length \div MB)
    ELSE volume.ClusterSize * Unit
SectorsPerCluster == ClusterBytes \div BytesPerSect

\* "Proper computation of FAT size"; ReservedSecCnt is wRsvdSecCnt, which is not
\* set yet and is 0.
GetFATSizeSectors ==
    LET Numerator == TotalSectors - 0 + 2 * SectorsPerCluster
        Denominator == (SectorsPerCluster * BytesPerSect) \div FatElementSize + NumFATs
    IN  Numerator \div Denominator + 1

AlignSectors == (MB * Unit) \div BytesPerSect

\* Mistake: the system area is rounded down.
RoundedReserved(fat_size) ==
    FloorAlign(32 + NumFATs * fat_size, AlignSectors) - NumFATs * fat_size

\* "Update reserved sector count so that the start of data region is aligned"
AlignedReserved(fat_size) ==
    CeilingAlign(32 + NumFATs * fat_size, AlignSectors) - NumFATs * fat_size

DataStart == ReservedSectCount + NumFATs * FatSize

\* Mistake: the system area is counted as clusters too.
WholeVolume == TotalSectors \div SectorsPerCluster

ClusterCount == (TotalSectors - DataStart) \div SectorsPerCluster
FatNeeded == (ClusterCount * FatElementSize + BytesPerSect - 1) \div BytesPerSect

\* What is zeroed: the reserved sectors, the FATs and the root directory
SystemAreaSize == DataStart + SectorsPerCluster

FatInit ==
    /\ volume = [Offset |-> 0, Length |-> 0, SectorSize |-> 1, ClusterSize |-> 0]
    /\ fat_pc = "closed"
    /\ FatSize = 0
    /\ ReservedSectCount = 32
    /\ cleared = 0
    /\ r = FALSE
    /\ ErrorStatus = "none"

-----------------------------------------------------------------------------
\* die(): report an error and leave.
Die(error) ==
    /\ ErrorStatus' = error
    /\ fat_pc' = "done"
    /\ UNCHANGED r

Continue(label) == fat_pc' = label /\ UNCHANGED <<r, ErrorStatus>>

\* FormatPartition() is called.  The volume is opened, locked and unmounted, and
\* the drive tells its geometry.
Format(v) ==
    /\ fat_pc = "closed"
    /\ volume' = v
    /\ Continue("size") \/ Die("open_failed")
    /\ UNCHANGED <<layoutVars, cleared>>

UserCancel ==
    /\ fat_pc \notin {"closed", "done", "assert"}
    /\ ErrorStatus = "none"
    /\ ErrorStatus' = "cancelled"
    /\ UNCHANGED <<volume, fat_pc, layoutVars, cleared, r>>

\* "Low end limit - 65536 sectors".  The sector count has 32 bits: a volume that
\* does not fit is refused too, and is past the integers of an instance.  An
\* error that was set meanwhile is seen before the size is looked at.
CheckSize ==
    /\ fat_pc = "size"
    /\ \/ /\ ErrorStatus # "none"
          /\ fat_pc' = "done"
          /\ UNCHANGED <<r, ErrorStatus>>
       \/ /\ ErrorStatus = "none" /\ TotalSectors < MinSectors
          /\ Die("too_small")
       \/ /\ ErrorStatus = "none" /\ TotalSectors >= MinSectors
          /\ Continue("layout") \/ Die("not_enough_memory")
    /\ UNCHANGED <<volume, layoutVars, cleared>>

\* Compute the layout; assert(SectorsPerCluster > 0).
ComputeFat ==
    /\ fat_pc = "layout"
    /\ FatSize' = GetFATSizeSectors
    /\ ReservedSectCount' = AlignedReserved(GetFATSizeSectors)
    /\ Continue(IF SectorsPerCluster > 0 THEN "check" ELSE "assert")
    /\ UNCHANGED <<volume, cleared>>

\* The sanity checks, then "Now we're committed"
CheckClusters ==
    /\ fat_pc = "check"
    /\ CASE ClusterCount > MaxClusters -> Die("invalid_cluster_size")
         [] ClusterCount < MinClusters -> Die("invalid_cluster_size")
         [] ClusterCount \in MinClusters .. MaxClusters /\ FatNeeded > FatSize -> Die("invalid_volume_size")
         [] OTHER -> Continue("clear") \/ Die("not_enough_memory")
    /\ UNCHANGED <<volume, layoutVars, cleared>>

\* Mistake: the last burst is only written when it is needed in full.
ClearWholeBursts == cleared + BurstSize <= SystemAreaSize

\* The condition of the loop, which may run once more than is needed
MustClear == cleared < SystemAreaSize + BurstSize - 1

\* A burst of zeros is written, or fails, as it does past the end of the volume.
Clear ==
    /\ fat_pc = "clear"
    /\ MustClear
    /\ \/ /\ ErrorStatus = "cancelled"
          /\ fat_pc' = "done"
          /\ UNCHANGED <<cleared, r, ErrorStatus>>
       \/ /\ ErrorStatus # "cancelled"
          /\ cleared + BurstSize <= TotalSectors
          /\ cleared' = cleared + BurstSize
          /\ Continue("clear")
       \/ /\ ErrorStatus # "cancelled"
          /\ Die("write_fault")
          /\ UNCHANGED cleared
    /\ UNCHANGED <<volume, layoutVars>>

\* The boot sector, the FSInfo, their copies, the FATs, the partition boot record
\* and the label: none of these writes is checked.
Finish ==
    /\ fat_pc = "clear"
    /\ ~MustClear
    /\ fat_pc' = "done"
    /\ r' = TRUE
    /\ UNCHANGED <<volume, layoutVars, cleared, ErrorStatus>>

FormatLargeFAT32 ==
    \/ CheckSize
    \/ ComputeFat
    \/ CheckClusters
    \/ Clear
    \/ Finish

-----------------------------------------------------------------------------
(* Properties.                                                             *)

FatTypeOK ==
    /\ fat_pc \in {"closed", "size", "layout", "check", "clear", "done", "assert"}
    /\ FatSize \in Nat
    /\ ReservedSectCount \in Nat
    /\ cleared \in Nat
    /\ r \in BOOLEAN
    /\ ErrorStatus \in {"none", "cancelled", "open_failed", "too_small", "not_enough_memory",
                        "invalid_cluster_size", "invalid_volume_size", "write_fault"}

Committed == fat_pc = "clear" \/ r

\* Every cluster of a volume that is formatted has its entry in the FAT, after
\* the two reserved ones, and the clusters end within the volume.
EveryClusterHasAnEntry ==
    Committed =>
        /\ (ClusterCount + 2) * FatElementSize <= FatSize * BytesPerSect
        /\ DataStart + ClusterCount * SectorsPerCluster <= TotalSectors

\* The reserved sectors hold the copies of the boot sector, fit in the 16 bits of
\* their field, and put the clusters at a megabyte.
ReservedIsSound ==
    Committed =>
        /\ ReservedSectCount \in BackupBootSect + 3 .. 65535
        /\ (DataStart * volume.SectorSize) % MB = 0

\* No volume makes the assert on the cluster size fail: those whose default
\* clusters are smaller than a sector are too small for FAT32.
ClustersAreNotEmpty == fat_pc # "assert"

\* A volume that is formatted has its reserved sectors, FATs and root directory
\* zeroed, and the bursts that do it end within the volume.
SuccessIsCleared ==
    /\ Committed => CeilingAlign(SystemAreaSize + BurstSize - 1, BurstSize) <= TotalSectors
    /\ r => cleared >= SystemAreaSize
    /\ r => ErrorStatus \in {"none", "cancelled"}

\* The file system that is made, from two estimates that are corrected by each
\* other, is a sound one for every size of volume, sector and cluster.
FatIsSound ==
    EveryClusterHasAnEntry /\ ReservedIsSound /\ ClustersAreNotEmpty /\ SuccessIsCleared
=============================================================================
