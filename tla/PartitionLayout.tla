-------------------------- MODULE PartitionLayout --------------------------
(***************************************************************************)
(* CreatePartition() of drive.c: where the partitions go, and the order in *)
(* which the drive is written.  The ESP and the MSR go first, where they   *)
(* may; the main partition is next; the extra partitions are put at the    *)
(* end of the drive, from the last to the first.  Offsets are aligned to   *)
(* tracks and to clusters, which need not divide each other.               *)
(*                                                                         *)
(* An assert that fails ends the program: the build has -UNDEBUG.          *)
(***************************************************************************)
EXTENDS LayoutParameters, Sequences

CONSTANTS
    esp_size,
    msr_size,
    uefi_ntfs_size,     \* The size of uefi-ntfs.img
    GptSectors,         \* The sectors at the end of a drive that GPT keeps
    MaxIsoToEsp,        \* MAX_ISO_TO_ESP_SIZE
    SectorSizes,
    SectorsPerTracks,
    ClusterSizes,       \* Those that the user can select
    DiskSizes,
    PersistenceSizes

ASSUME LayoutAssumption ==
    /\ {esp_size, msr_size, uefi_ntfs_size, MaxIsoToEsp} \subseteq Nat \ {0}
    /\ esp_size % MB = 0 /\ msr_size % MB = 0         \* 260 * MB and 128 * MB
    /\ GptSectors \in Nat
    /\ SectorSizes \union SectorsPerTracks \union ClusterSizes \subseteq Nat \ {0}
    /\ \A s \in SectorSizes, t \in SectorsPerTracks : s * t <= MB
    /\ \A s \in SectorSizes : s * Unit \in {512, 1024, 2048, 4096}
    /\ \A c \in ClusterSizes : MB % c = 0 \/ c % MB = 0      \* Powers of 2
    /\ \A c \in ClusterSizes : c + MB <= MaxIsoToEsp        \* 1 GB
    /\ DiskSizes \union PersistenceSizes \subseteq Nat

VARIABLES
    d,              \* The drive and the options
    pc,
    layout,         \* SelectedDrive.Partition[]
    result,         \* "true", "false", or "assert"
    written,        \* Has uefi-ntfs.img been written?
    table           \* The partition table of the drive

vars == <<d, pc, layout, result, written, table>>

\* The options that FormatThread() passes: Windows To Go, on GPT, has an ESP and
\* an MSR, and is NTFS, with clusters that 1 MB is a multiple of.  A cluster is a
\* number of sectors, unless it is SINGLE_CLUSTERSIZE_DEFAULT.
Drives ==
    {x \in [SectorSize : SectorSizes, SectorsPerTrack : SectorsPerTracks, ClusterSize : ClusterSizes,
            DiskSize : DiskSizes, style : {"MBR", "GPT", "SFD"}, old_bios : BOOLEAN, front : BOOLEAN,
            esp : BOOLEAN, uefi_ntfs : BOOLEAN, persistence_size : PersistenceSizes \union {0},
            write_as_esp : BOOLEAN] :
        /\ x.esp => x.style = "GPT" /\ MB % x.ClusterSize = 0
        /\ x.esp => ~x.uefi_ntfs /\ x.persistence_size = 0 /\ ~x.write_as_esp
        /\ x.ClusterSize % x.SectorSize = 0 \/ x.ClusterSize * Unit = 256
        /\ x.front => x.esp
        /\ x.write_as_esp => ~x.uefi_ntfs}

Init ==
    /\ d \in Drives
    /\ pc = "layout"
    /\ layout = <<>>
    /\ result = "none"
    /\ written = FALSE
    /\ table = "old"

-----------------------------------------------------------------------------
(* The layout *)

gpt == d.style = "GPT"
bytes_per_track == d.SectorsPerTrack * d.SectorSize
UseClusters == d.ClusterSize % d.SectorSize = 0

\* Mistake: two tracks, which need not be a number of clusters.
TwoTracks ==
    IF gpt \/ ~d.old_bios THEN MB ELSE 2 * bytes_per_track

FirstOffset ==
    IF gpt \/ ~d.old_bios THEN MB ELSE 2 * CeilingAlign(bytes_per_track, d.ClusterSize)

\* Mistake: the offset is only rounded down.
AlignDown(offset) == FloorAlign(offset, bytes_per_track)

\* "Align next partition to track and cluster"
AlignNext(offset) ==
    LET track == CeilingAlign(offset, bytes_per_track)
    IN  IF UseClusters THEN FloorAlign(track, d.ClusterSize) ELSE track

Entry(name, size) == [name |-> name, size |-> size]
If(condition, entries) == IF condition THEN entries ELSE <<>>

\* The partitions before and after the main one: at most two of each
Front ==
    If(d.esp /\ d.front, <<Entry("esp", esp_size)>>) \o If(d.esp, <<Entry("msr", msr_size)>>)

Rear ==
    If(d.persistence_size # 0,
       <<Entry("persistence", CeilingAlign(d.persistence_size, bytes_per_track))>>)
    \o CASE d.esp /\ ~d.front -> <<Entry("esp", CeilingAlign(esp_size, bytes_per_track))>>
         [] d.uefi_ntfs       -> <<Entry("uefi_ntfs", CeilingAlign(uefi_ntfs_size, bytes_per_track))>>
         [] d.old_bios /\ ~d.uefi_ntfs /\ ~(d.esp /\ ~d.front)
                              -> <<Entry("compat", bytes_per_track)>>
         [] OTHER             -> <<>>

\* The offset of the k-th partition of the front; the last is the main one's.
FrontOffset(k) ==
    LET second == AlignNext(FirstOffset + Front[1].size)
    IN  CASE k = 1 -> FirstOffset
          [] k = 2 -> second
          [] k = 3 -> AlignNext(second + Front[2].size)

MainOffset == FrontOffset(Len(Front) + 1)

\* Mistake: the end of the drive is not kept for the GPT.
WholeDrive == d.DiskSize

last_offset == IF gpt THEN d.DiskSize - GptSectors * d.SectorSize ELSE d.DiskSize

\* The offset of the k-th partition from the end
RearOffset(k) ==
    LET end == FloorAlign(last_offset - Rear[Len(Rear)].size, bytes_per_track)
    IN  CASE k = 0 -> last_offset
          [] k = 1 -> end
          [] k = 2 -> FloorAlign(end - Rear[1].size, bytes_per_track)

\* Mistake: the room of the extra partitions is not kept.
AllTheRest == last_offset - MainOffset

main_size ==
    LET size == RearOffset(Len(Rear)) - MainOffset
    IN  IF d.write_as_esp /\ size > MaxIsoToEsp THEN MaxIsoToEsp ELSE size

\* Mistake: the size is not aligned to clusters.
TracksOnly == FloorAlign(main_size, bytes_per_track)

MainSize ==
    LET size == FloorAlign(main_size, bytes_per_track)
    IN  IF UseClusters THEN FloorAlign(size, d.ClusterSize) ELSE size

Partition(name, offset, size) == [name |-> name, Offset |-> offset, Size |-> size]

Layout ==
    [k \in 1 .. Len(Front) + 1 + Len(Rear) |->
        LET j == k - Len(Front) - 1
        IN  CASE j < 0 -> Partition(Front[k].name, FrontOffset(k), Front[k].size)
              [] j = 0 -> Partition("main", MainOffset, MainSize)
              [] j > 0 -> Partition(Rear[j].name, RearOffset(Len(Rear) + 1 - j), Rear[j].size)]

\* The asserts, in their order
AssertsHold ==
    /\ \A k \in 1 .. Len(Front) : FrontOffset(k + 1) >= FrontOffset(k) + Front[k].size
    /\ \A k \in 1 .. Len(Rear) : Rear[Len(Rear) + 1 - k].size < RearOffset(k - 1)
    /\ RearOffset(Len(Rear)) - MainOffset > 0

-----------------------------------------------------------------------------
(* CreatePartition() *)

\* A super floppy has no partition table, and the embedded image may be missing.
ReturnEarly ==
    /\ pc = "layout"
    /\ \/ d.style = "SFD" /\ result' = "true"
       \/ d.style # "SFD" /\ d.uefi_ntfs /\ result' = "false"
    /\ pc' = "done"
    /\ UNCHANGED <<d, layout, written, table>>

ComputeLayout ==
    /\ pc = "layout"
    /\ d.style # "SFD"
    /\ \/ /\ ~AssertsHold
          /\ result' = "assert"
          /\ pc' = "done"
          /\ UNCHANGED layout
       \/ /\ AssertsHold
          /\ layout' = Layout
          /\ IF MainSize > 0
             THEN pc' = "clear" /\ UNCHANGED result
             ELSE pc' = "done" /\ result' = "false"
    /\ UNCHANGED <<d, written, table>>

Fail ==
    /\ pc' = "done"
    /\ result' = "false"

\* ClearPartition() of each partition, whose failures are only logged, and its
\* entry, for which MBR needs a file system that has a type
ClearPartitions ==
    /\ pc = "clear"
    /\ \/ /\ pc' = IF d.uefi_ntfs THEN "uefi_ntfs" ELSE "create_disk"
          /\ UNCHANGED result
       \/ ~gpt /\ Fail
    /\ UNCHANGED <<d, layout, written, table>>

\* "We need to write the UEFI:NTFS partition before we refresh the disk"
WriteUefiNtfs ==
    /\ pc = "uefi_ntfs"
    /\ \/ written' = TRUE /\ pc' = "create_disk" /\ UNCHANGED result
       \/ UNCHANGED written /\ Fail
    /\ UNCHANGED <<d, layout, table>>

\* Mistake: a layout that is not set is only logged.
SetLayoutAnyway ==
    /\ pc = "set_layout"
    /\ table' \in {table, "new"}
    /\ pc' = "done"
    /\ result' = "true"
    /\ UNCHANGED <<d, layout, written>>

\* IOCTL_DISK_CREATE_DISK
CreateDisk ==
    /\ pc = "create_disk"
    /\ \/ table' = "empty" /\ pc' = "set_layout" /\ UNCHANGED result
       \/ UNCHANGED table /\ Fail
    /\ UNCHANGED <<d, layout, written>>

\* IOCTL_DISK_SET_DRIVE_LAYOUT_EX, and RefreshDriveLayout(), which may fail too
SetLayout ==
    /\ pc = "set_layout"
    /\ \/ table' = "new" /\ pc' = "done" /\ result' \in {"true", "false"}
       \/ UNCHANGED table /\ Fail
    /\ UNCHANGED <<d, layout, written>>

Terminated == pc = "done" /\ UNCHANGED vars

CreatePartition ==
    ReturnEarly \/ ComputeLayout \/ ClearPartitions \/ WriteUefiNtfs \/ CreateDisk \/ SetLayout

Next == CreatePartition \/ Terminated

Spec == Init /\ [][Next]_vars

-----------------------------------------------------------------------------
(* Properties *)

TypeOK ==
    /\ d \in Drives
    /\ pc \in {"layout", "clear", "uefi_ntfs", "create_disk", "set_layout", "done"}
    /\ \A k \in 1 .. Len(layout) : layout[k].Offset \in Nat /\ layout[k].Size \in Nat
    /\ result \in {"none", "true", "false", "assert"}
    /\ written \in BOOLEAN
    /\ table \in {"old", "empty", "new"}

End(p) == p.Offset + p.Size
Laid == layout # <<>> /\ layout[Len(Front) + 1].Size > 0

\* The partitions are in order and do not overlap, the first leaves the room of
\* the boot records and the last ends on the drive, before what GPT keeps at its end.
PartitionsAreApart ==
    Laid =>
        /\ layout[1].Offset >= bytes_per_track
        /\ \A k \in 1 .. Len(layout) : layout[k].Size > 0
        /\ \A k \in 1 .. Len(layout) - 1 : End(layout[k]) <= layout[k + 1].Offset
        /\ End(layout[Len(layout)]) <= d.DiskSize - (IF gpt THEN GptSectors * d.SectorSize ELSE 0)

\* The main partition is a number of clusters, and begins at one, where the
\* cluster is a number of sectors and the first offset allows it ("VHDs require
\* each cluster block to be aligned"), and the extra ones begin at a track.
LayoutIsAligned ==
    Laid =>
        /\ UseClusters => layout[Len(Front) + 1].Size % d.ClusterSize = 0
        /\ UseClusters /\ (MB % d.ClusterSize = 0 \/ (~gpt /\ d.old_bios))
               => layout[Len(Front) + 1].Offset % d.ClusterSize = 0
        /\ \A k \in Len(Front) + 2 .. Len(layout) : layout[k].Offset % bytes_per_track = 0

\* Whatever the geometry, the layout that is written is without overlap and
\* aligned, though tracks and clusters need not divide each other.
LayoutIsSound == PartitionsAreApart /\ LayoutIsAligned

\* How much of the drive is needed at most, with all the alignments
Needed ==
    FirstOffset + esp_size + msr_size + uefi_ntfs_size + d.persistence_size + d.ClusterSize
        + 7 * bytes_per_track + GptSectors * d.SectorSize

\* On a drive that has room for the partitions no assert ends the program, and
\* there is a main partition.
RoomIsEnough ==
    d.DiskSize >= Needed => result # "assert" /\ (layout # <<>> => Laid)
=============================================================================
