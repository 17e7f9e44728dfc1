---------------------------- MODULE DriveLayout ----------------------------
(***************************************************************************)
(* CreatePartition() of drive.c, and FormatLargeFAT32() of format_fat32.c  *)
(* on the main partition that it has made, as FormatThread() calls them.   *)
(***************************************************************************)
EXTENDS PartitionLayout, FormatFat32

allVars == <<vars, fatVars>>

DriveInit == Init /\ FatInit

main == layout[Len(Front) + 1]

\* "0 = default cluster size", which is also what an ISO in an ESP gets
FormatClusterSize ==
    IF d.ClusterSize * Unit < 512 \/ d.write_as_esp THEN 0 ELSE d.ClusterSize

\* FAT32 is offered for drives of 32 MB and more, with clusters of 512 bytes to
\* 64 KB, or 16 to 64 KB from 32 GB on; Windows To Go is never FAT32.
FormatMain ==
    /\ result = "true"
    /\ d.style # "SFD"
    /\ d.DiskSize >= 32 * MB /\ ~d.esp
    /\ d.ClusterSize * Unit >= (IF d.DiskSize >= 32 * 1024 * MB THEN 16384 ELSE 512)
    /\ d.ClusterSize * Unit <= 65536
    /\ Format([Offset |-> main.Offset, Length |-> main.Size, SectorSize |-> d.SectorSize,
               ClusterSize |-> FormatClusterSize])

DriveNext ==
    \/ CreatePartition /\ UNCHANGED fatVars
    \/ (FormatMain \/ FormatLargeFAT32 \/ UserCancel) /\ UNCHANGED vars
    \/ pc = "done" /\ fat_pc \in {"closed", "done", "assert"} /\ UNCHANGED allVars

DriveSpec == DriveInit /\ [][DriveNext]_allVars

-----------------------------------------------------------------------------
(* Properties.                                                             *)

DriveTypeOK == TypeOK /\ FatTypeOK

\* With the partition where CreatePartition() has put it and the reserved
\* sectors that FormatLargeFAT32() has added, the clusters that the user has
\* chosen begin at a multiple of their size on the drive, as VHDs require.
ClustersAreAligned ==
    Committed /\ volume.ClusterSize # 0 =>
        (volume.Offset + DataStart * volume.SectorSize) % volume.ClusterSize = 0

\* FAT32 is made in the main partition, and keeps clear of the extra ones.
FatIsInMain ==
    Committed =>
        /\ volume.Offset + TotalSectors * volume.SectorSize <= End(main)
        /\ \A k \in Len(Front) + 2 .. Len(layout) :
               volume.Offset + (DataStart + ClusterCount * SectorsPerCluster) * volume.SectorSize
                   <= layout[k].Offset

\* By then the drive has the new partition table, and the boot loader of
\* UEFI:NTFS, which was written before there was a partition for it, is in it.
UefiNtfsIsInPlace ==
    Committed =>
        /\ table = "new"
        /\ d.uefi_ntfs => /\ written
                          /\ layout[Len(layout)].name = "uefi_ntfs"
                          /\ layout[Len(layout)].Size >= uefi_ntfs_size

\* What FormatLargeFAT32() makes fits what CreatePartition() has made for it.
FatFitsTheDrive == ClustersAreAligned /\ FatIsInMain /\ UefiNtfsIsInPlace
=============================================================================
