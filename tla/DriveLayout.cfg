SPECIFICATION DriveSpec
CONSTANTS
    Unit = 256
    MB = 4096
    esp_size = 1064960
    msr_size = 524288
    uefi_ntfs_size = 4096
    GptSectors = 33
    MaxIsoToEsp = 4194304
    SectorSizes <- Sectors
    SectorsPerTracks <- Tracks
    ClusterSizes <- Clusters
    DiskSizes <- Disks
    PersistenceSizes <- Persistences
INVARIANTS LayoutIsSound RoomIsEnough FatIsSound FatFitsTheDrive
