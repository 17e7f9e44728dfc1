------------------------ MODULE WriteDriveParameters ------------------------
(***************************************************************************)
(* The parameters that the three ways of WriteDrive() of format.c share.   *)
(* Sizes are small integers: the code's are buffers of 32 MB and sectors   *)
(* of 512 or 4096 bytes.                                                   *)
(***************************************************************************)
EXTENDS Integers

CONSTANTS
    SectorSize,     \* SelectedDrive.SectorSize
    buf_size,       \* The size of a buffer, a multiple of SectorSize
    DiskSize,       \* SelectedDrive.DiskSize, a multiple of SectorSize
    ImageSizes,     \* The values of img_report.image_size that are tried
    Throttle,       \* How many blocks are not read after one was written
    MaxCount,       \* The largest block of the decompressor
    MaxImage,       \* (bound) The largest decompressed image
    Modulus         \* The range of the unsigned integers, 2^64

ASSUME WriteDriveAssumption ==
    /\ SectorSize \in Nat \ {0}
    /\ buf_size \in Nat \ {0} /\ buf_size % SectorSize = 0
    /\ DiskSize \in Nat /\ DiskSize % SectorSize = 0 /\ SectorSize <= DiskSize
    /\ Modulus \in Nat
    /\ ImageSizes \subseteq 1 .. Modulus - 1
    /\ {Throttle, MaxCount, MaxImage} \subseteq Nat

WRITE_RETRIES == 4
SetupErrors == {"open_failed", "not_enough_memory"}
Errors == {"none", "cancelled", "read_fault", "write_fault"} \union SetupErrors

=============================================================================
