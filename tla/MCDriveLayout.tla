--------------------------- MODULE MCDriveLayout ---------------------------
(* An instance of DriveLayout with the sizes of the program, in units of 256 *)
(* bytes: sectors of 512 and 4096 bytes, clusters of 256 bytes (the default  *)
(* of a file system) to 32 MB, drives of 33 MB to 65 GB.                     *)
EXTENDS DriveLayout

Sectors == {2, 16}
Tracks == {32, 63, 255}
Clusters == {1, 2, 16, 128, 256, 131072}
Disks == {33 * MB, 260 * MB + 14, 420 * MB, 1300 * MB + 112, 65 * 1024 * MB - 3344}
Persistences == {128 * MB + 2}

=============================================================================
