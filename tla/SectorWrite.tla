---------------------------- MODULE SectorWrite ----------------------------
(***************************************************************************)
(* The write callback of WriteDrive() of format.c for compressed images.   *)
(* The decompressor hands over blocks of any size, but the drive only      *)
(* takes whole sectors: sector_write() keeps the bytes of a partial sector *)
(* in sec_buf until the next call.  The decompressed image is the bytes    *)
(* 1 .. n in order, for whatever n the decompressor stops at.              *)
(***************************************************************************)
EXTENDS WriteDriveParameters, Sequences, FiniteSetsExt, SequencesExt

VARIABLES
    pc,         \* "start", "uncompress" or "done"
    ret,        \* The return value of WriteDrive()
    given,      \* How many bytes the decompressor has handed over
    sec_buf,    \* The bytes of the partial sector, sec_buf_pos of them
    disk,       \* The bytes written, from where the file pointer was
    ErrorStatus \* (global) The error of the operation, if any

vars == <<pc, ret, given, sec_buf, disk, ErrorStatus>>

sec_size == SectorSize
Padding == 0    \* A byte of the last sector that is past the image

Bytes(from, to) == [k \in 1 .. to - from |-> from + k]

Init ==
    /\ pc = "start"
    /\ ret = FALSE
    /\ given = 0
    /\ sec_buf = <<>>
    /\ disk = <<>>
    /\ ErrorStatus = "none"

UserCancel ==
    /\ pc # "done"
    /\ ErrorStatus # "cancelled"
    /\ ErrorStatus' = "cancelled"
    /\ UNCHANGED <<pc, ret, given, sec_buf, disk>>

\* Open the image and allocate the buffer of the partial sector.
Start ==
    /\ pc = "start"
    /\ \/ pc' = "uncompress" /\ UNCHANGED ErrorStatus
       \/ pc' = "done" /\ ErrorStatus' \in SetupErrors
    /\ UNCHANGED <<ret, given, sec_buf, disk>>

\* _write() writes whole sectors: all of those it is given, or fewer.
Outcomes(before, data) ==
    {m \in 0 .. Len(data) : m % sec_size = 0 /\ Len(before) + m <= DiskSize}

\* Mistake: the result of the decompressor is not looked at.
FailSilently ==
    /\ pc' = "done"
    /\ ret' = TRUE
    /\ UNCHANGED ErrorStatus

\* The decompressor gives up, and WriteDrive() only fails if that is not because
\* of a cancellation.
Fail ==
    /\ pc' = "done"
    /\ ret' = (ErrorStatus = "cancelled")
    /\ ErrorStatus' = IF ErrorStatus = "cancelled" THEN ErrorStatus ELSE "write_fault"

Continue == UNCHANGED <<pc, ret, ErrorStatus>>

\* "If we are on a sector boundary and count is multiple of the sector size,
\* just issue a regular write"
RegularWrite(count) ==
    /\ sec_buf = <<>>
    /\ count % sec_size = 0
    /\ LET data == Bytes(given, given + count)
       IN  \E written \in Outcomes(disk, data) :
               /\ disk' = disk \o SubSeq(data, 1, written)
               /\ IF written = count THEN Continue ELSE Fail
    /\ UNCHANGED sec_buf

\* "Now write as many full sectors as we can" and keep the leftover bytes.
WriteSectors(written_before, data) ==
    LET full == (Len(data) \div sec_size) * sec_size
    IN  \E written \in Outcomes(written_before, SubSeq(data, 1, full)) :
            /\ disk' = written_before \o SubSeq(data, 1, written)
            /\ IF written = full
               THEN /\ sec_buf' = SubSeq(data, full + 1, Len(data))
                    /\ Continue
               ELSE /\ sec_buf' = <<>>
                    /\ Fail

UnalignedWrite(count) ==
    /\ sec_buf = <<>>
    /\ count % sec_size # 0
    /\ WriteSectors(disk, Bytes(given, given + count))

\* "If we have an existing partial sector, fill and write it"
FillSize(count) == Min({sec_size - Len(sec_buf), count})

\* Mistake: the bytes that went into the partial sector are written again.
FillAndRewrite(count) ==
    /\ sec_buf # <<>>
    /\ LET filled == sec_buf \o Bytes(given, given + FillSize(count))
       IN  \/ /\ Len(filled) < sec_size
              /\ sec_buf' = filled
              /\ Continue /\ UNCHANGED disk
           \/ /\ Len(filled) = sec_size
              /\ WriteSectors(disk \o filled, Bytes(given, given + count))

FillAndWrite(count) ==
    /\ sec_buf # <<>>
    /\ LET filled == sec_buf \o Bytes(given, given + FillSize(count))
       IN  \/ /\ Len(filled) < sec_size
              /\ sec_buf' = filled
              /\ Continue /\ UNCHANGED disk
           \/ /\ Len(filled) = sec_size
              /\ sec_buf' = <<>>
              /\ Fail
              /\ UNCHANGED disk
           \/ /\ Len(filled) = sec_size
              /\ Len(disk) + sec_size <= DiskSize
              /\ WriteSectors(disk \o filled,
                              Bytes(given + FillSize(count), given + count))

\* The decompressor hands over its next block.
sector_write(count) ==
    /\ pc = "uncompress"
    /\ given + count <= MaxImage
    /\ given' = given + count
    /\ \/ RegularWrite(count)
       \/ UnalignedWrite(count)
       \/ FillAndWrite(count)

\* The decompressor is done; WriteDrive() writes what is left of the image and
\* does not "bother checking the write operation".
Flush ==
    /\ pc = "uncompress"
    /\ pc' = "done"
    /\ ret' = TRUE
    /\ \/ sec_buf = <<>> /\ UNCHANGED disk
       \/ /\ sec_buf # <<>>
          /\ disk' \in {disk,
                        disk \o sec_buf
                             \o [k \in 1 .. sec_size - Len(sec_buf) |-> Padding]}
    /\ Len(disk') <= DiskSize
    /\ UNCHANGED <<given, sec_buf, ErrorStatus>>

\* The image is damaged or cannot be read, or the decompressor has seen that the
\* user has cancelled.
Abort ==
    /\ pc = "uncompress"
    /\ Fail
    /\ UNCHANGED <<given, sec_buf, disk>>

WriteDrive ==
    \/ Start
    \/ \E count \in 0 .. MaxCount : sector_write(count)
    \/ Flush
    \/ Abort

Terminated ==
    /\ pc = "done"
    /\ UNCHANGED vars

Next ==
    \/ WriteDrive
    \/ UserCancel
    \/ Terminated

Spec == Init /\ [][Next]_vars /\ WF_vars(WriteDrive)

-----------------------------------------------------------------------------
(* Properties.                                                             *)

TypeOK ==
    /\ pc \in {"start", "uncompress", "done"}
    /\ ret \in BOOLEAN
    /\ ErrorStatus \in Errors
    /\ given \in 0 .. MaxImage
    /\ sec_buf \in Seq(1 .. MaxImage)
    /\ Len(sec_buf) < sec_size
    /\ disk \in Seq(0 .. MaxImage)

\* Between two calls the drive holds whole sectors, and with the partial sector
\* that is kept they are exactly what the decompressor has handed over,
\* whatever the sizes of its blocks.
NothingLostOrRepeated ==
    pc = "uncompress" => /\ disk \o sec_buf = Bytes(0, given)
                         /\ Len(disk) % sec_size = 0

\* Whatever fails, what is on the drive is a prefix of the image, but for the
\* padding of its last sector.  When WriteDrive() returns TRUE and the user has
\* not cancelled, that partial sector is all that can be missing.
DriveHoldsPrefix ==
    LET image == Bytes(0, given)
    IN  \/ /\ IsPrefix(disk, image)
           /\ ret /\ ErrorStatus # "cancelled" => given - Len(disk) < sec_size
        \/ /\ pc = "done"
           /\ IsPrefix(image, disk)
           /\ Len(disk) - given < sec_size
=============================================================================
