----------------------------- MODULE WriteImage -----------------------------
(***************************************************************************)
(* How WriteDrive() of format.c writes an uncompressed image to a drive:   *)
(* double buffered, each buffer being written synchronously, with retries, *)
(* while the next one is read asynchronously.  The content of byte p of    *)
(* the image is p, so that a drive that holds it has disk[p] = p.          *)
(***************************************************************************)
EXTENDS WriteDriveParameters, FiniteSetsExt

VARIABLES
    pc,             \* "start", "loop", "wait_read", "write" or "done"
    ret,            \* The return value of WriteDrive()
    image_size,     \* img_report.image_size, or the size of the mounted VHD
    vhd,            \* Is the image a VHD or VHDX, that is mounted first?
    wb,             \* How many bytes were written
    i,              \* The number of the current write attempt
    read_bufnum,    \* The buffer being read into
    proc_bufnum,    \* The buffer being written
    read_size,      \* The (rounded) number of bytes in each buffer
    fd,             \* The ASYNC_FD of the image and its current request
    buffer,         \* Which bytes of the image each buffer starts with
    disk,           \* The content of the drive
    pos,            \* The file pointer of the drive
    rewound,        \* Could the drive be rewound?
    torn,           \* (history) Has a read ended early, and not after a sector?
    ErrorStatus     \* (global) The error of the operation, if any

imageVars == <<image_size, vhd, rewound, torn>>
vars == <<pc, ret, imageVars, wb, i, read_bufnum, proc_bufnum, read_size, fd,
          buffer, disk, pos, ErrorStatus>>

-----------------------------------------------------------------------------
NUM_BUFFERS == 2
Buffers == 0 .. NUM_BUFFERS - 1
Old == -1       \* What a byte of the drive was before the operation
Junk == -2      \* A byte of no particular value

\* Subtraction of 64-bit unsigned integers, which wraps around.
Minus(a, b) == (a - b) % Modulus

\* Mistake: the last, partial, sector is not written.
FloorAlign(n) == (n \div SectorSize) * SectorSize

\* CEILING_ALIGN: WriteFile() only takes a multiple of the sector size.
CeilingAlign(n) == ((n + SectorSize - 1) \div SectorSize) * SectorSize

\* How much there is to write; what VhdMountImageAndGetSize() returns is not
\* limited to the size of the drive.
target_size == IF vhd THEN image_size ELSE Min({DiskSize, image_size})

\* ReadFileAsync(): from then on the operating system owns the buffer.
ReadFileAsync(b, offset, size) ==
    /\ fd' = [iStatus |-> "pending", target |-> b, Offset |-> offset,
              size |-> size]
    /\ buffer' = [buffer EXCEPT ![b] = [from |-> Junk, count |-> 0]]

\* The most that the pending request brings.
BytesRead == Min({fd.size, Max({image_size - fd.Offset, 0})})

Init ==
    /\ pc = "start"
    /\ ret = FALSE
    /\ image_size \in ImageSizes
    /\ vhd \in BOOLEAN
    /\ wb = 0
    /\ i = 1
    /\ read_bufnum = 0
    /\ proc_bufnum = 1
    /\ read_size = [b \in Buffers |-> 0]
    /\ fd = [iStatus |-> "closed", target |-> 0, Offset |-> 0, size |-> 0]
    /\ buffer = [b \in Buffers |-> [from |-> Junk, count |-> 0]]
    /\ disk = [p \in 0 .. DiskSize - 1 |-> Old]
    /\ pos \in {0, SectorSize}      \* "We poked the MBR and other stuff"
    /\ rewound = FALSE
    /\ torn = FALSE
    /\ ErrorStatus = "none"

-----------------------------------------------------------------------------
(* The operating system and the user.                                      *)

\* A read may bring less than it is asked for, nothing at all if the image is
\* shorter than it was when it was scanned: GetSizeAsync() takes that as success.
KernelRead ==
    /\ fd.iStatus = "pending"
    /\ fd' = [fd EXCEPT !.iStatus = "complete"]
    /\ \E n \in 0 .. BytesRead :
           /\ buffer' = [buffer EXCEPT ![fd.target] = [from |-> fd.Offset, count |-> n]]
           /\ torn' = (torn \/ (n < BytesRead /\ (n = 0 \/ n % SectorSize # 0)))
    /\ UNCHANGED <<pc, ret, image_size, vhd, rewound, wb, i, read_bufnum,
                   proc_bufnum, read_size, disk, pos, ErrorStatus>>

KernelReadError ==
    /\ fd.iStatus = "pending"
    /\ fd' = [fd EXCEPT !.iStatus = "error"]
    /\ UNCHANGED <<pc, ret, imageVars, wb, i, read_bufnum, proc_bufnum,
                   read_size, buffer, disk, pos, ErrorStatus>>

\* WriteFile() writes the first n bytes of the current buffer at the file
\* pointer; what is past the bytes that were read is a leftover.
Written(n) ==
    [p \in DOMAIN disk |->
        IF p \in pos .. pos + n - 1
        THEN IF p - pos < buffer[proc_bufnum].count
             THEN buffer[proc_bufnum].from + (p - pos)
             ELSE Junk
        ELSE disk[p]]

UserCancel ==
    /\ pc # "done"
    /\ ErrorStatus # "cancelled"
    /\ ErrorStatus' = "cancelled"
    /\ UNCHANGED <<pc, ret, imageVars, wb, i, read_bufnum, proc_bufnum,
                   read_size, fd, buffer, disk, pos>>

-----------------------------------------------------------------------------
(* WriteDrive(), with bZeroDrive FALSE and an uncompressed image.          *)

\* The common exit closes the image.
GotoOut(success) ==
    /\ pc' = "done"
    /\ ret' = success

\* A failure to rewind is only logged: "wrong data might be copied!"
Rewind ==
    /\ pos' \in {0, pos}
    /\ rewound' = (pos' = 0)

\* Rewind the drive, open the image, allocate the buffers and start reading.
Start ==
    /\ pc = "start"
    /\ Rewind
    /\ read_bufnum' = 0
    /\ proc_bufnum' = 1
    /\ read_size' = [b \in Buffers |-> IF b = 1 THEN 1 ELSE 0]
    /\ wb' = 0
    /\ ReadFileAsync(0, 0, Min({buf_size, target_size}))
    /\ pc' = "loop"
    /\ UNCHANGED <<ret, image_size, vhd, torn, i, disk, ErrorStatus>>

\* The image could not be opened, the buffers could not be allocated or, with
\* no error being reported, the VHD could not be mounted.
SetupFailed ==
    /\ pc = "start"
    /\ \/ ErrorStatus' \in SetupErrors
       \/ vhd /\ UNCHANGED ErrorStatus
    /\ Rewind
    /\ GotoOut(FALSE)
    /\ UNCHANGED <<image_size, vhd, torn, wb, i, read_bufnum, proc_bufnum,
                   read_size, fd, buffer, disk>>

\* What GetSizeAsync() says of the read that is complete.
SizeRead == buffer[fd.target].count

\* The loop condition and step 0.
LoopTest ==
    /\ pc = "loop"
    /\ IF read_size[proc_bufnum] = 0 \/ wb >= target_size
       THEN GotoOut(TRUE)
       ELSE pc' = "wait_read" /\ UNCHANGED ret
    /\ UNCHANGED <<imageVars, wb, i, read_bufnum, proc_bufnum, read_size, fd,
                   buffer, disk, pos, ErrorStatus>>

\* Mistake: the next read is launched into the buffer that was just read.
ReadCompleteNoSwitch ==
    /\ pc = "wait_read"
    /\ fd.iStatus = "complete"
    /\ LET size == CeilingAlign(SizeRead)
       IN  /\ read_size' = [read_size EXCEPT ![read_bufnum] = size]
           /\ proc_bufnum' = read_bufnum
           /\ ReadFileAsync(read_bufnum, fd.Offset + SizeRead,
                            Min({buf_size, Minus(target_size, wb + size)}))
    /\ i' = 1
    /\ pc' = "write"
    /\ UNCHANGED <<ret, imageVars, wb, read_bufnum, disk, pos, ErrorStatus>>

\* Mistake: the data that is about to be written is not accounted for.
ReadCompleteTooMuch ==
    /\ pc = "wait_read"
    /\ fd.iStatus = "complete"
    /\ LET size == CeilingAlign(SizeRead)
       IN  /\ read_size' = [read_size EXCEPT ![read_bufnum] = size]
           /\ proc_bufnum' = read_bufnum
           /\ read_bufnum' = (read_bufnum + 1) % NUM_BUFFERS
           /\ ReadFileAsync(read_bufnum', fd.Offset + SizeRead,
                            Min({buf_size, Minus(target_size, wb)}))
    /\ i' = 1
    /\ pc' = "write"
    /\ UNCHANGED <<ret, imageVars, wb, disk, pos, ErrorStatus>>

\* Steps 1 to 3: the current read is complete.  Record its size, rounded up to
\* sectors, and launch the next read before the current data is written.
ReadComplete ==
    /\ pc = "wait_read"
    /\ fd.iStatus = "complete"
    /\ LET size == CeilingAlign(SizeRead)
       IN  /\ read_size' = [read_size EXCEPT ![read_bufnum] = size]
           /\ proc_bufnum' = read_bufnum
           /\ read_bufnum' = (read_bufnum + 1) % NUM_BUFFERS
           /\ ReadFileAsync(read_bufnum', fd.Offset + SizeRead,
                            Min({buf_size, Minus(target_size, wb + size)}))
    /\ i' = 1
    /\ pc' = "write"
    /\ UNCHANGED <<ret, imageVars, wb, disk, pos, ErrorStatus>>

\* Step 1: the read failed, or was not complete within DRIVE_ACCESS_TIMEOUT.
ReadFault ==
    /\ pc = "wait_read"
    /\ fd.iStatus \in {"error", "pending"}
    /\ ErrorStatus' = "read_fault"
    /\ GotoOut(FALSE)
    /\ UNCHANGED <<imageVars, wb, i, read_bufnum, proc_bufnum, read_size, fd,
                   buffer, disk, pos>>

\* Step 4: each attempt to write starts with a check for cancellation.
Cancelled ==
    /\ pc = "write"
    /\ ErrorStatus = "cancelled"
    /\ GotoOut(FALSE)
    /\ UNCHANGED <<imageVars, wb, i, read_bufnum, proc_bufnum, read_size, fd,
                   buffer, disk, pos, ErrorStatus>>

WriteOk ==
    /\ pc = "write"
    /\ ErrorStatus # "cancelled"
    /\ pos + read_size[proc_bufnum] <= DiskSize
    /\ disk' = Written(read_size[proc_bufnum])
    /\ pos' = pos + read_size[proc_bufnum]
    /\ wb' = wb + read_size[proc_bufnum]
    /\ pc' = "loop"
    /\ UNCHANGED <<ret, imageVars, i, read_bufnum, proc_bufnum, read_size, fd,
                   buffer, ErrorStatus>>

\* An attempt fails after having written n bytes.
ShortWrite(n) ==
    /\ pc = "write"
    /\ ErrorStatus # "cancelled"
    /\ n = 0 \/ n < read_size[proc_bufnum]
    /\ pos + n <= DiskSize
    /\ disk' = Written(n)
    /\ UNCHANGED <<imageVars, wb, read_bufnum, proc_bufnum, read_size, fd,
                   buffer>>

\* Mistake: the file pointer is not moved back before a retry.
RetryInPlace(n) ==
    /\ i < WRITE_RETRIES
    /\ ShortWrite(n)
    /\ pos' = pos + n
    /\ i' = i + 1
    /\ UNCHANGED <<pc, ret, ErrorStatus>>

\* A failed attempt is retried at the same place...
WriteRetry(n) ==
    /\ i < WRITE_RETRIES
    /\ ShortWrite(n)
    /\ pos' = wb
    /\ i' = i + 1
    /\ UNCHANGED <<pc, ret, ErrorStatus>>

\* ...unless the file pointer cannot be reset...
SeekFailed(n) ==
    /\ i < WRITE_RETRIES
    /\ ShortWrite(n)
    /\ pos' = pos + n
    /\ GotoOut(FALSE)
    /\ UNCHANGED <<i, ErrorStatus>>

\* Mistake: the number of attempts is not bounded.
RetryForever(n) ==
    /\ i = WRITE_RETRIES
    /\ ShortWrite(n)
    /\ pos' = wb
    /\ UNCHANGED <<pc, ret, i, ErrorStatus>>

\* ...or there were WRITE_RETRIES attempts.
WriteFault(n) ==
    /\ i = WRITE_RETRIES
    /\ ShortWrite(n)
    /\ pos' = pos + n
    /\ ErrorStatus' = "write_fault"
    /\ GotoOut(FALSE)
    /\ UNCHANGED i

Sectors == {n \in 0 .. buf_size : n % SectorSize = 0}

WriteDrive ==
    \/ Start
    \/ SetupFailed
    \/ LoopTest
    \/ ReadComplete
    \/ ReadFault
    \/ Cancelled
    \/ WriteOk
    \/ \E n \in Sectors : WriteRetry(n) \/ SeekFailed(n) \/ WriteFault(n)

Terminated ==
    /\ pc = "done"
    /\ UNCHANGED vars

Next ==
    \/ WriteDrive
    \/ KernelRead
    \/ KernelReadError
    \/ UserCancel
    \/ Terminated

Spec == Init /\ [][Next]_vars /\ WF_vars(WriteDrive)

-----------------------------------------------------------------------------
(* Properties.                                                             *)

TypeOK ==
    /\ pc \in {"start", "loop", "wait_read", "write", "done"}
    /\ ret \in BOOLEAN
    /\ image_size \in ImageSizes
    /\ vhd \in BOOLEAN
    /\ wb \in 0 .. DiskSize
    /\ i \in 1 .. WRITE_RETRIES
    /\ read_bufnum \in Buffers
    /\ proc_bufnum \in Buffers
    /\ read_size \in [Buffers -> 0 .. buf_size]
    /\ fd.iStatus \in {"closed", "pending", "complete", "error"}
    /\ fd.target \in Buffers
    /\ \A p \in DOMAIN disk : disk[p] \in {Old, Junk} \union Nat
    /\ pos \in 0 .. DiskSize
    /\ {rewound, torn} \subseteq BOOLEAN
    /\ ErrorStatus \in Errors

\* The operating system never reads into the buffer that is being written to
\* the drive.
NoReadIntoWrittenBuffer ==
    pc = "write" => ~(fd.iStatus = "pending" /\ fd.target = proc_bufnum)

\* Whatever was short or failed on the way, what WriteDrive() counts as
\* written is on the drive, is the image, and is at its place, unless a read has
\* torn a sector; and what is past the image and the rounding to sectors is left
\* alone in any case.
DriveHoldsWhatWasWritten ==
    rewound =>
    /\ ~torn => \A p \in DOMAIN disk : p < wb /\ p < image_size => disk[p] = p
    /\ \A p \in DOMAIN disk : p >= CeilingAlign(target_size) => disk[p] = Old

\* WriteDrive() only returns TRUE when the drive holds the image, or as much of
\* it as fits; the whole of it for a VHD.
HoldsTheImage ==
    /\ \A p \in DOMAIN disk : p < image_size => disk[p] = p
    /\ vhd => image_size <= DiskSize

\* That is so as long as no read has torn a sector...
SuccessIsComplete == ret /\ rewound /\ ~torn => HoldsTheImage

\* ...and not in general: an image that has become shorter ends the loop like one
\* that is complete, and the rest of a sector that was torn is written one sector
\* too late.
AlwaysComplete == ret /\ rewound => HoldsTheImage

\* "It is VERY IMPORTANT here that we don't attempt to read past the source or
\* target sizes": no request goes beyond them.
NoReadPastTarget ==
    fd.iStatus = "pending" => fd.Offset + fd.size <= target_size

\* For an image of whole sectors, no request goes past the image or the drive,
\* whatever sizes the reads before it have returned.
AlignedNotOverread == image_size % SectorSize = 0 => NoReadPastTarget
=============================================================================
