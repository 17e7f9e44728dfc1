----------------------------- MODULE ZeroDrive -----------------------------
(***************************************************************************)
(* How WriteDrive() of format.c zeroes a drive.  With fast zeroing, a block *)
(* is first read and skipped when it is already blank, and the reads are   *)
(* throttled: after a block that had to be written, the next ones are      *)
(* written without being read.  Reading and writing share the file pointer *)
(* of the drive.  Sizes are in sectors; a sector is all zeros, erased (all *)
(* ones) or holds data.                                                    *)
(***************************************************************************)
EXTENDS WriteDriveParameters, FiniteSetsExt

VARIABLES
    pc,             \* "start", "loop", "write" or "done"
    ret,            \* The return value of WriteDrive()
    fast_zeroing,   \* (global) Cheat mode: skip the blocks that are blank
    wb,             \* How many sectors were processed
    i,              \* The number of the current write attempt
    read_size,      \* The size of the current block
    throttle_fast_zeroing,
    disk,           \* The content of the drive
    pos,            \* The file pointer of the drive
    rewound,        \* Could the drive be rewound?
    ErrorStatus     \* (global) The error of the operation, if any

optVars == <<fast_zeroing, rewound>>
vars == <<pc, ret, optVars, wb, i, read_size, throttle_fast_zeroing, disk,
          pos, ErrorStatus>>

DiskSectors == DiskSize \div SectorSize
BlockSectors == buf_size \div SectorSize
Contents == {"zeros", "erased", "data"}

\* What the buffer is filled with: an erased block is faster to write.
Fill == IF fast_zeroing THEN "erased" ELSE "zeros"

Block(n) == pos .. pos + n - 1

\* Mistake: only the first element of the block is looked at.
FirstIsBlank(n) ==
    /\ n > 0
    /\ disk[pos] \in {"zeros", "erased"}

\* All the bits of the block that was read are the same.
IsBlank(n) ==
    \E c \in {"zeros", "erased"} : \A p \in Block(n) : disk[p] = c

Init ==
    /\ pc = "start"
    /\ ret = FALSE
    /\ fast_zeroing \in BOOLEAN
    /\ wb = 0
    /\ i = 1
    /\ read_size = 0
    /\ throttle_fast_zeroing = 0
    /\ disk \in [0 .. DiskSectors - 1 -> Contents]
    /\ pos \in 0 .. Min({1, DiskSectors})
    /\ rewound = FALSE
    /\ ErrorStatus = "none"

GotoOut(success) ==
    /\ pc' = "done"
    /\ ret' = success

UserCancel ==
    /\ pc # "done"
    /\ ErrorStatus # "cancelled"
    /\ ErrorStatus' = "cancelled"
    /\ UNCHANGED <<pc, ret, optVars, wb, i, read_size,
                   throttle_fast_zeroing, disk, pos>>

\* Rewind the drive and allocate the buffers.
Start ==
    /\ pc = "start"
    /\ pos' \in {0, pos}            \* A failure to rewind is only logged
    /\ rewound' = (pos' = 0)
    /\ \/ /\ read_size' = BlockSectors
          /\ pc' = "loop"
          /\ UNCHANGED <<ret, ErrorStatus>>
       \/ /\ ErrorStatus' = "not_enough_memory"
          /\ GotoOut(FALSE)
          /\ UNCHANGED read_size
    /\ UNCHANGED <<fast_zeroing, wb, i, throttle_fast_zeroing, disk>>

\* The loop condition.
Finish ==
    /\ pc = "loop"
    /\ wb >= DiskSectors
    /\ GotoOut(TRUE)
    /\ UNCHANGED <<optVars, wb, i, read_size, throttle_fast_zeroing, disk,
                   pos, ErrorStatus>>

\* "Don't overflow our projected size"
BlockSize == Min({read_size, DiskSectors - wb})

\* A block that is written without having been looked at.
WriteUnread ==
    /\ pc = "loop"
    /\ wb < DiskSectors
    /\ throttle_fast_zeroing > 0 \/ ~fast_zeroing
    /\ throttle_fast_zeroing' = Max({throttle_fast_zeroing - 1, 0})
    /\ read_size' = BlockSize
    /\ i' = 1
    /\ pc' = "write"
    /\ UNCHANGED <<ret, optVars, wb, disk, pos, ErrorStatus>>

MustRead ==
    /\ pc = "loop"
    /\ wb < DiskSectors
    /\ throttle_fast_zeroing = 0
    /\ fast_zeroing

\* The block is read, which moves the file pointer.
Readable == pos + BlockSize <= DiskSectors

CancelRead ==
    /\ MustRead
    /\ ErrorStatus = "cancelled"
    /\ read_size' = BlockSize
    /\ GotoOut(FALSE)
    /\ UNCHANGED <<optVars, wb, i, throttle_fast_zeroing, disk, pos,
                   ErrorStatus>>

\* A blank block is skipped: the read has moved the file pointer past it.
SkipBlank ==
    /\ MustRead
    /\ ErrorStatus # "cancelled"
    /\ Readable /\ IsBlank(BlockSize)
    /\ read_size' = BlockSize
    /\ pos' = pos + BlockSize
    /\ wb' = wb + BlockSize
    /\ UNCHANGED <<pc, ret, optVars, i, throttle_fast_zeroing, disk,
                   ErrorStatus>>

\* Mistake: the file pointer is left where reading the block has moved it.
NoSeekBack ==
    /\ MustRead
    /\ ErrorStatus # "cancelled"
    /\ Readable /\ ~IsBlank(BlockSize)
    /\ read_size' = BlockSize
    /\ throttle_fast_zeroing' = Throttle
    /\ i' = 1
    /\ pos' = pos + BlockSize
    /\ pc' = "write"
    /\ UNCHANGED <<ret, optVars, wb, disk, ErrorStatus>>

\* Any other block is written: move the file pointer back.
WriteRead ==
    /\ MustRead
    /\ ErrorStatus # "cancelled"
    /\ Readable /\ ~IsBlank(BlockSize)
    /\ read_size' = BlockSize
    /\ throttle_fast_zeroing' = Throttle
    /\ i' = 1
    /\ pos' = wb
    /\ pc' = "write"
    /\ UNCHANGED <<ret, optVars, wb, disk, ErrorStatus>>

\* The block could not be read, or the file pointer could not be moved back.
ReadFailed ==
    /\ MustRead
    /\ ErrorStatus # "cancelled"
    /\ read_size' = BlockSize
    /\ pos' \in {pos, Min({pos + BlockSize, DiskSectors})}
    /\ GotoOut(FALSE)
    /\ UNCHANGED <<optVars, wb, i, throttle_fast_zeroing, disk,
                   ErrorStatus>>

Written(n) == [p \in DOMAIN disk |-> IF p \in Block(n) THEN Fill ELSE disk[p]]

CancelWrite ==
    /\ pc = "write"
    /\ ErrorStatus = "cancelled"
    /\ GotoOut(FALSE)
    /\ UNCHANGED <<optVars, wb, i, read_size, throttle_fast_zeroing, disk,
                   pos, ErrorStatus>>

WriteOk ==
    /\ pc = "write"
    /\ ErrorStatus # "cancelled"
    /\ pos + read_size <= DiskSectors
    /\ disk' = Written(read_size)
    /\ pos' = pos + read_size
    /\ wb' = wb + read_size
    /\ pc' = "loop"
    /\ UNCHANGED <<ret, optVars, i, read_size, throttle_fast_zeroing,
                   ErrorStatus>>

\* An attempt fails after having written n sectors.  It is retried at the same
\* place, unless the file pointer cannot be reset or this was the last one.
WriteFails(n) ==
    /\ pc = "write"
    /\ ErrorStatus # "cancelled"
    /\ n < read_size
    /\ pos + n <= DiskSectors
    /\ disk' = Written(n)
    /\ \/ /\ i < WRITE_RETRIES
          /\ pos' = wb
          /\ i' = i + 1
          /\ UNCHANGED <<pc, ret, ErrorStatus>>
       \/ /\ i < WRITE_RETRIES
          /\ pos' = pos + n
          /\ GotoOut(FALSE)
          /\ UNCHANGED <<i, ErrorStatus>>
       \/ /\ i = WRITE_RETRIES
          /\ pos' = pos + n
          /\ ErrorStatus' = "write_fault"
          /\ GotoOut(FALSE)
          /\ UNCHANGED i
    /\ UNCHANGED <<optVars, wb, read_size, throttle_fast_zeroing>>

WriteDrive ==
    \/ Start
    \/ Finish
    \/ WriteUnread
    \/ CancelRead
    \/ SkipBlank
    \/ WriteRead
    \/ ReadFailed
    \/ CancelWrite
    \/ WriteOk
    \/ \E n \in 0 .. BlockSectors - 1 : WriteFails(n)

Terminated ==
    /\ pc = "done"
    /\ UNCHANGED vars

Next ==
    \/ WriteDrive
    \/ UserCancel
    \/ Terminated

Spec == Init /\ [][Next]_vars /\ WF_vars(WriteDrive)

-----------------------------------------------------------------------------
(* Properties.                                                             *)

TypeOK ==
    /\ pc \in {"start", "loop", "write", "done"}
    /\ ret \in BOOLEAN
    /\ fast_zeroing \in BOOLEAN
    /\ rewound \in BOOLEAN
    /\ wb \in 0 .. DiskSectors
    /\ i \in 1 .. WRITE_RETRIES
    /\ read_size \in 0 .. BlockSectors
    /\ throttle_fast_zeroing \in 0 .. Throttle
    /\ disk \in [0 .. DiskSectors - 1 -> Contents]
    /\ pos \in 0 .. DiskSectors
    /\ ErrorStatus \in Errors

\* The block that is written is the one that was looked at: comparing, skipping,
\* short writes and retries leave the file pointer of the drive, which they all
\* share, at the number of bytes that the loop has processed.
PointerFollowsProgress == rewound /\ pc \in {"loop", "write"} => pos = wb

\* When zeroing succeeds no data is left on the drive: every sector is zeroed,
\* or with fast zeroing blank in one of the two ways that a block is declared
\* empty.
SuccessIsZeroed ==
    ret /\ rewound =>
           \A p \in DOMAIN disk :
               disk[p] \in {"zeros"} \union IF fast_zeroing THEN {"erased"} ELSE {}
=============================================================================
