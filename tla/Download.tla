------------------------------ MODULE Download ------------------------------
(***************************************************************************)
(* DownloadToFileOrBufferEx() and DownloadSignedFile() of net.c, and the   *)
(* use that is made of what they leave on the disk.                        *)
(*                                                                         *)
(* A file is downloaded in one of three roles.  "image": an image that the *)
(* user saves, maybe over an earlier one (DownloadISOThread).  "library":  *)
(* a file that is downloaded if it does not exist yet (diskcopy.dll,       *)
(* oscdimg.exe).  "signed": a file that is downloaded to memory, with its  *)
(* signature, and then saved (DownloadSignedFile), if it or one that goes  *)
(* with it does not exist yet (ldlinux.sys and ldlinux.bss).               *)
(***************************************************************************)
EXTENDS Naturals

CONSTANTS
    MaxLength,      \* (bound) The largest Content-Length of the server
    MaxBuffered,    \* The largest download to memory, 64 MB
    MaxCalls        \* (bound) The number of downloads

ASSUME DownloadAssumption ==
    /\ MaxLength \in Nat
    /\ MaxBuffered \in Nat
    /\ MaxCalls \in Nat

VARIABLES
    role,           \* What the file is for
    file,           \* What is on the disk under its name
    bak,            \* What is there under its name with ".bak"
    pc,             \* Where the download is
    part,           \* "data", or "sig" for the signature
    ErrorStatus,    \* (global)
    DownloadStatus, \* (global) The HTTP status, then that of the download
    total_size,     \* The Content-Length of the server
    size,           \* How much of it was downloaded
    file_created,
    backup_moved,
    leftover,       \* (history) Could a file not be deleted or moved back after out?
    buf_len,        \* The size of the data that is in memory, 0: none
    before,         \* (history) file and bak at the call
    result,         \* (history) How the last call has ended
    missed,         \* (history) Has the user cancelled while data was missing?
    used,           \* (history) What was last used of the disk
    calls,          \* (history) The number of calls
    initial         \* (history) The file that was there first

disk == <<file, bak>>
local == <<total_size, size, file_created, backup_moved, leftover>>
history == <<before, result, missed, used, calls, initial>>
vars == <<role, disk, pc, part, ErrorStatus, DownloadStatus, local, buf_len, history>>

None == [kind |-> "none", bytes |-> 0, length |-> 0]
Old == [kind |-> "old", bytes |-> 1, length |-> 1]
New(n, length) == [kind |-> "new", bytes |-> n, length |-> length]

Contents ==
    {None, Old} \union {New(n, length) : n \in 0 .. MaxLength, length \in 0 .. MaxLength}

Whole(c) == c # None /\ c.bytes = c.length

Init ==
    /\ role \in {"image", "library", "signed"}
    /\ file \in {None, Old}
    /\ bak = None
    /\ pc = "idle"
    /\ part = "data"
    /\ ErrorStatus = "none"
    /\ DownloadStatus = 404
    /\ total_size = 0
    /\ size = 0
    /\ file_created = FALSE
    /\ backup_moved = FALSE
    /\ leftover = FALSE
    /\ buf_len = 0
    /\ before = <<file, bak>>
    /\ result = "none"
    /\ missed = FALSE
    /\ used = None
    /\ calls = 0
    /\ initial = file

ToFile == role # "signed"

-----------------------------------------------------------------------------
(* The callers *)

\* "If a file already exists in the current directory, use that one"
Reuse ==
    /\ pc = "idle"
    /\ role # "image"
    /\ file # None
    /\ used' = file
    /\ UNCHANGED <<role, disk, pc, part, ErrorStatus, DownloadStatus, local, buf_len,
                   before, result, missed, calls, initial>>

\* What DownloadToFileOrBufferEx() begins with
Begin ==
    /\ pc' = "request"
    /\ ErrorStatus' = "none"
    /\ DownloadStatus' = 404
    /\ total_size' = 0
    /\ size' = 0
    /\ file_created' = FALSE
    /\ backup_moved' = FALSE
    /\ leftover' = FALSE

Call ==
    /\ pc = "idle"
    /\ role = "library" => file = None
    /\ calls < MaxCalls
    /\ calls' = calls + 1
    /\ Begin
    /\ part' = "data"
    /\ buf_len' = 0
    /\ before' = <<file, bak>>
    /\ result' = "none"
    /\ missed' = FALSE
    /\ UNCHANGED <<role, disk, used, initial>>

\* IDCANCEL, or the Cancel button of the progress dialog
UserCancel ==
    /\ pc # "idle"
    /\ ErrorStatus' = "cancelled"
    /\ missed' = (missed \/ (pc = "loop" /\ size < total_size))
    /\ UNCHANGED <<role, disk, pc, part, DownloadStatus, local, buf_len, before, result,
                   used, calls, initial>>

\* The application or the system goes down: what is on the disk stays.
Crash ==
    /\ pc # "idle"
    /\ pc' = "idle"
    /\ result' = "crash"
    /\ part' = "data"
    /\ ErrorStatus' = "none"
    /\ DownloadStatus' = 404
    /\ total_size' = 0
    /\ size' = 0
    /\ file_created' = FALSE
    /\ backup_moved' = FALSE
    /\ leftover' = FALSE
    /\ buf_len' = 0
    /\ UNCHANGED <<role, disk, before, missed, used, calls, initial>>

-----------------------------------------------------------------------------
(* DownloadToFileOrBufferEx() *)

\* goto out, without r
Goto(label) ==
    /\ pc' = label
    /\ UNCHANGED <<role, part, buf_len, history>>

\* No session, connection, request or answer, or another status than 200
RequestFails ==
    /\ pc = "request"
    /\ DownloadStatus' \in {404, 503}
    /\ Goto("failed")
    /\ UNCHANGED <<disk, ErrorStatus, local>>

DownloadLengthValid(length, buffered) ==
    length # 0 /\ (buffered => length <= MaxBuffered)

\* A Content-Length that cannot be parsed is rejected like one of 0.
Response ==
    /\ pc = "request"
    /\ DownloadStatus' = 200
    /\ \E length \in 0 .. MaxLength :
           \/ /\ ~DownloadLengthValid(length, ~ToFile)
              /\ Goto("failed")
              /\ UNCHANGED total_size
           \/ /\ DownloadLengthValid(length, ~ToFile)
              /\ total_size' = length
              /\ Goto(IF ToFile THEN "backup" ELSE "loop")
    /\ UNCHANGED <<disk, ErrorStatus, size, file_created, backup_moved, leftover>>

\* No memory for the buffer, or for the name of the backup
AllocFails ==
    /\ \/ pc = "request" /\ ~ToFile /\ DownloadStatus' = 200
       \/ pc = "backup" /\ file # None /\ UNCHANGED DownloadStatus
    /\ Goto("failed")
    /\ UNCHANGED <<disk, ErrorStatus, local>>

\* Mistake: the earlier file is overwritten.
NoBackup ==
    /\ pc = "backup"
    /\ Goto("create")
    /\ UNCHANGED <<disk, ErrorStatus, DownloadStatus, local>>

\* MoveFileU() does not replace a backup that exists, and may fail.
Backup ==
    /\ pc = "backup"
    /\ \/ /\ file = None
          /\ Goto("create")
          /\ UNCHANGED <<disk, backup_moved>>
       \/ /\ file # None
          /\ bak = None
          /\ bak' = file
          /\ file' = None
          /\ backup_moved' = TRUE
          /\ Goto("create")
       \/ /\ file # None
          /\ Goto("failed")
          /\ UNCHANGED <<disk, backup_moved>>
    /\ UNCHANGED <<ErrorStatus, DownloadStatus, total_size, size, file_created, leftover>>

CreateFile ==
    /\ pc = "create"
    /\ \/ /\ file' = New(0, total_size)
          /\ file_created' = TRUE
          /\ Goto("loop")
       \/ /\ UNCHANGED <<file, file_created>>
          /\ Goto("failed")
    /\ UNCHANGED <<bak, ErrorStatus, DownloadStatus, total_size, size, backup_moved, leftover>>

\* Mistake: ErrorStatus is not tested.
NeverCancelled == FALSE

\* "User may have cancelled the download"
Cancelled == ErrorStatus # "none"

CancelSeen ==
    /\ pc = "loop"
    /\ Cancelled
    /\ Goto("failed")
    /\ UNCHANGED <<disk, ErrorStatus, DownloadStatus, local>>

ReadFails ==
    /\ pc = "loop"
    /\ ~Cancelled
    /\ Goto("failed")
    /\ UNCHANGED <<disk, ErrorStatus, DownloadStatus, local>>

\* Mistake: the end of the data is taken for the end of the file.
AnyEndIsSuccess ==
    /\ pc = "loop"
    /\ ~Cancelled
    /\ DownloadStatus' = 200
    /\ Goto("succeeded")
    /\ UNCHANGED <<disk, ErrorStatus, local>>

\* There is nothing left to read.
ReadEnd ==
    /\ pc = "loop"
    /\ ~Cancelled
    /\ IF size = total_size
       THEN /\ DownloadStatus' = 200
            /\ Goto("succeeded")
            /\ UNCHANGED ErrorStatus
       ELSE /\ ErrorStatus' = "write_fault"
            /\ Goto("failed")
            /\ UNCHANGED DownloadStatus
    /\ UNCHANGED <<disk, local>>

\* Mistake: what was downloaded is not counted.
ChunkFits(length, used_size, chunk) == chunk <= length

DownloadChunkValid(length, used_size, chunk) ==
    used_size <= length /\ chunk <= length - used_size

ReadInvalid(chunk) ==
    /\ ~DownloadChunkValid(total_size, size, chunk)
    /\ ErrorStatus' = "invalid_data"
    /\ Goto("failed")
    /\ UNCHANGED <<disk, DownloadStatus, local>>

ReadValid(chunk) ==
    /\ DownloadChunkValid(total_size, size, chunk)
    /\ size' = size + chunk
    /\ file' = IF ToFile THEN New(size', total_size) ELSE file
    /\ Goto("loop")
    /\ UNCHANGED <<bak, ErrorStatus, DownloadStatus, total_size, file_created, backup_moved,
                   leftover>>

\* "Error writing file": some of the chunk may have been written.
WriteFails(chunk) ==
    /\ ToFile
    /\ DownloadChunkValid(total_size, size, chunk)
    /\ \E written \in 0 .. chunk - 1 : file' = New(size + written, total_size)
    /\ Goto("failed")
    /\ UNCHANGED <<bak, ErrorStatus, DownloadStatus, local>>

Read ==
    /\ pc = "loop"
    /\ ~Cancelled
    /\ \E chunk \in 1 .. MaxLength :
           ReadInvalid(chunk) \/ ReadValid(chunk) \/ WriteFails(chunk)

\* What happens to the file after out: a crash may come after each step, and
\* the result of DeleteFileU() is not used.
Close ==
    /\ \/ /\ pc = "failed"
          /\ \/ UNCHANGED leftover /\ file' = IF file_created THEN None ELSE file
             \/ file_created /\ UNCHANGED file /\ leftover' = TRUE
          /\ Goto("restore")
          /\ UNCHANGED bak
       \/ /\ pc = "succeeded"
          /\ \/ UNCHANGED leftover /\ bak' = IF backup_moved THEN None ELSE bak
             \/ backup_moved /\ UNCHANGED bak /\ leftover' = TRUE
          /\ Goto("success")
          /\ UNCHANGED file
    /\ UNCHANGED <<ErrorStatus, DownloadStatus, total_size, size, file_created, backup_moved>>

\* Mistake: the backup stays where it is.
LeaveBackup ==
    /\ pc = "restore"
    /\ Goto("failure")
    /\ UNCHANGED <<disk, ErrorStatus, DownloadStatus, local>>

\* MoveFileU() does not replace a file that could not be deleted, and may fail.
Restore ==
    /\ pc = "restore"
    /\ \/ ~backup_moved /\ UNCHANGED <<disk, leftover>>
       \/ /\ backup_moved /\ file = None
          /\ file' = bak
          /\ bak' = None
          /\ UNCHANGED leftover
       \/ backup_moved /\ leftover' = TRUE /\ UNCHANGED disk
    /\ Goto("failure")
    /\ UNCHANGED <<ErrorStatus, DownloadStatus, total_size, size, file_created, backup_moved>>

-----------------------------------------------------------------------------
(* DownloadSignedFile(), and the return to the callers *)

Return(outcome) ==
    /\ pc' = "idle"
    /\ result' = outcome
    /\ UNCHANGED <<role, part, before, missed, used, calls, initial>>

\* The callers of a library also test its size, which its version decides.
ReturnToCaller ==
    /\ ToFile
    /\ \/ pc = "failure" /\ Return("failure")
       \/ pc = "success" /\ Return("success")
       \/ pc = "success" /\ role = "library" /\ Return("wrong_size")
    /\ UNCHANGED <<disk, ErrorStatus, DownloadStatus, local, buf_len>>

\* With the data in memory the signature is next: this resets ErrorStatus.
DataReturned ==
    /\ ~ToFile
    /\ part = "data"
    /\ \/ /\ pc = "success"
          /\ Begin
          /\ part' = "sig"
          /\ buf_len' = size
          /\ UNCHANGED <<role, history>>
       \/ /\ pc = "failure"
          /\ Return("failure")
          /\ UNCHANGED <<ErrorStatus, DownloadStatus, local, buf_len>>
    /\ UNCHANGED disk

\* "Download signature is invalid"
SignatureInvalid ==
    /\ ~ToFile
    /\ part = "sig"
    /\ pc \in {"success", "failure"}
    /\ DownloadStatus' = 403
    /\ ErrorStatus' = "bad_signature"
    /\ Return("failure")
    /\ UNCHANGED <<disk, local, buf_len>>

\* The signature is valid, but the file may not be created.
SignatureValid ==
    /\ ~ToFile
    /\ part = "sig"
    /\ pc = "success"
    /\ DownloadStatus' = 206
    /\ \/ /\ file' = New(0, buf_len)
          /\ Goto("save")
       \/ /\ Return("failure")
          /\ UNCHANGED <<file, buf_len>>
    /\ UNCHANGED <<bak, ErrorStatus, local>>

\* A write that fails leaves what was written.
Save ==
    /\ pc = "save"
    /\ \E written \in 0 .. buf_len :
           /\ file' = New(written, buf_len)
           /\ DownloadStatus' = IF written = buf_len THEN 200 ELSE DownloadStatus
           /\ Return(IF written = buf_len THEN "success" ELSE "failure")
    /\ UNCHANGED <<bak, ErrorStatus, local, buf_len>>

Download ==
    \/ RequestFails \/ Response \/ AllocFails \/ Backup \/ CreateFile \/ CancelSeen
    \/ ReadFails \/ ReadEnd \/ Read \/ Close \/ Restore \/ ReturnToCaller \/ DataReturned
    \/ SignatureInvalid \/ SignatureValid \/ Save

\* All the downloads were made.
Terminated == pc = "idle" /\ calls = MaxCalls /\ UNCHANGED vars

Next == Reuse \/ Call \/ UserCancel \/ Crash \/ Download \/ Terminated

Spec == Init /\ [][Next]_vars

-----------------------------------------------------------------------------
(* Properties *)

TypeOK ==
    /\ role \in {"image", "library", "signed"}
    /\ file \in Contents
    /\ bak \in Contents
    /\ pc \in {"idle", "request", "backup", "create", "loop", "failed", "succeeded",
               "restore", "failure", "success", "save"}
    /\ part \in {"data", "sig"}
    /\ ErrorStatus \in {"none", "cancelled", "invalid_data", "write_fault", "bad_signature"}
    /\ DownloadStatus \in {200, 206, 403, 404, 503}
    /\ total_size \in 0 .. MaxLength
    /\ size \in 0 .. MaxLength
    /\ file_created \in BOOLEAN
    /\ backup_moved \in BOOLEAN
    /\ leftover \in BOOLEAN
    /\ buf_len \in 0 .. MaxBuffered
    /\ before \in Contents \X Contents
    /\ result \in {"none", "success", "failure", "wrong_size", "crash"}
    /\ missed \in BOOLEAN
    /\ used \in Contents
    /\ calls \in 0 .. MaxCalls
    /\ initial \in {None, Old}

\* Whatever is sent, memcpy() stays within the buffer, which has the length that
\* the server has declared, and no file gets longer than that.  A download that
\* succeeds leaves the whole file and no backup of its own, unless it could not be
\* deleted, and the user has not cancelled it while some of it was missing.
SuccessIsWhole ==
    /\ size <= total_size /\ file.bytes <= file.length
    /\ result = "success" => /\ file.kind = "new"
                             /\ Whole(file)
                             /\ file.length > 0
                             /\ bak = IF leftover THEN before[1] ELSE before[2]
                             /\ ~missed

\* A download to a file that fails, at whatever step, leaves the disk as it was:
\* the file that was there is back, or there is none.  Where Windows refuses to
\* delete what was downloaded, or to move the backup, nothing of the earlier files
\* is lost: each is still there, under its name or as the backup.
FailureRestores ==
    ToFile /\ result = "failure" =>
        IF ~leftover
        THEN disk = before
        ELSE /\ before[1] # None => before[1] \in {file, bak}
             /\ before[2] # None => bak = before[2]

\* The image that is downloaded again is not lost, even if the application goes
\* down on the way or a later download fails: there is always a whole one, under
\* its name or as the backup.
AlwaysAWholeImage ==
    role = "image" /\ initial = Old => Whole(file) \/ Whole(bak)

\* DownloadSignedFile() is there to "Download and validate a signed file", and
\* what exists is used without another check: it should be what was validated.
ReusedIsWhole == role = "signed" /\ used # None => Whole(used)

=============================================================================
