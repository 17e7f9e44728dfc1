---------------------------- MODULE FormatThread ----------------------------
(***************************************************************************)
(* FormatThread() of format.c: the thread that makes the drive, from the   *)
(* removal of the drive letters to the copy of the files.                  *)
(*                                                                         *)
(* A stage is what the thread does between two places where it may leave.  *)
(* The functions that a stage calls (drive.c, iso.c, vhd.c, wue.c...) are  *)
(* modelled by how they may end: WriteDrive() has modules of its own.  The *)
(* user may cancel at any time.  Not modelled: how a handle is locked or   *)
(* shared, which letter is used, and the content of the drive.             *)
(***************************************************************************)
EXTENDS Naturals

CONSTANT MaxRetries     \* (bound) How often the user repeats the bad blocks check

ASSUME FormatAssumption == MaxRetries \in Nat

VARIABLES
    opts,               \* What the user has selected, and the system provides
    pc,                 \* The stage
    ErrorStatus,        \* (global)
    hPhysicalDrive,
    hLogicalVolume,     \* NULL is the handle of a drive that has no volume
    need_logical,       \* The partitions could not be deleted.
    retry_clear,        \* The device was not cycled yet.
    alt_mounted,        \* AltMountVolume() has defined a letter.
    letter,             \* The drive has a letter.
    retries,            \* (bound)
    done,               \* (history) The stages that have succeeded
    silent,             \* (history) The stages that have failed without a status
    late,               \* (history) The stages that succeeded after a cancellation
    cancelled,          \* (history) The user has cancelled.
    forgotten           \* (history) ... and ErrorStatus was reset after it.

handles == <<hPhysicalDrive, hLogicalVolume>>
mounts == <<alt_mounted, letter>>
flags == <<need_logical, retry_clear, retries>>
history == <<done, silent, late, cancelled, forgotten>>
vars == <<opts, pc, ErrorStatus, handles, mounts, flags, history>>

(* boot is boot_type, with write_as_image, windows_to_go and zero_drive:    *)
(* "wintogo" and "wim" are Windows To Go, from an ISO and from a WIM image. *)
(* loader is the way in which the drive is made bootable, alt stands for      *)
(* write_as_esp or write_as_ext, and zip for an archive of additional files   *)
(* and a file system below FS_EXT2.                                         *)

Written == {"raw", "ffu"}
Extracted == {"iso", "wintogo", "wim"}

Loaders(boot) ==
    CASE boot \in {"dos", "grub4dos"} -> {"pbr"}
      [] boot = "syslinux"            -> {"syslinux"}
      [] boot = "iso"                 -> {"none", "pbr", "syslinux"}
      [] boot \in {"wintogo", "wim"}   -> {"none", "pbr"}
      [] OTHER                        -> {"none"}

Boots == {"zero", "non_bootable", "dos", "grub4dos", "syslinux", "uefi_ntfs"} \union Written \union Extracted

Options ==
    {o \in [boot : Boots, loader : {"none", "pbr", "syslinux"}, mbr : BOOLEAN, alt : BOOLEAN,
            persistence : BOOLEAN, bad_blocks : BOOLEAN, zip : BOOLEAN,
            vds : {"none", "available", "used"}, win11 : BOOLEAN] :
        /\ o.loader \in Loaders(o.boot)
        /\ o.boot # "non_bootable" => o.mbr
        /\ o.alt => o.boot \in {"non_bootable", "iso"}
        /\ o.persistence => o.boot = "iso"}

must_unlock_physical == opts.vds = "used" \/ opts.win11

Init ==
    /\ opts \in Options
    /\ pc = "open"
    /\ ErrorStatus = "none"
    /\ hPhysicalDrive = "invalid"
    /\ hLogicalVolume = "invalid"
    /\ need_logical = FALSE
    /\ retry_clear = TRUE
    /\ alt_mounted = FALSE
    /\ letter = TRUE
    /\ retries = 0
    /\ done = {}
    /\ silent = {}
    /\ late = {}
    /\ cancelled = FALSE
    /\ forgotten = FALSE

-----------------------------------------------------------------------------
(* How a stage ends *)

Did(stage) ==
    /\ done' = done \union {stage}
    /\ late' = IF cancelled THEN late \union {stage} ELSE late
    /\ UNCHANGED <<silent, cancelled, forgotten>>

\* Mistake: a cancellation is not tested for.
Unchecked(next) == pc' = next

\* CHECK_FOR_USER_CANCEL
CheckForUserCancel(next) == pc' = IF ErrorStatus = "cancelled" THEN "out" ELSE next

\* goto out with an ErrorStatus, whatever it was
Fail ==
    /\ ErrorStatus' = "error"
    /\ pc' = "out"
    /\ UNCHANGED history

\* goto out, with an ErrorStatus if there is none: if (!IS_ERROR(ErrorStatus)) ...
FailUnlessSet ==
    /\ ErrorStatus' = IF ErrorStatus = "none" THEN "error" ELSE ErrorStatus
    /\ pc' = "out"
    /\ UNCHANGED history

\* goto out, or on to the next stage, with ErrorStatus as it was
FailSilently(stage, next) ==
    /\ silent' = silent \union {stage}
    /\ pc' = next
    /\ UNCHANGED <<ErrorStatus, done, late, cancelled, forgotten>>

\* IDCANCEL of the main dialog, after the user has confirmed
UserCancel ==
    /\ pc # "done"
    /\ ErrorStatus' = "cancelled"
    /\ cancelled' = TRUE
    /\ UNCHANGED <<opts, pc, handles, mounts, flags, done, silent, late, forgotten>>

-----------------------------------------------------------------------------
(* Access to the drive *)

\* GetPhysicalHandle(): gives up after a timeout, or a cancellation.
Open ==
    /\ pc = "open"
    /\ \/ hPhysicalDrive' = "read" /\ pc' = "letters" /\ UNCHANGED <<ErrorStatus, history>>
       \/ hPhysicalDrive' = "invalid" /\ Fail
    /\ UNCHANGED <<opts, hLogicalVolume, mounts, flags>>

\* GetDriveLetters() fails, or there is no letter to use: some may be removed.
RemoveLetters ==
    /\ pc = "letters"
    /\ \/ /\ letter' = FALSE
          /\ hPhysicalDrive' = "invalid"
          /\ pc' = "delete"
          /\ UNCHANGED <<ErrorStatus, history>>
       \/ letter' \in BOOLEAN /\ UNCHANGED hPhysicalDrive /\ Fail
    /\ UNCHANGED <<opts, hLogicalVolume, alt_mounted, flags>>

\* Mistake: the volume is not asked for.
DeleteFailsQuietly ==
    /\ ErrorStatus' = "none"
    /\ forgotten' = (forgotten \/ ErrorStatus = "cancelled")
    /\ UNCHANGED <<need_logical, done, silent, late, cancelled>>

\* "WARNING: Could not delete partition(s)"
DeleteFails ==
    /\ ErrorStatus' = "none"
    /\ need_logical' = TRUE
    /\ forgotten' = (forgotten \/ ErrorStatus = "cancelled")
    /\ UNCHANGED <<done, silent, late, cancelled>>

DeletePartitions ==
    /\ pc = "delete"
    /\ \/ /\ opts.vds # "none"
          /\ Did("delete")
          /\ UNCHANGED <<ErrorStatus, need_logical>>
       \/ DeleteFails
    /\ pc' = "reopen"
    /\ UNCHANGED <<opts, handles, mounts, retry_clear, retries>>

Reopen ==
    /\ pc = "reopen"
    /\ \/ hPhysicalDrive' = "write" /\ pc' = "logical" /\ UNCHANGED <<ErrorStatus, history>>
       \/ hPhysicalDrive' = "invalid" /\ Fail
    /\ UNCHANGED <<opts, hLogicalVolume, mounts, flags>>

\* GetLogicalHandle() gives NULL if there is no volume.
LockVolume ==
    /\ pc = "logical"
    /\ \/ /\ opts.boot \in Written \/ need_logical
          /\ \/ /\ hLogicalVolume' \in {"open", "NULL"}
                /\ CheckForUserCancel("clear")
                /\ UNCHANGED <<ErrorStatus, history>>
             \/ hLogicalVolume' = "invalid" /\ Fail
       \/ /\ opts.boot \notin Written /\ ~need_logical
          /\ CheckForUserCancel("clear")
          /\ UNCHANGED <<ErrorStatus, hLogicalVolume, history>>
    /\ UNCHANGED <<opts, hPhysicalDrive, mounts, flags>>

-----------------------------------------------------------------------------
(* The whole drive: zeroing, clearing, bad blocks and images *)

\* Every block, or every look at a command, begins with CHECK_FOR_USER_CANCEL.
Complete ==
    /\ ErrorStatus # "cancelled"
    /\ Did("write")
    /\ pc' = "out"
    /\ UNCHANGED ErrorStatus

\* WriteDrive(): the result is not used.  It fails with a status of its own,
\* on a cancellation, or silently when the position cannot be reset.
WriteDrive ==
    \/ Complete
    \/ FailUnlessSet
    \/ FailSilently("write", "out")

Zero ==
    /\ pc = "clear"
    /\ opts.boot = "zero"
    /\ WriteDrive
    /\ UNCHANGED <<opts, handles, mounts, flags>>

AfterCheck == IF opts.boot \in Written THEN "image" ELSE "partition"

AfterClear == IF opts.bad_blocks THEN "bad_blocks" ELSE AfterCheck

RetryClear == retry_clear /\ opts.vds # "none"

\* ClearMBRGPT() and InitializeDisk(), but not for an image that is no ISO
Clear ==
    /\ pc = "clear"
    /\ opts.boot # "zero"
    /\ \/ /\ opts.boot \in Written \union {"wim"}
          /\ pc' = AfterClear
          /\ UNCHANGED <<ErrorStatus, history>>
       \/ /\ opts.boot \notin Written \union {"wim"}
          /\ \/ Did("clear") /\ pc' = AfterClear /\ UNCHANGED ErrorStatus
             \/ RetryClear /\ pc' = "cycle" /\ UNCHANGED <<ErrorStatus, history>>
             \/ ~RetryClear /\ Fail
    /\ UNCHANGED <<opts, handles, mounts, flags>>

\* Mistake: it may be cycled again.
CycleAgain ==
    /\ pc = "cycle"
    /\ pc' = "clear"
    /\ UNCHANGED <<opts, ErrorStatus, handles, mounts, flags, history>>

\* "Cycling the device to see if it helps...": goto try_clear
Cycle ==
    /\ pc = "cycle"
    /\ retry_clear' = FALSE
    /\ pc' = "clear"
    /\ UNCHANGED <<opts, ErrorStatus, handles, mounts, need_logical, retries, history>>

\* "Error: Could not create log file for bad blocks check"
NoLogFile ==
    /\ pc = "bad_blocks"
    /\ FailSilently("bad_blocks", "out")
    /\ UNCHANGED <<opts, handles, mounts, flags>>

\* The check fails, or the user aborts on bad blocks.
BadBlocksFails ==
    /\ pc = "bad_blocks"
    /\ \/ FailUnlessSet
       \/ ErrorStatus' = "cancelled" /\ pc' = "out" /\ UNCHANGED history
    /\ UNCHANGED <<opts, handles, mounts, flags>>

\* The user repeats the check on bad blocks.
BadBlocksRetry ==
    /\ pc = "bad_blocks"
    /\ retries < MaxRetries
    /\ retries' = retries + 1
    /\ UNCHANGED <<opts, pc, ErrorStatus, handles, mounts, need_logical, retry_clear, history>>

\* There are no bad blocks, or the user ignores them: the drive is cleared again.
BadBlocks ==
    /\ pc = "bad_blocks"
    /\ \/ Did("bad_blocks") /\ pc' = AfterCheck /\ UNCHANGED ErrorStatus
       \/ FailUnlessSet
    /\ UNCHANGED <<opts, handles, mounts, flags>>

\* dism.exe opens the drive of an FFU image on its own.
WriteImage ==
    /\ pc = "image"
    /\ \/ opts.boot = "raw" /\ WriteDrive /\ UNCHANGED hPhysicalDrive
       \/ /\ opts.boot = "ffu"
          /\ hPhysicalDrive' = "invalid"
          /\ Complete \/ FailUnlessSet
    /\ UNCHANGED <<opts, hLogicalVolume, mounts, flags>>

-----------------------------------------------------------------------------
(* Partitions and file systems *)

\* Mistake: the volume of the old partition stays open.
KeepVolume == UNCHANGED hLogicalVolume

\* "Close the (unmounted) volume before formatting"
CloseVolume == hLogicalVolume' = "invalid"

\* CloseHandle() may fail: the handle is lost to the thread, like a closed one.
CreatePartition ==
    /\ pc = "partition"
    /\ \/ /\ ErrorStatus # "cancelled"
          /\ Did("partition")
          /\ CloseVolume
          /\ hPhysicalDrive' = IF must_unlock_physical THEN "invalid" ELSE hPhysicalDrive
          /\ pc' = "wait"
          /\ UNCHANGED ErrorStatus
       \/ /\ ErrorStatus # "cancelled"
          /\ Fail
          /\ \/ UNCHANGED hLogicalVolume
             \/ hLogicalVolume = "open" /\ hLogicalVolume' = "invalid"
          /\ UNCHANGED hPhysicalDrive
       \/ /\ ErrorStatus = "cancelled"
          /\ pc' = "out"
          /\ UNCHANGED <<ErrorStatus, handles, history>>
    /\ UNCHANGED <<opts, mounts, flags>>

\* AltMountVolume(), or WaitForLogical(), which gives up on any ErrorStatus
WaitForVolume ==
    /\ pc = "wait"
    /\ \/ /\ alt_mounted' = opts.alt
          /\ CheckForUserCancel(IF opts.persistence THEN "persistence" ELSE "format")
          /\ UNCHANGED <<ErrorStatus, history>>
       \/ opts.alt /\ Fail /\ UNCHANGED alt_mounted
       \/ ~opts.alt /\ FailUnlessSet /\ UNCHANGED alt_mounted
    /\ UNCHANGED <<opts, handles, letter, flags>>

\* FormatPartition() with the ext file system of the persistent partition
FormatPersistence ==
    /\ pc = "persistence"
    /\ \/ Did("persistence") /\ pc' = "format" /\ UNCHANGED ErrorStatus
       \/ FailUnlessSet
    /\ UNCHANGED <<opts, handles, mounts, flags>>

\* "Error will be set by FormatPartition() in ErrorStatus"
Format ==
    /\ pc = "format"
    /\ \/ Did("format") /\ pc' = "regain" /\ UNCHANGED ErrorStatus
       \/ FailUnlessSet
    /\ UNCHANGED <<opts, handles, mounts, flags>>

\* Mistake: the handle is not asked for again.
NotRegained ==
    /\ pc = "regain"
    /\ pc' = "mbr"
    /\ UNCHANGED <<opts, ErrorStatus, handles, mounts, flags, history>>

\* "Get RW access back to the physical drive..."
Regain ==
    /\ pc = "regain"
    /\ \/ /\ hPhysicalDrive' = IF must_unlock_physical THEN "write" ELSE hPhysicalDrive
          /\ pc' = "mbr"
          /\ UNCHANGED <<ErrorStatus, history>>
       \/ must_unlock_physical /\ hPhysicalDrive' = "invalid" /\ Fail
    /\ UNCHANGED <<opts, hLogicalVolume, mounts, flags>>

\* WriteMBR() and WriteSBR(), "AFTER the drive has been formatted"
WriteMBR ==
    /\ pc = "mbr"
    /\ \/ /\ opts.mbr
          /\ \/ Did("mbr") /\ pc' = "mount" /\ UNCHANGED ErrorStatus
             \/ FailUnlessSet
       \/ ~opts.mbr /\ pc' = "mount" /\ UNCHANGED <<ErrorStatus, history>>
    /\ UNCHANGED <<opts, handles, mounts, flags>>

\* The volume has no name or cannot be mounted: both are errors.
Mount ==
    /\ pc = "mount"
    /\ \/ opts.alt /\ pc' = "boot" /\ UNCHANGED <<ErrorStatus, letter, history>>
       \/ /\ ~opts.alt /\ ErrorStatus = "cancelled"
          /\ pc' = "out"
          /\ UNCHANGED <<ErrorStatus, letter, history>>
       \/ /\ ~opts.alt /\ ErrorStatus # "cancelled"
          /\ \/ letter' = TRUE /\ pc' = "mounted" /\ UNCHANGED <<ErrorStatus, history>>
             \/ UNCHANGED letter /\ Fail
    /\ UNCHANGED <<opts, handles, alt_mounted, flags>>

Mounted ==
    /\ pc = "mounted"
    /\ CheckForUserCancel("boot")
    /\ UNCHANGED <<opts, ErrorStatus, handles, mounts, flags, history>>

-----------------------------------------------------------------------------
(* Boot records and files *)

InstallSyslinux ==
    /\ opts.loader = "syslinux"
    /\ \/ Did("loader") /\ CheckForUserCancel("remount") /\ UNCHANGED ErrorStatus
       \/ Fail
    /\ UNCHANGED hLogicalVolume

\* "We must close and unlock the volume to write files to it"
WritePBR ==
    /\ opts.loader = "pbr"
    /\ \/ /\ hLogicalVolume' = "invalid"
          /\ Did("loader") /\ CheckForUserCancel("remount") /\ UNCHANGED ErrorStatus
       \/ hLogicalVolume' \in {"invalid", "NULL"} /\ Fail
       \/ hLogicalVolume' = "open" /\ FailUnlessSet

Boot ==
    /\ pc = "boot"
    /\ \/ InstallSyslinux
       \/ WritePBR
       \/ /\ opts.loader = "none"
          /\ CheckForUserCancel("remount")
          /\ UNCHANGED <<ErrorStatus, hLogicalVolume, history>>
    /\ UNCHANGED <<opts, hPhysicalDrive, mounts, flags>>

\* A mount point that has no volume is not remounted, and is no error.
Remount ==
    /\ pc = "remount"
    /\ \/ CheckForUserCancel("files") /\ UNCHANGED <<ErrorStatus, letter, history>>
       \/ letter' = FALSE /\ Fail
    /\ UNCHANGED <<opts, handles, alt_mounted, flags>>

\* Mistake: an extraction that fails is only logged.
ExtractionIsLogged ==
    \/ Did("files") /\ pc' = "patch" /\ UNCHANGED ErrorStatus
    \/ pc' = "patch" /\ UNCHANGED <<ErrorStatus, history>>

\* ExtractDOS(), SetupWinToGo() or ExtractISO()
Extract ==
    \/ Did("files") /\ pc' = "patch" /\ UNCHANGED ErrorStatus
    \/ FailUnlessSet

CopyFiles ==
    /\ pc = "files"
    /\ \/ opts.boot \in Extracted \union {"dos"} /\ Extract
       \/ /\ opts.boot = "grub4dos"
          /\ \/ Did("files") /\ pc' = "patch" /\ UNCHANGED ErrorStatus
             \/ FailSilently("files", "patch")
       \/ /\ opts.boot \notin Extracted \union {"dos", "grub4dos"}
          /\ pc' = "patch"
          /\ UNCHANGED <<ErrorStatus, history>>
    /\ UNCHANGED <<opts, handles, mounts, flags>>

\* The KolibriOS loader, the Windows 7 EFI loader, SetupWinPE() and
\* ApplyWindowsCustomization(): one that fails does not end the thread.
Patch ==
    /\ pc = "patch"
    /\ \/ opts.boot \in Extracted /\ Did("patch") /\ pc' = "finalize" /\ UNCHANGED ErrorStatus
       \/ opts.boot \notin Extracted /\ pc' = "finalize" /\ UNCHANGED <<ErrorStatus, history>>
       \/ /\ opts.boot \in Extracted
          /\ ErrorStatus' = "error"
          /\ pc' = "finalize"
          /\ UNCHANGED history
       \/ opts.boot = "iso" /\ FailSilently("patch", "finalize")
    /\ UNCHANGED <<opts, handles, mounts, flags>>

\* Mistake: the drive is left without its letter, and without an error.
FinalizeQuietly ==
    /\ pc = "finalize"
    /\ \/ UNCHANGED letter
       \/ opts.boot # "non_bootable" /\ letter' = FALSE
    /\ pc' = "zip"
    /\ UNCHANGED <<opts, ErrorStatus, handles, alt_mounted, flags, history>>

\* The result of the last RemountVolume() is not used, but sets ErrorStatus.
Finalize ==
    /\ pc = "finalize"
    /\ \/ UNCHANGED <<ErrorStatus, letter>>
       \/ opts.boot # "non_bootable" /\ letter' = FALSE /\ ErrorStatus' = "error"
    /\ pc' = "zip"
    /\ UNCHANGED <<opts, handles, alt_mounted, flags, history>>

\* "Copy any additonal files from an optional zip archive"
ExtractZip ==
    /\ pc = "zip"
    /\ \/ opts.zip /\ ErrorStatus = "none" /\ Did("zip") /\ pc' = "out" /\ UNCHANGED ErrorStatus
       \/ opts.zip /\ ErrorStatus = "none" /\ FailSilently("zip", "out")
       \/ /\ ~(opts.zip /\ ErrorStatus = "none")
          /\ pc' = "out"
          /\ UNCHANGED <<ErrorStatus, history>>
    /\ UNCHANGED <<opts, handles, mounts, flags>>

-----------------------------------------------------------------------------
(* out *)

\* Mistake: the volume is not closed.
LeaveVolume == alt_mounted' = FALSE /\ hPhysicalDrive' = "invalid" /\ UNCHANGED hLogicalVolume

\* AltUnmountVolume() and safe_unlockclose(), which leaves NULL alone
Release ==
    /\ alt_mounted' = FALSE
    /\ hPhysicalDrive' = "invalid"
    /\ hLogicalVolume' = IF hLogicalVolume = "NULL" THEN "NULL" ELSE "invalid"

Out ==
    /\ pc = "out"
    /\ Release
    /\ pc' = IF opts.boot \in Written THEN "rescan" ELSE "restore"
    /\ UNCHANGED <<opts, ErrorStatus, letter, flags, history>>

\* VdsRescan(): the volume of an image that has no ESP may be mounted.
Rescan ==
    /\ pc = "rescan"
    /\ letter' \in {letter, TRUE}
    /\ pc' = "restore"
    /\ UNCHANGED <<opts, ErrorStatus, handles, alt_mounted, flags, history>>

\* "Re-mounted volume as %c: after error", if there is a volume to mount
Restore ==
    /\ pc = "restore"
    /\ letter' \in IF ErrorStatus = "none" THEN {letter} ELSE {letter, TRUE}
    /\ pc' = "done"
    /\ UNCHANGED <<opts, ErrorStatus, handles, alt_mounted, flags, history>>

Thread ==
    \/ Open \/ RemoveLetters \/ DeletePartitions \/ Reopen \/ LockVolume \/ Zero \/ Clear \/ Cycle
    \/ NoLogFile \/ BadBlocksFails \/ BadBlocksRetry \/ BadBlocks \/ WriteImage
    \/ CreatePartition \/ WaitForVolume \/ FormatPersistence \/ Format \/ Regain \/ WriteMBR
    \/ Mount \/ Mounted \/ Boot \/ Remount \/ CopyFiles \/ Patch \/ Finalize \/ ExtractZip
    \/ Out \/ Rescan \/ Restore

\* UM_FORMAT_COMPLETED was posted.
Ended == pc = "done" /\ UNCHANGED vars

Next == UserCancel \/ Thread \/ Ended

\* Every wait of the thread has a timeout, and the user answers its questions.
Spec == Init /\ [][Next]_vars /\ WF_vars(Thread)

-----------------------------------------------------------------------------
(* Properties *)

Stages == {"delete", "write", "clear", "bad_blocks", "partition", "persistence", "format",
           "mbr", "loader", "files", "patch", "zip"}

TypeOK ==
    /\ opts \in Options
    /\ pc \in {"open", "letters", "reopen", "logical", "cycle", "image", "wait", "regain", "mount", "mounted",
               "boot", "remount", "finalize", "out", "rescan", "restore", "done"} \union Stages
    /\ ErrorStatus \in {"none", "cancelled", "error"}
    /\ hPhysicalDrive \in {"invalid", "read", "write"}
    /\ hLogicalVolume \in {"invalid", "NULL", "open"}
    /\ {need_logical, retry_clear, alt_mounted, letter, cancelled, forgotten}
           \subseteq BOOLEAN
    /\ retries \in 0 .. MaxRetries
    /\ {done, silent, late} \subseteq SUBSET Stages

\* When the thread is over no handle is open and no letter is left defined,
\* wherever it went out: the drive can be ejected, or formatted again.
HandlesReleased ==
    pc = "done" => hPhysicalDrive = "invalid" /\ hLogicalVolume # "open" /\ ~alt_mounted

If(condition, stage) == IF condition THEN {stage} ELSE {}

\* What a drive needs of which the user is told that it is READY
Required ==
    IF opts.boot \in Written \union {"zero"}
    THEN {"write"}
    ELSE {"partition", "format"}
             \union If(opts.boot # "wim", "clear")
             \union If(opts.bad_blocks, "bad_blocks")
             \union If(opts.persistence, "persistence")
             \union If(opts.mbr, "mbr")
             \union If(opts.loader # "none", "loader")
             \union If(opts.boot \in Extracted \union {"dos", "grub4dos"}, "files")
             \union If(opts.boot \in Extracted, "patch")
             \union If(opts.zip, "zip")

Success == pc = "done" /\ ErrorStatus = "none"

\* A thread that ends without an ErrorStatus, which UM_FORMAT_COMPLETED takes
\* for a success, has done all that the options ask for, unless one of the
\* stages has failed that only log their failure: no other way out is silent.
\* A drive that was formatted is left with a letter, under which the user finds it.
SuccessIsComplete ==
    Success => /\ silent = {} => Required \subseteq done
               /\ "format" \in done /\ ~opts.alt => letter

\* As before, without an exception: READY means that everything was done.
SuccessMeansDone == Success => Required \subseteq done

\* The volume is closed before it is formatted and before files are copied to
\* it, and so is the drive, where Windows would deny the access to format it.
NoHandleInTheWay ==
    /\ pc \in {"persistence", "format", "remount", "files", "patch", "finalize", "zip"} =>
           hLogicalVolume # "open"
    /\ pc \in {"persistence", "format"} /\ must_unlock_physical => hPhysicalDrive = "invalid"

\* The drive is cleared, checked, written, partitioned and made bootable with
\* a handle that has write access, though it is given up three times.
WritesHaveAHandle ==
    pc \in {"clear", "bad_blocks", "image", "partition", "mbr"} => hPhysicalDrive = "write"

\* While the drive is written under partitions that were not deleted, or with
\* an image, the thread has its volume, if there is one: "Windows give us
\* trouble unless we request access to the logical drive".
OldVolumeIsHeld ==
    /\ pc \in {"clear", "bad_blocks", "partition"} /\ "delete" \notin done => hLogicalVolume # "invalid"
    /\ pc = "image" => hLogicalVolume # "invalid"

\* Whatever has failed or was skipped before, every stage has the handles that
\* it needs, and none that is in its way.
HandlesFitTheStage == NoHandleInTheWay /\ WritesHaveAHandle /\ OldVolumeIsHeld

\* After a cancellation only the stages up to the next test for it are done,
\* and the drive is not reported as READY, unless the partitions could not be
\* deleted after it, which resets ErrorStatus.
CancelIsSeen ==
    cancelled /\ ~forgotten =>
        /\ ~Success
        /\ \/ late \subseteq {"delete"}
           \/ late \subseteq {"clear", "bad_blocks"}
           \/ late \subseteq {"persistence", "format", "mbr"} \union If(opts.alt, "loader")
           \/ late = {"loader"}
           \/ late \subseteq {"files", "patch"}

\* A cancellation is never reported as READY.
CancelledIsNotReady == cancelled => ~Success

\* The thread ends, and releases the drive: no wait and no retry lasts.
FormatThreadEnds == <>(pc = "done")

=============================================================================
