-------------------------- MODULE FormatThreadProofs --------------------------
(***************************************************************************)
(* Proofs about the format thread, for every combination of options and    *)
(* any number of repeated bad blocks checks.  The inductive invariant IInv *)
(* gives, for every stage, the handles that the thread has (Held), what    *)
(* was done of what the options ask for (Progress), where the letter is    *)
(* (Lettered), and what may have been done since the user has cancelled    *)
(* (Noticed): the last rests on ErrorStatus, which no stage may reset once *)
(* it tells of the cancellation.  The bad blocks check that the thread     *)
(* runs is in the last part.                                               *)
(***************************************************************************)
EXTENDS FormatThread, BadBlocksStage, NaturalsInduction, WellFoundedInduction, TLAPS

\* The stages, in the order of the code.
Opening == {"open", "letters", "delete", "reopen", "logical"}
Clearing == {"clear", "cycle", "bad_blocks"}
Formatting == {"wait", "persistence", "format"}
Booting == {"regain", "mbr", "mount", "mounted", "boot"}
Copying == {"remount", "files", "patch"}
Closing == {"finalize", "zip"}
Ending == {"out", "rescan", "restore", "done"}

Points ==
    Opening \union Clearing \union {"image", "partition"} \union Formatting
        \union Booting \union Copying \union Closing \union Ending

\* The types of the flags, and of everything else.
Flags ==
    /\ need_logical \in BOOLEAN
    /\ retry_clear \in BOOLEAN
    /\ alt_mounted \in BOOLEAN
    /\ letter \in BOOLEAN
    /\ cancelled \in BOOLEAN
    /\ forgotten \in BOOLEAN

Kept ==
    /\ opts \in Options
    /\ pc \in Points
    /\ ErrorStatus \in {"none", "cancelled", "error"}
    /\ hPhysicalDrive \in {"invalid", "read", "write"}
    /\ hLogicalVolume \in {"invalid", "NULL", "open"}
    /\ retries \in 0 .. MaxRetries

Sets == done \subseteq Stages /\ silent \subseteq Stages /\ late \subseteq Stages

Typed == Flags /\ Kept /\ Sets

\* Which stages the options lead to.
Led ==
    /\ pc \in {"cycle", "bad_blocks"} => opts.boot # "zero"
    /\ pc = "image" => opts.boot \in Written
    /\ pc \in {"partition"} \union Formatting \union Booting \union Copying \union Closing =>
           opts.boot \notin Written \union {"zero"}
    /\ pc = "mounted" => ~opts.alt

\* The handles of every stage: the drive is given up for the removal of the
\* letters, for the partitions and, where Windows asks for it, to be formatted.
Held ==
    /\ pc \in Opening \union Formatting \union Booting \union Copying \union Closing =>
           hLogicalVolume = "invalid"
    /\ pc \in {"logical", "image", "partition"} \union Clearing => hPhysicalDrive = "write"
    /\ pc \in Formatting \union {"regain"} =>
           hPhysicalDrive = IF must_unlock_physical THEN "invalid" ELSE "write"
    /\ pc \in Booting \ {"regain"} => hPhysicalDrive = "write"
    /\ pc \in {"reopen", "logical", "image", "partition"} \union Clearing =>
           "delete" \in done \/ need_logical
    /\ pc \in {"image", "partition"} \union Clearing =>
           (opts.boot \in Written \/ need_logical => hLogicalVolume # "invalid")
    /\ pc \in Ending \ {"out"} =>
           hPhysicalDrive = "invalid" /\ hLogicalVolume # "open" /\ ~alt_mounted

\* No stage before the patches goes on with an error.
Error ==
    pc \in Opening \union Clearing \union {"image", "partition"} \union Formatting
               \union Booting \union Copying => ErrorStatus # "error"

\* What every stage finds done, if none has failed silently.
AfterClearing == {"partition"} \union Formatting \union Booting \union Copying \union Closing
AfterFormat == Booting \union Copying \union Closing

Progress ==
    /\ pc \in {"bad_blocks"} \union AfterClearing =>
           (opts.boot \notin Written \union {"wim"} => "clear" \in done)
    /\ pc \in AfterClearing => (opts.bad_blocks => "bad_blocks" \in done)
    /\ pc \in Formatting \union AfterFormat => "partition" \in done
    /\ pc \in {"format"} \union AfterFormat => (opts.persistence => "persistence" \in done)
    /\ pc \in AfterFormat => "format" \in done
    /\ pc \in AfterFormat \ {"regain", "mbr"} => (opts.mbr => "mbr" \in done)
    /\ pc \in Copying \union Closing => (opts.loader # "none" => "loader" \in done)
    /\ pc \in {"patch"} \union Closing /\ silent = {} =>
           (opts.boot \in Extracted \union {"dos", "grub4dos"} => "files" \in done)
    /\ pc \in Closing /\ silent = {} /\ ErrorStatus = "none" =>
           (opts.boot \in Extracted => "patch" \in done)
    /\ pc \in Ending /\ silent = {} /\ ErrorStatus = "none" => Required \subseteq done

\* Where the drive has its letter again.
Lettered ==
    /\ pc \notin AfterFormat \union Ending => "format" \notin done
    /\ pc \in {"mounted", "boot"} \union Copying \union {"finalize"} => opts.alt \/ letter
    /\ pc \in {"zip"} \union Ending /\ ErrorStatus = "none" /\ "format" \in done =>
           opts.alt \/ letter

\* The stages that may have been done after a cancellation, by the end.
LateAtLast ==
    \/ late \subseteq {"delete"}
    \/ late \subseteq {"clear", "bad_blocks"}
    \/ late \subseteq {"persistence", "format", "mbr"} \union If(opts.alt, "loader")
    \/ late = {"loader"}
    \/ late \subseteq {"files", "patch"}

Noticed ==
    /\ ~cancelled => late = {}
    /\ cancelled /\ ~forgotten =>
           /\ ErrorStatus # "none"
           /\ pc \in {"open", "letters", "delete", "wait", "mounted", "remount", "files"} =>
                  late = {}
           /\ pc \in {"reopen", "logical"} => late \subseteq {"delete"}
           /\ pc \in Clearing \union {"image", "partition"} => late \subseteq {"clear", "bad_blocks"}
           /\ pc \in {"persistence", "format", "regain", "mbr", "mount"} =>
                  late \subseteq {"persistence", "format", "mbr"}
           /\ pc = "boot" => IF opts.alt THEN late \subseteq {"persistence", "format", "mbr"}
                                         ELSE late = {}
           /\ pc = "patch" => late \subseteq {"files"}
           /\ pc \in Closing => late \subseteq {"files", "patch"}
           /\ pc \in Ending => LateAtLast

IInv == Typed /\ Led /\ Held /\ Error /\ Progress /\ Lettered /\ Noticed

-----------------------------------------------------------------------------

LEMMA InitLemma == Init => IInv
<1> SUFFICES ASSUME Init PROVE IInv
  OBVIOUS
<1> USE DEF Init
<1>1. Flags
  BY Zenon DEF Flags
<1>2. Kept /\ Sets
  BY FormatAssumption DEF Kept, Sets, Points, Opening
<1>3. Led /\ Held /\ Error
  BY DEF Led, Held, Error, Opening, Clearing, Formatting, Booting, Copying, Closing,
         Ending
<1>4. Progress /\ Lettered /\ Noticed
  BY DEF Progress, Lettered, Noticed, AfterClearing, AfterFormat, Opening, Clearing,
         Formatting, Booting, Copying, Closing, Ending
<1> QED
  BY <1>1, <1>2, <1>3, <1>4 DEF IInv, Typed

\* Every step keeps the types of the flags.
LEMMA FlagsStep == IInv /\ [Next]_vars => Flags'
<1> SUFFICES ASSUME IInv, [Next]_vars PROVE Flags'
  OBVIOUS
<1> USE DEF IInv, Typed, Flags, handles, mounts, flags, history
<1>1. CASE WaitForVolume
  <2>1. opts.alt \in BOOLEAN
    BY DEF Kept, Options
  <2> QED
    BY <1>1, <2>1, Zenon DEF WaitForVolume, CheckForUserCancel, Fail, FailUnlessSet
<1>2. CASE UserCancel \/ DeletePartitions \/ Cycle
  BY <1>2, Zenon DEF UserCancel, DeletePartitions, Did, DeleteFails, Cycle
<1>3. CASE RemoveLetters \/ Mount \/ Remount \/ Finalize
  BY <1>3, Zenon DEF RemoveLetters, Fail, Mount, Remount, CheckForUserCancel,
     Finalize
<1>4. CASE Out \/ Rescan \/ Restore
  BY <1>4, Zenon DEF Out, Release, Rescan, Restore
<1>5. CASE Open \/ Reopen \/ LockVolume \/ Zero \/ Clear \/ NoLogFile \/
          BadBlocksFails \/ BadBlocksRetry \/ BadBlocks \/ WriteImage
  BY <1>5, Zenon DEF Open, Fail, Reopen, LockVolume, CheckForUserCancel, Zero,
     WriteDrive, FailUnlessSet, FailSilently, Complete, Did, Clear, RetryClear,
     AfterClear, AfterCheck, NoLogFile, BadBlocksFails, BadBlocksRetry,
     BadBlocks, WriteImage
<1>6. CASE CreatePartition \/ FormatPersistence \/ Format \/ Regain \/ WriteMBR
  BY <1>6, Zenon DEF CreatePartition, CloseVolume, FormatPersistence, Format, Regain,
     WriteMBR, Fail, FailUnlessSet, Did
<1>7. CASE Mounted \/ Boot \/ CopyFiles \/ Patch \/ ExtractZip \/ Ended \/ UNCHANGED vars
  BY <1>7, Zenon DEF Mounted, Boot, InstallSyslinux, WritePBR, CopyFiles, Extract, Patch,
     ExtractZip, Ended, vars, CheckForUserCancel, Fail, FailUnlessSet, FailSilently, Did
<1> QED
  BY <1>1, <1>2, <1>3, <1>4, <1>5, <1>6, <1>7 DEF Next, Thread

\* Every step keeps the types of the handles, the status and the stage.
LEMMA KeptStep == IInv /\ [Next]_vars => Kept'
<1> SUFFICES ASSUME IInv, [Next]_vars PROVE Kept'
  OBVIOUS
<1> USE FormatAssumption DEF IInv, Typed, Kept, Points, Opening, Clearing,
     Formatting, Booting, Copying, Closing, Ending, handles, mounts, flags,
     history
<1>1. CASE UserCancel
  BY <1>1 DEF UserCancel
<1>2. CASE Open \/ RemoveLetters \/ Reopen
  BY <1>2 DEF Open, Fail, RemoveLetters, Reopen
<1>3. CASE DeletePartitions
  BY <1>3 DEF DeletePartitions, Did, DeleteFails
<1>4. CASE LockVolume
  BY <1>4 DEF LockVolume, CheckForUserCancel, Fail
<1>5. CASE Zero \/ WriteImage
  BY <1>5 DEF Zero, WriteDrive, FailUnlessSet, FailSilently, Complete, Did,
     WriteImage
<1>6. CASE Clear \/ Cycle
  BY <1>6 DEF Clear, Did, Fail, RetryClear, AfterClear, AfterCheck, Cycle
<1>7. CASE NoLogFile \/ BadBlocksFails \/ BadBlocksRetry \/ BadBlocks
  BY <1>7 DEF NoLogFile, FailSilently, BadBlocksFails, FailUnlessSet,
     BadBlocksRetry, BadBlocks, Did, AfterCheck
<1>8. CASE CreatePartition
  BY <1>8 DEF CreatePartition, Did, Fail, CloseVolume
<1>9. CASE WaitForVolume
  BY <1>9 DEF WaitForVolume, CheckForUserCancel, Fail, FailUnlessSet
<1>10. CASE FormatPersistence \/ Format
  BY <1>10 DEF FormatPersistence, Did, FailUnlessSet, Format
<1>11. CASE Regain \/ WriteMBR
  BY <1>11 DEF Regain, Fail, WriteMBR, Did, FailUnlessSet
<1>12. CASE Mount \/ Mounted
  BY <1>12 DEF Mount, Fail, Mounted, CheckForUserCancel
<1>13. CASE Boot
  BY <1>13 DEF Boot, CheckForUserCancel, InstallSyslinux, Did, Fail, WritePBR,
     FailUnlessSet
<1>14. CASE Remount
  BY <1>14 DEF Remount, CheckForUserCancel, Fail
<1>15. CASE CopyFiles
  BY <1>15 DEF CopyFiles, Did, FailSilently, Extract, FailUnlessSet
<1>16. CASE Patch
  BY <1>16 DEF Patch, Did, FailSilently
<1>17. CASE Finalize \/ ExtractZip
  BY <1>17 DEF Finalize, ExtractZip, Did, FailSilently
<1>18. CASE Out
  BY <1>18 DEF Out, Release
<1>19. CASE Rescan
  BY <1>19 DEF Rescan
<1>20. CASE Restore
  BY <1>20 DEF Restore
<1>21. CASE Ended \/ UNCHANGED vars
  BY <1>21 DEF Ended, vars
<1> QED
  BY <1>1, <1>2, <1>3, <1>4, <1>5, <1>6, <1>7, <1>8, <1>9, <1>10, <1>11, <1>12,
     <1>13, <1>14, <1>15, <1>16, <1>17, <1>18, <1>19, <1>20, <1>21 DEF Next,
     Thread

\* Every step keeps the types of the histories.
LEMMA SetsStep == IInv /\ [Next]_vars => Sets'
<1> SUFFICES ASSUME IInv, [Next]_vars PROVE Sets'
  OBVIOUS
<1> USE DEF IInv, Typed, Sets, Stages, handles, mounts, flags, history
<1>1. CASE UserCancel
  BY <1>1 DEF UserCancel
<1>2. CASE Open \/ RemoveLetters \/ Reopen
  BY <1>2 DEF Open, Fail, RemoveLetters, Reopen
<1>3. CASE DeletePartitions
  BY <1>3 DEF DeletePartitions, Did, DeleteFails
<1>4. CASE LockVolume
  BY <1>4 DEF LockVolume, CheckForUserCancel, Fail
<1>5. CASE Zero \/ WriteImage
  BY <1>5 DEF Zero, WriteDrive, FailUnlessSet, FailSilently, Complete, Did,
     WriteImage
<1>6. CASE Clear \/ Cycle
  BY <1>6 DEF Clear, Did, Fail, RetryClear, AfterClear, AfterCheck, Cycle
<1>7. CASE NoLogFile \/ BadBlocksFails \/ BadBlocksRetry \/ BadBlocks
  BY <1>7 DEF NoLogFile, FailSilently, BadBlocksFails, FailUnlessSet,
     BadBlocksRetry, BadBlocks, Did, AfterCheck
<1>8. CASE CreatePartition
  BY <1>8 DEF CreatePartition, Did, Fail, CloseVolume
<1>9. CASE WaitForVolume
  BY <1>9 DEF WaitForVolume, CheckForUserCancel, Fail, FailUnlessSet
<1>10. CASE FormatPersistence \/ Format
  BY <1>10 DEF FormatPersistence, Did, FailUnlessSet, Format
<1>11. CASE Regain \/ WriteMBR
  BY <1>11 DEF Regain, Fail, WriteMBR, Did, FailUnlessSet
<1>12. CASE Mount \/ Mounted
  BY <1>12 DEF Mount, Fail, Mounted, CheckForUserCancel
<1>13. CASE Boot
  BY <1>13 DEF Boot, CheckForUserCancel, InstallSyslinux, Did, Fail, WritePBR,
     FailUnlessSet
<1>14. CASE Remount
  BY <1>14 DEF Remount, CheckForUserCancel, Fail
<1>15. CASE CopyFiles
  BY <1>15 DEF CopyFiles, Did, FailSilently, Extract, FailUnlessSet
<1>16. CASE Patch
  BY <1>16 DEF Patch, Did, FailSilently
<1>17. CASE Finalize \/ ExtractZip
  BY <1>17 DEF Finalize, ExtractZip, Did, FailSilently
<1>18. CASE Out
  BY <1>18 DEF Out, Release
<1>19. CASE Rescan
  BY <1>19 DEF Rescan
<1>20. CASE Restore
  BY <1>20 DEF Restore
<1>21. CASE Ended \/ UNCHANGED vars
  BY <1>21 DEF Ended, vars
<1> QED
  BY <1>1, <1>2, <1>3, <1>4, <1>5, <1>6, <1>7, <1>8, <1>9, <1>10, <1>11, <1>12,
     <1>13, <1>14, <1>15, <1>16, <1>17, <1>18, <1>19, <1>20, <1>21 DEF Next,
     Thread

\* Every stage is one that the options lead to.
LEMMA LedStep == IInv /\ [Next]_vars => Led'
<1> SUFFICES ASSUME IInv, [Next]_vars PROVE Led'
  OBVIOUS
<1> USE DEF IInv, Typed, Kept, Led, Written, Points, AfterCheck, Opening,
     Clearing, Formatting, Booting, Copying, Closing, Ending, handles, mounts,
     flags, history
<1>1. CASE UserCancel
  BY <1>1 DEF UserCancel
<1>2. CASE Open \/ RemoveLetters \/ Reopen
  BY <1>2 DEF Open, Fail, RemoveLetters, Reopen
<1>3. CASE DeletePartitions
  BY <1>3 DEF DeletePartitions, Did, DeleteFails
<1>4. CASE LockVolume
  BY <1>4 DEF LockVolume, CheckForUserCancel, Fail
<1>5. CASE Zero \/ WriteImage
  BY <1>5 DEF Zero, WriteDrive, FailUnlessSet, FailSilently, Complete, Did,
     WriteImage
<1>6. CASE Clear \/ Cycle
  BY <1>6 DEF Clear, Did, Fail, RetryClear, AfterClear, AfterCheck, Cycle
<1>7. CASE NoLogFile \/ BadBlocksFails \/ BadBlocksRetry \/ BadBlocks
  BY <1>7 DEF NoLogFile, FailSilently, BadBlocksFails, FailUnlessSet,
     BadBlocksRetry, BadBlocks, Did, AfterCheck
<1>8. CASE CreatePartition
  BY <1>8 DEF CreatePartition, Did, Fail, CloseVolume
<1>9. CASE WaitForVolume
  BY <1>9 DEF WaitForVolume, CheckForUserCancel, Fail, FailUnlessSet
<1>10. CASE FormatPersistence \/ Format
  BY <1>10 DEF FormatPersistence, Did, FailUnlessSet, Format
<1>11. CASE Regain \/ WriteMBR
  BY <1>11 DEF Regain, Fail, WriteMBR, Did, FailUnlessSet
<1>12. CASE Mount \/ Mounted
  BY <1>12 DEF Mount, Fail, Mounted, CheckForUserCancel
<1>13. CASE Boot
  BY <1>13 DEF Boot, CheckForUserCancel, InstallSyslinux, Did, Fail, WritePBR,
     FailUnlessSet
<1>14. CASE Remount
  BY <1>14 DEF Remount, CheckForUserCancel, Fail
<1>15. CASE CopyFiles
  BY <1>15 DEF CopyFiles, Did, FailSilently, Extract, FailUnlessSet
<1>16. CASE Patch
  BY <1>16 DEF Patch, Did, FailSilently
<1>17. CASE Finalize \/ ExtractZip
  BY <1>17 DEF Finalize, ExtractZip, Did, FailSilently
<1>18. CASE Out
  BY <1>18 DEF Out, Release
<1>19. CASE Rescan
  BY <1>19 DEF Rescan
<1>20. CASE Restore
  BY <1>20 DEF Restore
<1>21. CASE Ended \/ UNCHANGED vars
  BY <1>21 DEF Ended, vars
<1> QED
  BY <1>1, <1>2, <1>3, <1>4, <1>5, <1>6, <1>7, <1>8, <1>9, <1>10, <1>11, <1>12,
     <1>13, <1>14, <1>15, <1>16, <1>17, <1>18, <1>19, <1>20, <1>21 DEF Next,
     Thread

\* Every step hands the handles that it should have to the next stage.
LEMMA HeldStep == IInv /\ [Next]_vars => Held'
<1> SUFFICES ASSUME IInv, [Next]_vars PROVE Held'
  OBVIOUS
<1> USE DEF IInv, Typed, Kept, Points, Led, Held, must_unlock_physical, Opening,
     Clearing, Formatting, Booting, Copying, Closing, Ending, handles, mounts,
     flags, history
<1>1. CASE UserCancel
  BY <1>1 DEF UserCancel
<1>2. CASE Open \/ RemoveLetters \/ Reopen
  BY <1>2 DEF Open, Fail, RemoveLetters, Reopen
<1>3. CASE DeletePartitions
  BY <1>3 DEF DeletePartitions, Did, DeleteFails
<1>4. CASE LockVolume
  BY <1>4 DEF LockVolume, CheckForUserCancel, Fail
<1>5. CASE Zero \/ WriteImage
  BY <1>5 DEF Zero, WriteDrive, FailUnlessSet, FailSilently, Complete, Did,
     WriteImage
<1>6. CASE Clear \/ Cycle
  BY <1>6 DEF Clear, Did, Fail, RetryClear, AfterClear, AfterCheck, Cycle
<1>7. CASE NoLogFile \/ BadBlocksFails \/ BadBlocksRetry \/ BadBlocks
  BY <1>7 DEF NoLogFile, FailSilently, BadBlocksFails, FailUnlessSet,
     BadBlocksRetry, BadBlocks, Did, AfterCheck
<1>8. CASE CreatePartition
  BY <1>8 DEF CreatePartition, Did, Fail, CloseVolume
<1>9. CASE WaitForVolume
  BY <1>9 DEF WaitForVolume, CheckForUserCancel, Fail, FailUnlessSet
<1>10. CASE FormatPersistence \/ Format
  BY <1>10 DEF FormatPersistence, Did, FailUnlessSet, Format
<1>11. CASE Regain \/ WriteMBR
  BY <1>11 DEF Regain, Fail, WriteMBR, Did, FailUnlessSet
<1>12. CASE Mount \/ Mounted
  BY <1>12 DEF Mount, Fail, Mounted, CheckForUserCancel
<1>13. CASE Boot
  BY <1>13 DEF Boot, CheckForUserCancel, InstallSyslinux, Did, Fail, WritePBR,
     FailUnlessSet
<1>14. CASE Remount
  BY <1>14 DEF Remount, CheckForUserCancel, Fail
<1>15. CASE CopyFiles
  BY <1>15 DEF CopyFiles, Did, FailSilently, Extract, FailUnlessSet
<1>16. CASE Patch
  BY <1>16 DEF Patch, Did, FailSilently
<1>17. CASE Finalize \/ ExtractZip
  BY <1>17 DEF Finalize, ExtractZip, Did, FailSilently
<1>18. CASE Out
  BY <1>18 DEF Out, Release
<1>19. CASE Rescan
  BY <1>19 DEF Rescan
<1>20. CASE Restore
  BY <1>20 DEF Restore
<1>21. CASE Ended \/ UNCHANGED vars
  BY <1>21 DEF Ended, vars
<1> QED
  BY <1>1, <1>2, <1>3, <1>4, <1>5, <1>6, <1>7, <1>8, <1>9, <1>10, <1>11, <1>12,
     <1>13, <1>14, <1>15, <1>16, <1>17, <1>18, <1>19, <1>20, <1>21 DEF Next,
     Thread

\* A stage that fails with an error leaves the thread.
LEMMA ErrorStep == IInv /\ [Next]_vars => Error'
<1> SUFFICES ASSUME IInv, [Next]_vars PROVE Error'
  OBVIOUS
<1> USE DEF IInv, Typed, Kept, Points, Error, Opening, Clearing, Formatting,
     Booting, Copying, Closing, Ending, handles, mounts, flags, history
<1>1. CASE UserCancel
  BY <1>1 DEF UserCancel
<1>2. CASE Open \/ RemoveLetters \/ Reopen
  BY <1>2 DEF Open, Fail, RemoveLetters, Reopen
<1>3. CASE DeletePartitions
  BY <1>3 DEF DeletePartitions, Did, DeleteFails
<1>4. CASE LockVolume
  BY <1>4 DEF LockVolume, CheckForUserCancel, Fail
<1>5. CASE Zero \/ WriteImage
  BY <1>5 DEF Zero, WriteDrive, FailUnlessSet, FailSilently, Complete, Did,
     WriteImage
<1>6. CASE Clear \/ Cycle
  BY <1>6 DEF Clear, Did, Fail, RetryClear, AfterClear, AfterCheck, Cycle
<1>7. CASE NoLogFile \/ BadBlocksFails \/ BadBlocksRetry \/ BadBlocks
  BY <1>7 DEF NoLogFile, FailSilently, BadBlocksFails, FailUnlessSet,
     BadBlocksRetry, BadBlocks, Did, AfterCheck
<1>8. CASE CreatePartition
  BY <1>8 DEF CreatePartition, Did, Fail, CloseVolume
<1>9. CASE WaitForVolume
  BY <1>9 DEF WaitForVolume, CheckForUserCancel, Fail, FailUnlessSet
<1>10. CASE FormatPersistence \/ Format
  BY <1>10 DEF FormatPersistence, Did, FailUnlessSet, Format
<1>11. CASE Regain \/ WriteMBR
  BY <1>11 DEF Regain, Fail, WriteMBR, Did, FailUnlessSet
<1>12. CASE Mount \/ Mounted
  BY <1>12 DEF Mount, Fail, Mounted, CheckForUserCancel
<1>13. CASE Boot
  BY <1>13 DEF Boot, CheckForUserCancel, InstallSyslinux, Did, Fail, WritePBR,
     FailUnlessSet
<1>14. CASE Remount
  BY <1>14 DEF Remount, CheckForUserCancel, Fail
<1>15. CASE CopyFiles
  BY <1>15 DEF CopyFiles, Did, FailSilently, Extract, FailUnlessSet
<1>16. CASE Patch
  BY <1>16 DEF Patch, Did, FailSilently
<1>17. CASE Finalize \/ ExtractZip
  BY <1>17 DEF Finalize, ExtractZip, Did, FailSilently
<1>18. CASE Out
  BY <1>18 DEF Out, Release
<1>19. CASE Rescan
  BY <1>19 DEF Rescan
<1>20. CASE Restore
  BY <1>20 DEF Restore
<1>21. CASE Ended \/ UNCHANGED vars
  BY <1>21 DEF Ended, vars
<1> QED
  BY <1>1, <1>2, <1>3, <1>4, <1>5, <1>6, <1>7, <1>8, <1>9, <1>10, <1>11, <1>12,
     <1>13, <1>14, <1>15, <1>16, <1>17, <1>18, <1>19, <1>20, <1>21 DEF Next,
     Thread

\* No stage is left out that the options ask for.
LEMMA ProgressStep == IInv /\ [Next]_vars => Progress'
<1> SUFFICES ASSUME IInv, [Next]_vars PROVE Progress'
  OBVIOUS
<1> USE DEF IInv, Typed, Kept, Points, Led, Error, Progress, AfterClearing,
     AfterFormat, Required, If, Written, Extracted, Opening, Clearing,
     Formatting, Booting, Copying, Closing, Ending, handles, mounts, flags,
     history
<1>1. CASE UserCancel
  BY <1>1 DEF UserCancel
<1>2. CASE Open \/ RemoveLetters \/ Reopen
  BY <1>2 DEF Open, Fail, RemoveLetters, Reopen
<1>3. CASE DeletePartitions
  BY <1>3 DEF DeletePartitions, Did, DeleteFails
<1>4. CASE LockVolume
  BY <1>4 DEF LockVolume, CheckForUserCancel, Fail
<1>5. CASE Zero \/ WriteImage
  BY <1>5 DEF Zero, WriteDrive, FailUnlessSet, FailSilently, Complete, Did,
     WriteImage
<1>6. CASE Clear \/ Cycle
  BY <1>6 DEF Clear, Did, Fail, RetryClear, AfterClear, AfterCheck, Cycle
<1>7. CASE NoLogFile \/ BadBlocksFails \/ BadBlocksRetry \/ BadBlocks
  BY <1>7 DEF NoLogFile, FailSilently, BadBlocksFails, FailUnlessSet,
     BadBlocksRetry, BadBlocks, Did, AfterCheck
<1>8. CASE CreatePartition
  BY <1>8 DEF CreatePartition, Did, Fail, CloseVolume
<1>9. CASE WaitForVolume
  BY <1>9 DEF WaitForVolume, CheckForUserCancel, Fail, FailUnlessSet
<1>10. CASE FormatPersistence \/ Format
  BY <1>10 DEF FormatPersistence, Did, FailUnlessSet, Format
<1>11. CASE Regain \/ WriteMBR
  BY <1>11 DEF Regain, Fail, WriteMBR, Did, FailUnlessSet
<1>12. CASE Mount \/ Mounted
  BY <1>12 DEF Mount, Fail, Mounted, CheckForUserCancel
<1>13. CASE Boot
  BY <1>13 DEF Boot, CheckForUserCancel, InstallSyslinux, Did, Fail, WritePBR,
     FailUnlessSet
<1>14. CASE Remount
  BY <1>14 DEF Remount, CheckForUserCancel, Fail
<1>15. CASE CopyFiles
  BY <1>15 DEF CopyFiles, Did, FailSilently, Extract, FailUnlessSet
<1>16. CASE Patch
  BY <1>16 DEF Patch, Did, FailSilently
<1>17. CASE Finalize \/ ExtractZip
  BY <1>17 DEF Finalize, ExtractZip, Did, FailSilently
<1>18. CASE Out
  BY <1>18 DEF Out, Release
<1>19. CASE Rescan
  BY <1>19 DEF Rescan
<1>20. CASE Restore
  BY <1>20 DEF Restore
<1>21. CASE Ended \/ UNCHANGED vars
  BY <1>21 DEF Ended, vars
<1> QED
  BY <1>1, <1>2, <1>3, <1>4, <1>5, <1>6, <1>7, <1>8, <1>9, <1>10, <1>11, <1>12,
     <1>13, <1>14, <1>15, <1>16, <1>17, <1>18, <1>19, <1>20, <1>21 DEF Next,
     Thread

\* A drive that was formatted has its letter, or an error is reported.
LEMMA LetteredStep == IInv /\ [Next]_vars => Lettered'
<1> SUFFICES ASSUME IInv, [Next]_vars PROVE Lettered'
  OBVIOUS
<1> USE DEF IInv, Typed, Kept, Points, Led, Error, Lettered, AfterFormat, Opening,
     Clearing, Formatting, Booting, Copying, Closing, Ending, handles, mounts,
     flags, history
<1>1. CASE UserCancel
  BY <1>1 DEF UserCancel
<1>2. CASE Open \/ RemoveLetters \/ Reopen
  BY <1>2 DEF Open, Fail, RemoveLetters, Reopen
<1>3. CASE DeletePartitions
  BY <1>3 DEF DeletePartitions, Did, DeleteFails
<1>4. CASE LockVolume
  BY <1>4 DEF LockVolume, CheckForUserCancel, Fail
<1>5. CASE Zero \/ WriteImage
  BY <1>5 DEF Zero, WriteDrive, FailUnlessSet, FailSilently, Complete, Did,
     WriteImage
<1>6. CASE Clear \/ Cycle
  BY <1>6 DEF Clear, Did, Fail, RetryClear, AfterClear, AfterCheck, Cycle
<1>7. CASE NoLogFile \/ BadBlocksFails \/ BadBlocksRetry \/ BadBlocks
  BY <1>7 DEF NoLogFile, FailSilently, BadBlocksFails, FailUnlessSet,
     BadBlocksRetry, BadBlocks, Did, AfterCheck
<1>8. CASE CreatePartition
  BY <1>8 DEF CreatePartition, Did, Fail, CloseVolume
<1>9. CASE WaitForVolume
  BY <1>9 DEF WaitForVolume, CheckForUserCancel, Fail, FailUnlessSet
<1>10. CASE FormatPersistence \/ Format
  BY <1>10 DEF FormatPersistence, Did, FailUnlessSet, Format
<1>11. CASE Regain \/ WriteMBR
  BY <1>11 DEF Regain, Fail, WriteMBR, Did, FailUnlessSet
<1>12. CASE Mount \/ Mounted
  BY <1>12 DEF Mount, Fail, Mounted, CheckForUserCancel
<1>13. CASE Boot
  BY <1>13 DEF Boot, CheckForUserCancel, InstallSyslinux, Did, Fail, WritePBR,
     FailUnlessSet
<1>14. CASE Remount
  BY <1>14 DEF Remount, CheckForUserCancel, Fail
<1>15. CASE CopyFiles
  BY <1>15 DEF CopyFiles, Did, FailSilently, Extract, FailUnlessSet
<1>16. CASE Patch
  BY <1>16 DEF Patch, Did, FailSilently
<1>17. CASE Finalize \/ ExtractZip
  BY <1>17 DEF Finalize, ExtractZip, Did, FailSilently
<1>18. CASE Out
  BY <1>18 DEF Out, Release
<1>19. CASE Rescan
  BY <1>19 DEF Rescan
<1>20. CASE Restore
  BY <1>20 DEF Restore
<1>21. CASE Ended \/ UNCHANGED vars
  BY <1>21 DEF Ended, vars
<1> QED
  BY <1>1, <1>2, <1>3, <1>4, <1>5, <1>6, <1>7, <1>8, <1>9, <1>10, <1>11, <1>12,
     <1>13, <1>14, <1>15, <1>16, <1>17, <1>18, <1>19, <1>20, <1>21 DEF Next,
     Thread

\* No step forgets a cancellation, or does more after it than it may.
LEMMA NoticedStep == IInv /\ [Next]_vars => Noticed'
<1> SUFFICES ASSUME IInv, [Next]_vars PROVE Noticed'
  OBVIOUS
<1> USE DEF IInv, Typed, Kept, Points, Led, Error, Noticed, LateAtLast, If,
     Opening, Clearing, Formatting, Booting, Copying, Closing, Ending, handles,
     mounts, flags, history
<1>1. CASE UserCancel
  BY <1>1 DEF UserCancel
<1>2. CASE Open \/ RemoveLetters \/ Reopen
  BY <1>2 DEF Open, Fail, RemoveLetters, Reopen
<1>3. CASE DeletePartitions
  <2>1. CASE Did("delete") /\ UNCHANGED <<ErrorStatus, need_logical>>
    BY <1>3, <2>1 DEF DeletePartitions, Did
  <2>2. CASE DeleteFails
    <3> SUFFICES ASSUME cancelled', ~forgotten' PROVE FALSE
      BY <1>3, <2>2 DEF DeletePartitions, DeleteFails
    <3>1. cancelled /\ ~forgotten /\ ErrorStatus # "cancelled"
      BY <2>2, Zenon DEF DeleteFails
    <3> QED
      BY <1>3, <3>1 DEF DeletePartitions
  <2> QED
    BY <1>3, <2>1, <2>2 DEF DeletePartitions
<1>4. CASE LockVolume
  BY <1>4 DEF LockVolume, CheckForUserCancel, Fail
<1>5. CASE Zero \/ WriteImage
  BY <1>5 DEF Zero, WriteDrive, FailUnlessSet, FailSilently, Complete, Did,
     WriteImage
<1>6. CASE Clear \/ Cycle
  BY <1>6 DEF Clear, Did, Fail, RetryClear, AfterClear, AfterCheck, Cycle
<1>7. CASE NoLogFile \/ BadBlocksFails \/ BadBlocksRetry \/ BadBlocks
  BY <1>7 DEF NoLogFile, FailSilently, BadBlocksFails, FailUnlessSet,
     BadBlocksRetry, BadBlocks, Did, AfterCheck
<1>8. CASE CreatePartition
  BY <1>8 DEF CreatePartition, Did, Fail, CloseVolume
<1>9. CASE WaitForVolume
  BY <1>9 DEF WaitForVolume, CheckForUserCancel, Fail, FailUnlessSet
<1>10. CASE FormatPersistence \/ Format
  BY <1>10 DEF FormatPersistence, Did, FailUnlessSet, Format
<1>11. CASE Regain \/ WriteMBR
  BY <1>11 DEF Regain, Fail, WriteMBR, Did, FailUnlessSet
<1>12. CASE Mount \/ Mounted
  BY <1>12 DEF Mount, Fail, Mounted, CheckForUserCancel
<1>13. CASE Boot
  BY <1>13 DEF Boot, CheckForUserCancel, InstallSyslinux, Did, Fail, WritePBR,
     FailUnlessSet
<1>14. CASE Remount
  BY <1>14 DEF Remount, CheckForUserCancel, Fail
<1>15. CASE CopyFiles
  BY <1>15 DEF CopyFiles, Did, FailSilently, Extract, FailUnlessSet
<1>16. CASE Patch
  BY <1>16 DEF Patch, Did, FailSilently
<1>17. CASE Finalize \/ ExtractZip
  BY <1>17 DEF Finalize, ExtractZip, Did, FailSilently
<1>18. CASE Out
  BY <1>18 DEF Out, Release
<1>19. CASE Rescan
  BY <1>19 DEF Rescan
<1>20. CASE Restore
  BY <1>20 DEF Restore
<1>21. CASE Ended \/ UNCHANGED vars
  BY <1>21 DEF Ended, vars
<1> QED
  BY <1>1, <1>2, <1>3, <1>4, <1>5, <1>6, <1>7, <1>8, <1>9, <1>10, <1>11, <1>12,
     <1>13, <1>14, <1>15, <1>16, <1>17, <1>18, <1>19, <1>20, <1>21 DEF Next,
     Thread

LEMMA Invariance == Spec => []IInv
<1>1. IInv /\ [Next]_vars => IInv'
  BY FlagsStep, KeptStep, SetsStep, LedStep, HeldStep, ErrorStep, ProgressStep,
     LetteredStep, NoticedStep DEF IInv, Typed
<1> QED
  BY <1>1, InitLemma, PTL DEF Spec

\* The types of the state of the thread.
THEOREM TypeCorrect == Spec => []TypeOK
<1>1. IInv => TypeOK
  BY DEF IInv, Typed, Flags, Kept, Sets, Points, Opening, Clearing, Formatting,
         Booting, Copying, Closing, Ending, Stages, TypeOK
<1> QED
  BY <1>1, Invariance, PTL

\* Wherever the thread goes out, it ends with no handle open and no letter of its
\* own defined.
THEOREM HandlesAreReleased == Spec => []HandlesReleased
<1>1. IInv => HandlesReleased
  BY DEF IInv, Held, Ending, HandlesReleased
<1> QED
  BY <1>1, Invariance, PTL

\* With every combination of options, and whatever has failed before, every stage
\* of the thread has the handles that it needs and none that is in its way.
THEOREM EveryStageHasItsHandles == Spec => []HandlesFitTheStage
<1>1. IInv => HandlesFitTheStage
  <2> SUFFICES ASSUME IInv PROVE HandlesFitTheStage
    OBVIOUS
  <2> USE DEF IInv, Led, Held, Opening, Clearing, Formatting, Booting, Copying, Closing
  <2>1. NoHandleInTheWay
    BY DEF NoHandleInTheWay
  <2>2. WritesHaveAHandle
    BY DEF WritesHaveAHandle
  <2>3. OldVolumeIsHeld
    BY DEF OldVolumeIsHeld
  <2> QED
    BY <2>1, <2>2, <2>3 DEF HandlesFitTheStage
<1> QED
  BY <1>1, Invariance, PTL

\* A thread that ends without an ErrorStatus has done all that the options ask
\* for, unless a stage has failed that only logs its failure.
THEOREM SuccessHasDoneAll == Spec => []SuccessIsComplete
<1>1. IInv => SuccessIsComplete
  BY DEF IInv, Progress, Lettered, Ending, Success, SuccessIsComplete
<1> QED
  BY <1>1, Invariance, PTL

\* A cancellation stops the thread at the next test for it, and is not reported
\* as a success, unless the deletion of the partitions resets ErrorStatus.
THEOREM CancellationIsSeen == Spec => []CancelIsSeen
<1>1. IInv => CancelIsSeen
  <2> SUFFICES ASSUME IInv, cancelled, ~forgotten
               PROVE  ~Success /\ LateAtLast
    BY DEF CancelIsSeen, LateAtLast
  <2>1. ~Success
    BY DEF IInv, Noticed, Success
  <2>2. LateAtLast
    BY DEF IInv, Typed, Kept, Points, Noticed, Opening, Clearing, Formatting, Booting,
           Copying, Closing, LateAtLast
  <2> QED
    BY <2>1, <2>2
<1> QED
  BY <1>1, Invariance, PTL

-----------------------------------------------------------------------------
(***************************************************************************)
(* The bad blocks check, which is a stage of the thread, for drives of any *)
(* size with any defects, and any number of passes.                        *)
(*                                                                         *)
(* Its list is searched by halves and filled block by block: what this     *)
(* computes is shown by induction on the length of the part of the list    *)
(* that is left (SearchFinds) or of the transfer (ComparedAdds).  The      *)
(* inductive invariant CheckInv says that what a pass has written is on    *)
(* the drive, or a later block is stored over it (WrittenIsThere), but not *)
(* both (Overwritten); that the block has shown its defect once it was     *)
(* written and read (FoundAll); and that the list is in order and agrees   *)
(* with the numbers (GoodFound).                                           *)
(***************************************************************************)

-----------------------------------------------------------------------------
(* Induction *)

Order == {ss \in Nat \X Nat : ss[1] < ss[2]}

\* A set of natural numbers has a least element.
LEMMA Least ==
    ASSUME NEW T \in SUBSET Nat, T # {}
    PROVE  \E x \in T : \A y \in T : x <= y
<1>1. IsWellFoundedOn(Order, Nat)
  BY NatLessThanWellFounded DEF OpToRel, Order
<1>2. PICK x \in T : \A y \in T : ~(<<y, x>> \in Order)
  BY <1>1, WFMin, Zenon
<1>3. \A y \in T : ~(y < x)
  BY <1>2 DEF Order
<1>4. QED
  BY <1>3

\* What holds for 0, and for n + 1 if it does for n, holds for all numbers.
LEMMA Induction ==
    ASSUME NEW S, 0 \in S, \A n \in Nat : n \in S => n + 1 \in S
    PROVE  Nat \subseteq S
<1> SUFFICES ASSUME Nat \ S # {} PROVE FALSE
  OBVIOUS
<1>1. PICK x \in Nat \ S : \A y \in Nat \ S : x <= y
  BY Least
<1>2. x # 0 /\ x - 1 \in Nat /\ (x - 1) + 1 = x /\ ~(x <= x - 1)
  BY <1>1
<1>3. x - 1 \in S
  BY <1>1, <1>2
<1>4. QED
  BY <1>1, <1>2, <1>3

-----------------------------------------------------------------------------
(* The list of bad blocks *)

Sorted(list) == \A j, k \in 1 .. Len(list) : j < k => list[j] < list[k]

Elements(list) == {list[k] : k \in 1 .. Len(list)}

\* A list of blocks is a list of numbers.
LEMMA ListOfNat ==
    ASSUME NEW B \in SUBSET Nat, NEW list \in Seq(B)
    PROVE  list \in Seq(Nat)
<1> DEFINE n == Len(list)
<1>1. n \in Nat /\ list \in [1 .. n -> B]
  OBVIOUS
<1> HIDE DEF n
<1>2. list \in [1 .. n -> Nat]
  BY <1>1
<1>3. QED
  BY <1>1, <1>2

\* The body of the loop, and the pairs that are at most n apart.
Halve(search, list, blk, r) ==
    LET mid == (r[1] + r[2]) \div 2
    IN  /\ mid \notin {r[1], r[2]}
        /\ \/ blk = list[mid]
           \/ search[IF blk < list[mid] THEN <<r[1], mid>> ELSE <<mid, r[2]>>]

Pairs(list) == (1 .. Len(list)) \X (1 .. Len(list))

Near(list, n) == {r \in Pairs(list) : r[1] - r[2] < n /\ r[2] - r[1] < n}

\* The middle of two numbers is one of them, or between them.
LEMMA Middle ==
    ASSUME NEW a \in Nat, NEW b \in Nat, NEW mid, mid = (a + b) \div 2
    PROVE  /\ mid \in Nat
           /\ mid # a /\ mid # b => (a < mid /\ mid < b) \/ (b < mid /\ mid < a)
           /\ mid = a \/ mid = b => (b - a < 2)
<1>1. mid \in Int /\ mid * 2 <= a + b /\ a + b < mid * 2 + 2
  OBVIOUS
<1>2. mid >= 0
  BY <1>1
<1>3. QED
  BY <1>1, <1>2

\* Either half is shorter.
LEMMA Halves ==
    ASSUME NEW a \in Nat, NEW b \in Nat, NEW mid \in Nat, NEW n \in Nat,
           a < mid, mid < b, b - a < n + 1
    PROVE  /\ a <= mid /\ mid - a < n /\ mid <= b /\ b - mid < n
           /\ a - mid < n /\ mid - b < n
  OBVIOUS

\* Neighbours have nothing between them.
LEMMA Neighbours ==
    ASSUME NEW a \in Nat, NEW b \in Nat, b - a < 2
    PROVE  ~ \E k \in a + 1 .. b - 1 : TRUE
  OBVIOUS

\* What is in a half is in the whole.
LEMMA HalvesWithin ==
    ASSUME NEW a \in Nat, NEW b \in Nat, NEW mid \in Nat, NEW len \in Nat,
           1 <= a, b <= len, a < mid, mid < b
    PROVE  /\ mid \in 1 .. len
           /\ mid \in a + 1 .. b - 1
           /\ \A k \in a + 1 .. b - 1 : k \in 1 .. len
           /\ \A k \in a + 1 .. mid - 1 : k \in a + 1 .. b - 1
           /\ \A k \in mid + 1 .. b - 1 : k \in a + 1 .. b - 1
  OBVIOUS

\* The middle, and the halves, are of the list and shorter.
LEMMA MidBetween ==
    ASSUME NEW list \in Seq(Nat), NEW n \in Nat, NEW r \in Near(list, n + 1),
           NEW mid, mid = (r[1] + r[2]) \div 2, mid \notin {r[1], r[2]}
    PROVE  /\ mid \in 1 .. Len(list)
           /\ <<r[1], mid>> \in Near(list, n)
           /\ <<mid, r[2]>> \in Near(list, n)
<1>0. Len(list) \in Nat
  OBVIOUS
<1>1. /\ r[1] \in 1 .. Len(list) /\ r[2] \in 1 .. Len(list)
      /\ r[1] - r[2] < n + 1 /\ r[2] - r[1] < n + 1
  BY DEF Near, Pairs
<1>2. PICK a, b \in Nat : a = r[1] /\ b = r[2]
  BY <1>0, <1>1
<1>3. mid = (a + b) \div 2 /\ mid # a /\ mid # b
  BY <1>2
<1>4. mid \in Nat /\ ((a < mid /\ mid < b) \/ (b < mid /\ mid < a))
  BY <1>3, Middle
<1>5. a \in 1 .. Len(list) /\ b \in 1 .. Len(list) /\ a - b < n + 1 /\ b - a < n + 1
  BY <1>1, <1>2
<1>6. /\ mid \in 1 .. Len(list)
      /\ a - mid < n /\ mid - a < n /\ mid - b < n /\ b - mid < n
  <2>0. mid \in Nat /\ n \in Nat /\ a \in Nat /\ b \in Nat /\ b - a < n + 1 /\ a - b < n + 1
    BY <1>4, <1>5
  <2>1. CASE a < mid /\ mid < b
    <3>1. a - mid < n /\ mid - a < n /\ mid - b < n /\ b - mid < n
      BY <2>0, <2>1, Halves
    <3>2. mid \in 1 .. Len(list)
      BY <1>0, <1>5, <2>0, <2>1
    <3>3. QED
      BY <3>1, <3>2
  <2>2. CASE b < mid /\ mid < a
    <3>1. a - mid < n /\ mid - a < n /\ mid - b < n /\ b - mid < n
      BY <2>0, <2>2, Halves
    <3>2. mid \in 1 .. Len(list)
      BY <1>0, <1>5, <2>0, <2>2
    <3>3. QED
      BY <3>1, <3>2
  <2>3. QED
    BY <1>4, <2>1, <2>2
<1>7. QED
  BY <1>2, <1>5, <1>6 DEF Near, Pairs

\* The recursion is sound: the loop ends.
LEMMA SearchDefined ==
    ASSUME NEW list \in Seq(Nat), NEW blk
    PROVE  Check!Search(list, blk) = [r \in Pairs(list) |-> Halve(Check!Search(list, blk), list, blk, r)]
<1> DEFINE S == {n \in Nat : \E g : g = [r \in Near(list, n) |-> Halve(g, list, blk, r)]}
<1>1. 0 \in S
  <2>1. Near(list, 0) = {}
    BY DEF Near, Pairs
  <2> DEFINE g == [r \in {} |-> FALSE]
  <2>2. g = [r \in Near(list, 0) |-> Halve(g, list, blk, r)]
    BY <2>1
  <2>3. QED
    BY <2>2, Zenon
<1>2. ASSUME NEW n \in Nat, n \in S PROVE n + 1 \in S
  <2>1. PICK g : g = [r \in Near(list, n) |-> Halve(g, list, blk, r)]
    BY <1>2
  <2> DEFINE h == [r \in Near(list, n + 1) |-> Halve(g, list, blk, r)]
  <2>2. \A r \in Near(list, n) : r \in Near(list, n + 1)
    BY DEF Near, Pairs
  <2>3. \A r \in Near(list, n) : h[r] = g[r]
    BY <2>1, <2>2
  <2>4. ASSUME NEW r \in Near(list, n + 1) PROVE Halve(h, list, blk, r) = Halve(g, list, blk, r)
    <3> DEFINE mid == (r[1] + r[2]) \div 2
    <3>1. CASE mid \in {r[1], r[2]}
      BY <3>1, Zenon DEF Halve
    <3>2. CASE mid \notin {r[1], r[2]}
      <4> DEFINE q == IF blk < list[mid] THEN <<r[1], mid>> ELSE <<mid, r[2]>>
      <4>1. q \in Near(list, n)
        BY <3>2, MidBetween
      <4>2. h[q] = g[q]
        BY <2>3, <4>1
      <4> HIDE DEF h
      <4>3. QED
        BY <4>2, Zenon DEF Halve
    <3>3. QED
      BY <3>1, <3>2
  <2>5. h = [r \in Near(list, n + 1) |-> Halve(h, list, blk, r)]
    BY <2>4
  <2>6. n + 1 \in Nat
    OBVIOUS
  <2>7. QED
    BY <2>5, <2>6, Zenon
<1>3. Len(list) \in S
  <2> HIDE DEF S
  <2>1. Nat \subseteq S
    BY <1>1, <1>2, Induction
  <2>2. QED
    BY <2>1
<1>4. Near(list, Len(list)) = Pairs(list)
  BY DEF Near, Pairs
<1>5. PICK g : g = [r \in Pairs(list) |-> Halve(g, list, blk, r)]
  BY <1>3, <1>4
<1>6. QED
  BY <1>5, Zenon DEF Check!Search, Halve, Pairs

\* In a list that is in order, the loop finds what is between low and high.
LEMMA SearchFinds ==
    ASSUME NEW list \in Seq(Nat), Sorted(list), NEW blk \in Nat
    PROVE  \A r \in Pairs(list) : r[1] <= r[2] =>
               (Check!Search(list, blk)[r] <=> \E k \in r[1] + 1 .. r[2] - 1 : list[k] = blk)
<1> DEFINE f == Check!Search(list, blk)
           In(r) == \E k \in r[1] + 1 .. r[2] - 1 : list[k] = blk
           S == {n \in Nat : \A r \in Pairs(list) :
                                r[1] <= r[2] /\ r[2] - r[1] < n => (f[r] <=> In(r))}
<1>0. Len(list) \in Nat
  OBVIOUS
<1>1. \A r \in Pairs(list) : f[r] = Halve(f, list, blk, r)
  BY SearchDefined, Zenon
<1> HIDE DEF f
<1>2. 0 \in S
  BY <1>0 DEF Pairs
<1>3. ASSUME NEW n \in Nat, n \in S PROVE n + 1 \in S
  <2>1. SUFFICES ASSUME NEW r \in Pairs(list), r[1] <= r[2], r[2] - r[1] < n + 1
                 PROVE  f[r] <=> In(r)
    OBVIOUS
  <2>2. PICK a, b \in Nat : /\ a = r[1] /\ b = r[2] /\ a \in 1 .. Len(list) /\ b \in 1 .. Len(list)
                            /\ a <= b /\ b - a < n + 1
    BY <1>0, <2>1 DEF Pairs
  <2> DEFINE mid == (r[1] + r[2]) \div 2
  <2>3. mid = (a + b) \div 2
    BY <2>2
  <2> HIDE DEF mid
  <2>4. /\ mid \in Nat
        /\ mid # a /\ mid # b => a < mid /\ mid < b
        /\ mid = a \/ mid = b => b - a < 2
    <3>0. \A m : m = (a + b) \div 2 =>
              /\ m \in Nat
              /\ m # a /\ m # b => (a < m /\ m < b) \/ (b < m /\ m < a)
              /\ m = a \/ m = b => b - a < 2
      BY Middle
    <3>1. /\ mid \in Nat
          /\ mid # a /\ mid # b => (a < mid /\ mid < b) \/ (b < mid /\ mid < a)
          /\ mid = a \/ mid = b => b - a < 2
      BY <2>3, <3>0
    <3>2. QED
      BY <2>2, <3>1
  <2>5. f[r] <=> /\ mid # a /\ mid # b
                 /\ \/ blk = list[mid]
                    \/ f[IF blk < list[mid] THEN <<a, mid>> ELSE <<mid, b>>]
    <3>1. f[r] <=> /\ mid \notin {a, b}
                   /\ \/ blk = list[mid]
                      \/ f[IF blk < list[mid] THEN <<a, mid>> ELSE <<mid, b>>]
      BY <1>1, <2>2, Zenon DEF Halve, mid
    <3>2. QED
      BY <3>1, Zenon
  <2>6. In(r) <=> \E k \in a + 1 .. b - 1 : list[k] = blk
    BY <2>2
  <2> HIDE DEF In
  <2>7. CASE mid = a \/ mid = b
    <3>1. b - a < 2
      BY <2>4, <2>7
    <3>2. ~ \E k \in a + 1 .. b - 1 : TRUE
      BY <3>1, Neighbours
    <3>3. QED
      BY <2>5, <2>6, <2>7, <3>2
  <2>8. CASE mid # a /\ mid # b
    <3>0. a < mid /\ mid < b
      BY <2>4, <2>8
    <3>1. /\ mid \in 1 .. Len(list) /\ mid \in a + 1 .. b - 1
          /\ \A k \in a + 1 .. b - 1 : k \in 1 .. Len(list)
          /\ \A k \in a + 1 .. mid - 1 : k \in a + 1 .. b - 1
          /\ \A k \in mid + 1 .. b - 1 : k \in a + 1 .. b - 1
      <4>1. mid \in Nat /\ 1 <= a /\ b <= Len(list)
        BY <2>2, <2>4
      <4>2. QED
        BY <1>0, <3>0, <4>1, HalvesWithin
    <3>half. a <= mid /\ mid - a < n /\ mid <= b /\ b - mid < n
      <4>1. b - a < n + 1 /\ a < mid /\ mid < b /\ mid \in Nat
        BY <2>2, <2>4, <3>0
      <4>2. QED
        BY <4>1, Halves, Zenon
    <3>2. CASE blk = list[mid]
      BY <2>5, <2>6, <2>8, <3>1, <3>2
    <3>3. CASE blk # list[mid] /\ blk < list[mid]
      <4>1. f[r] <=> f[<<a, mid>>]
        BY <2>5, <2>8, <3>3
      <4>2. f[<<a, mid>>] <=> \E k \in a + 1 .. mid - 1 : list[k] = blk
        <5>1. <<a, mid>> \in Pairs(list) /\ a <= mid /\ mid - a < n
          BY <2>2, <3>1, <3>half DEF Pairs
        <5>2. QED
          BY <1>3, <5>1 DEF In
      <4>3. ASSUME NEW k \in a + 1 .. b - 1, list[k] = blk PROVE k \in a + 1 .. mid - 1
        <5>1. k \in 1 .. Len(list) /\ ~(mid < k) /\ mid # k
          <6>1. k \in 1 .. Len(list)
            BY <3>1
          <6>2. list[k] \in Nat /\ list[mid] \in Nat
            BY <3>1, <6>1
          <6>3. ~(list[mid] < list[k]) /\ list[mid] # list[k]
            BY <3>3, <4>3, <6>2
          <6>4. QED
            BY <3>1, <6>1, <6>3 DEF Sorted
        <5>2. QED
          BY <2>2, <2>4, <5>1
      <4>4. \A k \in a + 1 .. mid - 1 : k \in a + 1 .. b - 1
        BY <3>1
      <4>5. QED
        BY <2>6, <4>1, <4>2, <4>3, <4>4
    <3>4. CASE blk # list[mid] /\ ~(blk < list[mid])
      <4>1. f[r] <=> f[<<mid, b>>]
        BY <2>5, <2>8, <3>4
      <4>2. f[<<mid, b>>] <=> \E k \in mid + 1 .. b - 1 : list[k] = blk
        <5>1. <<mid, b>> \in Pairs(list) /\ mid <= b /\ b - mid < n
          BY <2>2, <3>1, <3>half DEF Pairs
        <5>2. QED
          BY <1>3, <5>1 DEF In
      <4>3. ASSUME NEW k \in a + 1 .. b - 1, list[k] = blk PROVE k \in mid + 1 .. b - 1
        <5>1. k \in 1 .. Len(list) /\ ~(k < mid) /\ mid # k
          <6>1. k \in 1 .. Len(list)
            BY <3>1
          <6>2. list[k] \in Nat /\ list[mid] \in Nat
            BY <3>1, <6>1
          <6>3. ~(list[k] < list[mid]) /\ list[mid] # list[k]
            BY <3>4, <4>3, <6>2
          <6>4. QED
            BY <3>1, <6>1, <6>3 DEF Sorted
        <5>2. QED
          BY <2>2, <2>4, <5>1
      <4>4. \A k \in mid + 1 .. b - 1 : k \in a + 1 .. b - 1
        BY <3>1
      <4>5. QED
        BY <2>6, <4>1, <4>2, <4>3, <4>4
    <3>5. QED
      BY <3>2, <3>3, <3>4
  <2>9. QED
    BY <2>7, <2>8
<1>4. Nat \subseteq S
  <2> HIDE DEF S
  <2>1. QED
    BY <1>2, <1>3, Induction
<1>5. Len(list) \in S
  BY <1>0, <1>4
<1>6. \A r \in Pairs(list) : r[2] - r[1] < Len(list)
  BY <1>0 DEF Pairs
<1>7. QED
  BY <1>5, <1>6 DEF f

\* bb_u64_list_find() tells whether the block is on the list.
LEMMA FindIsMember ==
    ASSUME NEW list \in Seq(Nat), Sorted(list), NEW blk \in Nat
    PROVE  Check!bb_u64_list_find(list, blk) <=> blk \in Elements(list)
<1> DEFINE n == Len(list)
           f == Check!Search(list, blk)
<1>1. n \in Nat
  OBVIOUS
<1>2. CASE n = 0
  BY <1>2 DEF Check!bb_u64_list_find, Elements
<1>3. CASE n > 0
  <2>1. <<1, n>> \in Pairs(list)
    BY <1>1, <1>3 DEF Pairs
  <2>2. f[<<1, n>>] <=> \E k \in 1 + 1 .. n - 1 : list[k] = blk
    <3>1. <<1, n>>[1] = 1 /\ <<1, n>>[2] = n /\ 1 <= n
      BY <1>1, <1>3
    <3>2. \A r \in Pairs(list) : r[1] <= r[2] =>
               (f[r] <=> \E k \in r[1] + 1 .. r[2] - 1 : list[k] = blk)
      BY SearchFinds, Zenon
    <3> HIDE DEF n, f
    <3>3. QED
      BY <2>1, <3>1, <3>2
  <2>3. Check!bb_u64_list_find(list, blk) <=> (blk = list[1] \/ blk = list[n] \/ f[<<1, n>>])
    BY <1>3, Zenon DEF Check!bb_u64_list_find
  <2>4. 1 .. n = {1, n} \union (1 + 1 .. n - 1)
    BY <1>1, <1>3
  <2> HIDE DEF n, f
  <2>5. QED
    BY <2>2, <2>3, <2>4 DEF Elements, n
<1>4. QED
  BY <1>1, <1>2, <1>3
\* The place of a block in a list: before the first larger one.
Place(list, blk, j) ==
    /\ \A k \in 1 .. j - 1 : list[k] <= blk
    /\ j <= Len(list) => list[j] > blk

\* Every block has a place.
LEMMA HasPlace ==
    ASSUME NEW list \in Seq(Nat), NEW blk \in Nat
    PROVE  \E j \in 1 .. Len(list) + 1 : Place(list, blk, j)
<1> DEFINE n == Len(list)
           T == {j \in 1 .. n + 1 : j <= n => list[j] > blk}
<1>1. n \in Nat
  OBVIOUS
<1>2. n + 1 \in T /\ T \in SUBSET Nat
  BY <1>1
<1>3. PICK j \in T : \A i \in T : j <= i
  <2> HIDE DEF T
  <2>1. T # {}
    BY <1>2
  <2>2. QED
    BY <1>2, <2>1, Least
<1>4. ASSUME NEW k \in 1 .. j - 1 PROVE list[k] <= blk
  <2>1. k \in 1 .. n /\ k \notin T
    BY <1>1, <1>3
  <2>2. ~(list[k] > blk) /\ list[k] \in Nat
    BY <1>1, <2>1
  <2>3. QED
    BY <2>2
<1>5. QED
  BY <1>3, <1>4 DEF Place

\* bb_u64_list_add() puts the block there, and keeps the order.
LEMMA AddInserts ==
    ASSUME NEW B \in SUBSET Nat, NEW list \in Seq(B), Sorted(list),
           NEW blk \in B, blk \notin Elements(list)
    PROVE  LET new == Check!bb_u64_list_add(list, blk)
           IN  /\ new \in Seq(B)
               /\ Len(new) = Len(list) + 1
               /\ Sorted(new)
               /\ Elements(new) = Elements(list) \union {blk}
<1> DEFINE n == Len(list)
           j == CHOOSE j \in 1 .. n + 1 : Place(list, blk, j)
           new == [k \in 1 .. n + 1 |->
                      IF k < j THEN list[k] ELSE IF k = j THEN blk ELSE list[k - 1]]
<1>1. n \in Nat /\ list \in Seq(Nat) /\ blk \in Nat
  BY ListOfNat
<1>2. j \in 1 .. n + 1 /\ Place(list, blk, j)
  BY <1>1, HasPlace, Zenon
<1>3. Check!bb_u64_list_add(list, blk) = new
  BY Zenon DEF Check!bb_u64_list_add, Place
<1> HIDE DEF j, n
<1>4. new \in Seq(B) /\ Len(new) = n + 1
  <2>1. \A k \in 1 .. n + 1 : new[k] \in B
    BY <1>1, <1>2 DEF n
  <2>2. DOMAIN new = 1 .. n + 1 /\ n + 1 \in Nat
    BY <1>1
  <2> HIDE DEF new
  <2>3. new \in [1 .. n + 1 -> B]
    BY <2>1, <2>2, Zenon DEF new
  <2>4. QED
    BY <2>2, <2>3
<1>5. \A k \in 1 .. n : list[k] \in Nat /\ list[k] # blk
  BY <1>1 DEF Elements, n
<1>6. \A k \in 1 .. n : /\ k < j => list[k] < blk
                        /\ ~(k < j) => list[k] > blk
  <2>1. ASSUME NEW k \in 1 .. n, k < j PROVE list[k] < blk
    <3>1. list[k] <= blk /\ list[k] # blk /\ list[k] \in Nat
      BY <1>1, <1>2, <1>5, <2>1 DEF Place
    <3>2. QED
      BY <1>1, <3>1
  <2>2. ASSUME NEW k \in 1 .. n, ~(k < j) PROVE list[k] > blk
    <3>1. j <= n /\ j \in 1 .. n
      BY <1>1, <1>2, <2>2
    <3>2. list[j] > blk
      BY <1>2, <3>1 DEF Place, n
    <3>3. CASE k = j
      BY <3>2, <3>3
    <3>4. CASE k # j
      <4>1. j < k
        BY <1>1, <1>2, <2>2, <3>4
      <4>2. list[j] < list[k]
        BY <3>1, <4>1 DEF Sorted, n
      <4>3. list[j] \in Nat /\ list[k] \in Nat
        BY <1>5, <3>1
      <4>4. QED
        BY <1>1, <3>2, <4>2, <4>3
    <3>5. QED
      BY <3>3, <3>4
  <2>3. QED
    BY <2>1, <2>2
<1>7. Sorted(new)
  <2> SUFFICES ASSUME NEW x \in 1 .. n + 1, NEW y \in 1 .. n + 1, x < y PROVE new[x] < new[y]
    BY <1>4 DEF Sorted
  <2>1. /\ new[x] = IF x < j THEN list[x] ELSE IF x = j THEN blk ELSE list[x - 1]
        /\ new[y] = IF y < j THEN list[y] ELSE IF y = j THEN blk ELSE list[y - 1]
    OBVIOUS
  <2> HIDE DEF new
  <2>2. \A a, b \in 1 .. n : a < b => list[a] < list[b]
    BY DEF Sorted, n
  <2>3. CASE y < j
    <3>1. x < j /\ x \in 1 .. n /\ y \in 1 .. n
      BY <1>1, <1>2, <2>3
    <3>2. QED
      BY <2>1, <2>2, <2>3, <3>1
  <2>4. CASE y = j
    <3>1. x < j /\ x \in 1 .. n
      BY <1>1, <1>2, <2>4
    <3>2. ~(y < j)
      BY <1>1, <1>2, <2>4
    <3>3. QED
      BY <1>6, <2>1, <2>4, <3>1, <3>2
  <2>5. CASE j < y
    <3>0. ~(y < j) /\ y # j /\ y - 1 \in 1 .. n /\ ~(y - 1 < j)
      BY <1>1, <1>2, <2>5
    <3>1. CASE x < j
      <4>1. x \in 1 .. n /\ x < y - 1
        BY <1>1, <1>2, <2>5, <3>1
      <4>2. QED
        BY <2>1, <2>2, <3>0, <3>1, <4>1
    <3>2. CASE x = j
      <4>1. ~(x < j)
        BY <1>1, <1>2, <3>2
      <4>2. list[y - 1] > blk /\ list[y - 1] \in Nat
        BY <1>5, <1>6, <3>0
      <4>3. QED
        BY <1>1, <2>1, <3>0, <3>2, <4>1, <4>2
    <3>3. CASE j < x
      <4>1. ~(x < j) /\ x # j /\ x - 1 \in 1 .. n /\ x - 1 < y - 1
        BY <1>1, <1>2, <3>3
      <4>2. QED
        BY <2>1, <2>2, <3>0, <4>1
    <3>4. QED
      BY <1>1, <1>2, <3>1, <3>2, <3>3
  <2>6. QED
    BY <1>1, <1>2, <2>3, <2>4, <2>5
<1>8. Elements(new) = Elements(list) \union {blk}
  <2>1. \A k \in 1 .. n + 1 : new[k] \in Elements(list) \union {blk}
    <3> SUFFICES ASSUME NEW k \in 1 .. n + 1, k # j
                 PROVE  new[k] \in Elements(list)
      <4>1. new[j] = blk
        BY <1>1, <1>2
      <4> HIDE DEF new
      <4>2. QED
        BY <4>1
    <3>1. CASE k < j
      <4>1. k \in 1 .. n /\ new[k] = list[k]
        BY <1>1, <1>2, <3>1
      <4>2. QED
        BY <4>1 DEF Elements, n
    <3>2. CASE ~(k < j)
      <4>1. k - 1 \in 1 .. n /\ new[k] = list[k - 1]
        BY <1>1, <1>2, <3>2
      <4>2. QED
        BY <4>1 DEF Elements, n
    <3>3. QED
      BY <3>1, <3>2
  <2>2. blk \in Elements(new)
    <3>1. new[j] = blk
      BY <1>1, <1>2
    <3>2. QED
      BY <1>2, <1>4, <3>1 DEF Elements
  <2>3. \A k \in 1 .. n : list[k] \in Elements(new)
    <3> SUFFICES ASSUME NEW k \in 1 .. n PROVE list[k] \in Elements(new)
      OBVIOUS
    <3>1. CASE k < j
      <4>1. k \in 1 .. n + 1 /\ new[k] = list[k]
        BY <1>1, <1>2, <3>1
      <4> HIDE DEF new
      <4>2. QED
        BY <1>4, <4>1 DEF Elements
    <3>2. CASE ~(k < j)
      <4>1. k + 1 \in 1 .. n + 1 /\ new[k + 1] = list[k]
        BY <1>1, <1>2, <3>2
      <4> HIDE DEF new
      <4>2. QED
        BY <1>4, <4>1 DEF Elements
    <3>3. QED
      BY <3>1, <3>2
  <2> HIDE DEF new
  <2>4. QED
    BY <1>4, <2>1, <2>2, <2>3 DEF Elements, n
<1>9. QED
  BY <1>3, <1>4, <1>7, <1>8 DEF n
-----------------------------------------------------------------------------
(* What was found *)

Kinds == {"read", "write", "corruption"}

\* The list, the number of bad blocks and the numbers of errors agree.
GoodFound(f) ==
    /\ f.list \in Seq(Check!Blocks)
    /\ Sorted(f.list)
    /\ f.count = Len(f.list)
    /\ f.errors \in [Kinds -> Nat]
    /\ f.count = f.errors["read"] + f.errors["write"] + f.errors["corruption"]

\* Blocks are numbers.
LEMMA BlocksAreNat == Check!BadBlocksAssumption => Check!Blocks \in SUBSET Nat
  BY DEF Check!BadBlocksAssumption, Check!Blocks

\* bb_output() adds the block, if it is not on the list.
LEMMA OutputAdds ==
    ASSUME Check!BadBlocksAssumption, NEW f, GoodFound(f), NEW blk \in Check!Blocks, NEW kind \in Kinds
    PROVE  /\ GoodFound(Check!Output(f, blk, kind))
           /\ Elements(Check!Output(f, blk, kind).list) = Elements(f.list) \union {blk}
<1>1. Check!Blocks \in SUBSET Nat
  BY BlocksAreNat
<1>2. f.list \in Seq(Nat) /\ Sorted(f.list) /\ f.list \in Seq(Check!Blocks)
  BY <1>1, ListOfNat DEF GoodFound
<1>3. Check!bb_u64_list_find(f.list, blk) <=> blk \in Elements(f.list)
  BY <1>1, <1>2, FindIsMember
<1>4. CASE Check!bb_u64_list_find(f.list, blk)
  <2>1. Check!Output(f, blk, kind) = f
    BY <1>4 DEF Check!Output
  <2>2. QED
    BY <1>3, <1>4, <2>1
<1>5. CASE ~Check!bb_u64_list_find(f.list, blk)
  <2> DEFINE new == Check!bb_u64_list_add(f.list, blk)
             o == Check!Output(f, blk, kind)
  <2>1. o = [list   |-> new,
             count  |-> f.count + 1,
             errors |-> [f.errors EXCEPT ![kind] = @ + 1]]
    BY <1>5 DEF Check!Output
  <2>2. /\ new \in Seq(Check!Blocks)
        /\ Len(new) = Len(f.list) + 1
        /\ Sorted(new)
        /\ Elements(new) = Elements(f.list) \union {blk}
    BY <1>1, <1>2, <1>3, <1>5, AddInserts
  <2> HIDE DEF new, o
  <2>3. o.list = new /\ o.count = f.count + 1 /\ o.errors = [f.errors EXCEPT ![kind] = @ + 1]
    BY <2>1
  <2>4. o.errors \in [Kinds -> Nat]
    BY <2>3 DEF GoodFound, Kinds
  <2>5. o.count = o.errors["read"] + o.errors["write"] + o.errors["corruption"]
    <3>1. f.errors \in [Kinds -> Nat]
          /\ f.count = f.errors["read"] + f.errors["write"] + f.errors["corruption"]
      BY DEF GoodFound
    <3>2. CASE kind = "read"
      BY <2>3, <3>1, <3>2 DEF Kinds
    <3>3. CASE kind = "write"
      BY <2>3, <3>1, <3>3 DEF Kinds
    <3>4. CASE kind = "corruption"
      BY <2>3, <3>1, <3>4 DEF Kinds
    <3>5. QED
      BY <3>2, <3>3, <3>4 DEF Kinds
  <2>6. o.count = Len(o.list)
    BY <2>2, <2>3 DEF GoodFound
  <2>7. QED
    BY <2>2, <2>3, <2>4, <2>5, <2>6 DEF GoodFound, o
<1>6. QED
  BY <1>4, <1>5

\* The loop over the blocks of a transfer.
CompareOne(after, n) ==
    IF n = 0 THEN Check!Found
    ELSE LET b == currently_testing + n - 1
         IN  IF Check!Differs(b) THEN Check!Output(after[n - 1], b, "corruption") ELSE after[n - 1]

\* The recursion over the transfer is sound.
LEMMA ComparedDefined ==
    ASSUME NEW got \in Nat
    PROVE  \E g : /\ g = [n \in 0 .. got |-> CompareOne(g, n)]
                  /\ Check!Compared(got) = g[got]
<1> DEFINE S == {m \in Nat : \E g : g = [n \in 0 .. m |-> CompareOne(g, n)]}
<1>1. 0 \in S
  <2> DEFINE g == [n \in 0 .. 0 |-> Check!Found]
  <2>1. \A n \in 0 .. 0 : n = 0
    OBVIOUS
  <2>2. g = [n \in 0 .. 0 |-> CompareOne(g, n)]
    BY <2>1, Zenon DEF CompareOne
  <2>3. QED
    BY <2>2, Zenon
<1>2. ASSUME NEW m \in Nat, m \in S PROVE m + 1 \in S
  <2>1. PICK g : g = [n \in 0 .. m |-> CompareOne(g, n)]
    BY <1>2
  <2> DEFINE h == [n \in 0 .. m + 1 |-> CompareOne(g, n)]
  <2>2. \A n \in 0 .. m : h[n] = g[n]
    <3>1. \A n \in 0 .. m : n \in 0 .. m + 1
      OBVIOUS
    <3>2. QED
      BY <2>1, <3>1, Zenon
  <2>3. ASSUME NEW n \in 0 .. m + 1 PROVE CompareOne(h, n) = CompareOne(g, n)
    <3>1. CASE n = 0
      BY <3>1, Zenon DEF CompareOne
    <3>2. CASE n # 0
      <4>1. n - 1 \in 0 .. m
        BY <3>2
      <4>2. h[n - 1] = g[n - 1]
        BY <2>2, <4>1
      <4> HIDE DEF h
      <4>3. QED
        BY <3>2, <4>2, Zenon DEF CompareOne
    <3>3. QED
      BY <3>1, <3>2
  <2>4. h = [n \in 0 .. m + 1 |-> CompareOne(h, n)]
    BY <2>3, Zenon
  <2>5. m + 1 \in Nat
    OBVIOUS
  <2>6. QED
    BY <2>4, <2>5, Zenon
<1>3. got \in S
  <2> HIDE DEF S
  <2>1. Nat \subseteq S
    BY <1>1, <1>2, Induction
  <2>2. QED
    BY <2>1
<1>4. PICK g : g = [n \in 0 .. got |-> CompareOne(g, n)]
  BY <1>3
<1> DEFINE c == CHOOSE after : after = [n \in 0 .. got |-> CompareOne(after, n)]
<1>5. c = [n \in 0 .. got |-> CompareOne(c, n)]
  BY <1>4, Zenon
<1>6. Check!Compared(got) = c[got]
  BY Zenon DEF Check!Compared, CompareOne
<1> HIDE DEF c
<1>7. QED
  BY <1>5, <1>6, Zenon
\* The blocks that differ are added.
LEMMA ComparedAdds ==
    ASSUME Check!BadBlocksAssumption, GoodFound(Check!Found), NEW got \in Nat,
           currently_testing \in Nat, currently_testing + got <= last_block
    PROVE  /\ GoodFound(Check!Compared(got))
           /\ Elements(Check!Compared(got).list) =
                  Elements(bb_list)
                      \union {b \in currently_testing .. currently_testing + got - 1 : Check!Differs(b)}
<1>1. PICK g : g = [n \in 0 .. got |-> CompareOne(g, n)] /\ Check!Compared(got) = g[got]
  BY ComparedDefined
<1> DEFINE D(n) == {b \in currently_testing .. currently_testing + n - 1 : Check!Differs(b)}
           S == {n \in Nat : n <= got =>
                    /\ GoodFound(g[n])
                    /\ Elements(g[n].list) = Elements(bb_list) \union D(n)}
<1>2. 0 \in S
  <2>1. g[0] = Check!Found
    <3>1. 0 \in 0 .. got
      OBVIOUS
    <3>2. g[0] = CompareOne(g, 0)
      BY <1>1, <3>1, Zenon
    <3>3. QED
      BY <3>2 DEF CompareOne
  <2>2. D(0) = {}
    OBVIOUS
  <2>3. Check!Found.list = bb_list
    BY DEF Check!Found
  <2> HIDE DEF D
  <2>4. QED
    BY <2>1, <2>2, <2>3
<1>3. ASSUME NEW n \in Nat, n \in S PROVE n + 1 \in S
  <2> SUFFICES ASSUME n + 1 <= got
               PROVE  /\ GoodFound(g[n + 1])
                      /\ Elements(g[n + 1].list) = Elements(bb_list) \union D(n + 1)
    OBVIOUS
  <2> DEFINE b == currently_testing + n
  <2>1. /\ n + 1 \in 0 .. got /\ n <= got
        /\ n + 1 # 0 /\ currently_testing + (n + 1) - 1 = b /\ (n + 1) - 1 = n
    OBVIOUS
  <2>2. b \in Check!Blocks
    BY DEF Check!Blocks, Check!BadBlocksAssumption
  <2>3. g[n + 1] = IF Check!Differs(b) THEN Check!Output(g[n], b, "corruption") ELSE g[n]
    <3>1. g[n + 1] = CompareOne(g, n + 1)
      BY <1>1, <2>1, Zenon
    <3>2. QED
      BY <2>1, <3>1, Zenon DEF CompareOne
  <2>4. GoodFound(g[n]) /\ Elements(g[n].list) = Elements(bb_list) \union D(n)
    BY <1>3, <2>1
  <2>5. D(n + 1) = D(n) \union (IF Check!Differs(b) THEN {b} ELSE {})
    <3>1. currently_testing .. currently_testing + (n + 1) - 1
              = (currently_testing .. currently_testing + n - 1) \union {b}
      OBVIOUS
    <3>2. QED
      BY <3>1, Zenon
  <2> HIDE DEF D, b
  <2>6. CASE Check!Differs(b)
    <3>1. g[n + 1] = Check!Output(g[n], b, "corruption") /\ "corruption" \in Kinds
      BY <2>3, <2>6 DEF Kinds
    <3>2. /\ GoodFound(Check!Output(g[n], b, "corruption"))
          /\ Elements(Check!Output(g[n], b, "corruption").list) = Elements(g[n].list) \union {b}
      BY <2>2, <2>4, <3>1, OutputAdds
    <3>3. QED
      BY <2>4, <2>5, <2>6, <3>1, <3>2
  <2>7. CASE ~Check!Differs(b)
    BY <2>3, <2>4, <2>5, <2>7
  <2>8. QED
    BY <2>6, <2>7
<1>4. got \in S
  <2> HIDE DEF S
  <2>1. Nat \subseteq S
    BY <1>2, <1>3, Induction
  <2>2. QED
    BY <2>1
<1>5. got <= got
  OBVIOUS
<1>6. QED
  BY <1>1, <1>4, <1>5
-----------------------------------------------------------------------------
(* The invariant *)

CheckFlags ==
    cancel_ops \in BOOLEAN /\ ret \in BOOLEAN /\ detect_fakes \in BOOLEAN /\ large_drive \in BOOLEAN

CheckKept ==
    /\ media \in [Check!Blocks -> Check!Defects]
    /\ real_size \in 1 .. last_block
    /\ stored \in [Check!Blocks -> (0 .. nb_passes) \X (Check!Blocks \union {Check!None})]
    /\ check_pc \in {"start", "write", "read", "done"}
    /\ pat_idx \in 1 .. nb_passes
    /\ currently_testing \in 0 .. last_block
    /\ tryout \in 1 .. blocks_at_once
    /\ recover_block \in 0 .. Check!None
    /\ CheckStatus \in {"none", "cancelled"}
    /\ unchecked \subseteq Check!Blocks
    /\ refused \subseteq Check!Blocks
    /\ refused # {} => CheckStatus = "cancelled" \/ large_drive

\* A fake drive has no other defect.
Fake == real_size < last_block => \A b \in Check!Blocks : media[b] = "good"

\* The listed blocks are bad, or were refused.
Only == \A b \in Check!Listed : media[b] # "good" \/ Check!Lost(b) \/ b \in refused

\* This pass has written the block, or was refused it.
WrittenTo(b) == check_pc = "read" \/ (check_pc = "write" /\ b < currently_testing)

\* What was written is there, unless a later block was stored over it...
WrittenIsThere ==
    \A b \in Check!Blocks : WrittenTo(b) /\ media[b] # "write" /\ b \notin refused =>
        stored[Check!Cell(b)] = Check!Pattern(b) \/ Check!Lost(b)

\* ...and where it is there, no later block has been written.
Overwritten ==
    real_size < last_block /\ detect_fakes /\ pat_idx = 1 /\ check_pc # "done" =>
        \A b \in Check!Blocks : stored[Check!Cell(b)] = <<1, b>> =>
            \A d \in Check!Blocks : d > b /\ Check!Cell(d) = Check!Cell(b) =>
                ~WrittenTo(d) \/ d \in refused

\* Some pass has written, or read, the block: it has found its defect.
WasWritten(b) == pat_idx > 1 \/ WrittenTo(b) \/ (check_pc = "done" /\ ~cancel_ops)

WasRead(b) ==
    \/ pat_idx > 1
    \/ check_pc = "read" /\ b < currently_testing
    \/ check_pc = "done" /\ ~cancel_ops

Unreadable(b) == media[b] \in {"read", "corruption"} \/ Check!StoredOver(b)

FoundAll ==
    \A b \in Check!Blocks :
        /\ WasWritten(b) /\ media[b] = "write" => b \in Check!Listed
        /\ WasRead(b) /\ Unreadable(b) => b \in Check!Listed \union unchecked

CheckEnded ==
    /\ check_pc = "start" => currently_testing = 0
    /\ check_pc = "done" /\ ~cancel_ops => pat_idx = nb_passes /\ currently_testing = last_block
    /\ ret => check_pc = "done" /\ (bb_count # 0 \/ ~cancel_ops)

CheckInv ==
    /\ Check!BadBlocksAssumption
    /\ CheckFlags /\ CheckKept /\ GoodFound(Check!Found) /\ Fake
    /\ Only /\ WrittenIsThere /\ Overwritten /\ FoundAll /\ CheckEnded

-----------------------------------------------------------------------------
(* Transfers and cells *)

\* "currently_testing + tryout > last_block": a transfer stays on the drive.
LEMMA TransferOnDrive ==
    ASSUME Check!BadBlocksAssumption, CheckKept, currently_testing < last_block
    PROVE  /\ Check!Size \in 1 .. blocks_at_once
           /\ currently_testing + Check!Size <= last_block
           /\ Check!Transfer \subseteq Check!Blocks
           /\ \A b \in Check!Blocks : b \in Check!Transfer <=> currently_testing <= b /\ b < currently_testing + Check!Size
           /\ currently_testing \in Check!Transfer
<1>1. /\ currently_testing \in Nat /\ tryout \in 1 .. blocks_at_once
      /\ last_block \in Nat /\ blocks_at_once \in Nat
  BY DEF CheckKept, Check!BadBlocksAssumption
<1>2. Check!Size \in 1 .. blocks_at_once /\ currently_testing + Check!Size <= last_block
  BY <1>1 DEF Check!Size
<1>3. QED
  BY <1>1, <1>2 DEF Check!Transfer, Check!Blocks

\* A block is on the drive, wherever it is really stored...
LEMMA CellOnDrive ==
    ASSUME Check!BadBlocksAssumption, CheckKept, NEW b \in Check!Blocks
    PROVE  Check!Cell(b) \in Check!Blocks
<1>1. b \in Nat /\ real_size \in Nat \ {0} /\ real_size <= last_block /\ last_block \in Nat
  BY DEF CheckKept, Check!Blocks, Check!BadBlocksAssumption
<1>2. b % real_size \in Nat /\ b % real_size < real_size
  BY <1>1
<1>3. QED
  BY <1>1, <1>2 DEF Check!Cell, Check!Blocks

\* ...which is where it should be, unless the drive is fake.
LEMMA OwnCell ==
    ASSUME Check!BadBlocksAssumption, CheckKept, ~(real_size < last_block), NEW b \in Check!Blocks
    PROVE  Check!Cell(b) = b
<1>1. b \in Nat /\ real_size \in Nat \ {0} /\ b < real_size
  BY DEF CheckKept, Check!Blocks, Check!BadBlocksAssumption
<1> DEFINE q == b \div real_size
<1>2. /\ q \in Int /\ q * real_size <= b /\ b < q * real_size + real_size
      /\ b % real_size = b - q * real_size
  BY <1>1
<1> HIDE DEF q
<1>3. q = 0
  <2>1. ~(q >= 1)
    <3> SUFFICES ASSUME q >= 1 PROVE FALSE
      OBVIOUS
    <3>1. (q - 1) * real_size >= 0 /\ (q - 1) * real_size = q * real_size - real_size
      BY <1>1, <1>2
    <3>2. QED
      BY <1>1, <1>2, <3>1
  <2>2. ~(q <= -1)
    <3> SUFFICES ASSUME q <= -1 PROVE FALSE
      OBVIOUS
    <3>1. (q + 1) * real_size <= 0 /\ (q + 1) * real_size = q * real_size + real_size
      BY <1>1, <1>2
    <3>2. QED
      BY <1>1, <1>2, <3>1
  <2>3. QED
    BY <1>2, <2>1, <2>2
<1>4. QED
  BY <1>1, <1>2, <1>3 DEF Check!Cell

\* Only a fake drive loses blocks.
LEMMA LostIsFake ==
    ASSUME Check!BadBlocksAssumption, CheckKept, NEW b \in Check!Blocks, Check!Lost(b)
    PROVE  real_size < last_block
<1> SUFFICES ASSUME ~(real_size < last_block) PROVE FALSE
  OBVIOUS
<1>1. PICK d \in Check!Blocks : d > b /\ Check!Cell(d) = Check!Cell(b)
  BY DEF Check!Lost
<1>2. Check!Cell(d) = d /\ Check!Cell(b) = b
  BY OwnCell
<1>3. b \in Nat /\ d \in Nat
  BY BlocksAreNat
<1>4. d = b
  BY <1>1, <1>2, Zenon
<1>5. ~(d > b)
  BY <1>3, <1>4
<1>6. QED
  BY <1>1, <1>5

\* A set of numbers below a limit has a greatest element.
LEMMA Greatest ==
    ASSUME NEW n \in Nat, NEW T, \A x \in T : x \in Nat /\ x <= n, T # {}
    PROVE  \E x \in T : \A y \in T : y <= x
<1> DEFINE U == {m \in Nat : n - m \in T}
<1>1. PICK x \in T : TRUE
  OBVIOUS
<1>2. n - x \in U
  <2>1. n - x \in Nat /\ n - (n - x) = x
    BY <1>1
  <2>2. QED
    BY <1>1, <2>1
<1>3. PICK m \in U : \A k \in U : m <= k
  <2>1. U \in SUBSET Nat /\ U # {}
    BY <1>2
  <2> HIDE DEF U
  <2>2. QED
    BY <2>1, Least
<1>4. n - m \in T
  BY <1>3
<1>5. ASSUME NEW y \in T PROVE y <= n - m
  <2>1. y \in Nat /\ n - y \in Nat /\ n - (n - y) = y
    BY <1>5
  <2>2. n - y \in U
    BY <2>1
  <2>3. m <= n - y /\ m \in Nat
    BY <1>3, <2>2
  <2>4. QED
    BY <2>1, <2>3
<1>6. QED
  BY <1>4, <1>5

\* The last block of a transfer that is stored in a cell.
LEMMA LastInCell ==
    ASSUME Check!BadBlocksAssumption, CheckKept, currently_testing < last_block,
           NEW c, NEW b \in Check!Transfer, Check!Cell(b) = c
    PROVE  /\ Check!LastIn(c) \in Check!Transfer
           /\ Check!Cell(Check!LastIn(c)) = c
           /\ \A d \in Check!Transfer : Check!Cell(d) = c => d <= Check!LastIn(c)
<1> DEFINE T == {d \in Check!Transfer : Check!Cell(d) = c}
<1>1. Check!Transfer \subseteq Check!Blocks
  BY TransferOnDrive
<1>2. \A x \in T : x \in Nat /\ x <= last_block
  BY <1>1 DEF Check!Blocks, Check!BadBlocksAssumption
<1>3. last_block \in Nat /\ T # {}
  BY DEF Check!BadBlocksAssumption
<1>4. \E x \in T : \A y \in T : y <= x
  <2> HIDE DEF T
  <2>1. QED
    BY <1>2, <1>3, Greatest
<1>5. \E x \in Check!Transfer : Check!Cell(x) = c /\ \A d \in Check!Transfer : Check!Cell(d) = c => d <= x
  BY <1>4
<1>6. QED
  BY <1>5, Zenon DEF Check!LastIn
-----------------------------------------------------------------------------
(* Steps *)

\* What is on the drive, and what it has lost, does not depend on the check.
LEMMA SameDrive ==
    ASSUME UNCHANGED Check!drive
    PROVE  /\ media' = media /\ real_size' = real_size /\ detect_fakes' = detect_fakes
           /\ large_drive' = large_drive
           /\ \A b : Check!Cell(b)' = Check!Cell(b)
           /\ \A b : Check!Lost(b)' <=> Check!Lost(b)
           /\ refused \subseteq refused' => \A b : Unreadable(b)' => Unreadable(b)
           /\ Fake' <=> Fake
<1>1. media' = media /\ real_size' = real_size /\ detect_fakes' = detect_fakes /\ large_drive' = large_drive
  BY DEF Check!drive
<1>2. \A b : Check!Cell(b)' = Check!Cell(b)
  BY <1>1 DEF Check!Cell
<1>3. \A b : Check!Lost(b)' <=> Check!Lost(b)
  BY <1>1, <1>2 DEF Check!Lost
<1>4. refused \subseteq refused' => \A b : Check!StoredOver(b)' => Check!StoredOver(b)
  BY <1>1, <1>2 DEF Check!StoredOver
<1>5. refused \subseteq refused' => \A b : Unreadable(b)' => Unreadable(b)
  BY <1>1, <1>4 DEF Unreadable
<1>6. QED
  BY <1>1, <1>2, <1>3, <1>5 DEF Fake

\* The blocks that are added to the list are bad, or were refused.
LEMMA OnlyStep ==
    ASSUME UNCHANGED Check!drive, Only, refused \subseteq refused',
           \A b \in Check!Listed' :
               b \in Check!Listed \/ media[b] # "good" \/ Check!Lost(b) \/ b \in refused'
    PROVE  Only'
<1>1. /\ media' = media
      /\ \A b : Check!Lost(b)' <=> Check!Lost(b)
  BY SameDrive
<1>2. ASSUME NEW b \in Check!Listed' PROVE media[b] # "good" \/ Check!Lost(b) \/ b \in refused'
  BY DEF Only
<1>3. QED
  BY <1>1, <1>2 DEF Only

\* A block whose defect a step should have found has been found.
LEMMA FoundStep ==
    ASSUME UNCHANGED Check!drive, FoundAll, Check!Listed \subseteq Check!Listed', unchecked \subseteq unchecked',
           refused \subseteq refused',
           \A b \in Check!Blocks : WasWritten(b)' /\ media[b] = "write" => WasWritten(b) \/ b \in Check!Listed',
           \A b \in Check!Blocks : WasRead(b)' /\ Unreadable(b) =>
               WasRead(b) \/ b \in Check!Listed' \union unchecked'
    PROVE  FoundAll'
<1>1. /\ media' = media
      /\ \A b : Unreadable(b)' => Unreadable(b)
  BY SameDrive
<1>2. SUFFICES ASSUME NEW b \in Check!Blocks
               PROVE  /\ WasWritten(b)' /\ media[b] = "write" => b \in Check!Listed'
                      /\ WasRead(b)' /\ Unreadable(b) => b \in Check!Listed' \union unchecked'
  BY <1>1 DEF FoundAll
<1>3. QED
  BY DEF FoundAll

\* A step that writes nothing to the drive.
LEMMA StoredStep ==
    ASSUME UNCHANGED <<Check!drive, stored, pat_idx>>, WrittenIsThere, Overwritten, refused \subseteq refused',
           \A b \in Check!Blocks : WrittenTo(b)' /\ media[b] # "write" => WrittenTo(b) \/ b \in refused',
           real_size < last_block /\ check_pc' # "done" =>
               check_pc # "done" /\ \A b \in Check!Blocks : WrittenTo(b)' => WrittenTo(b) \/ b \in refused'
    PROVE  WrittenIsThere' /\ Overwritten'
<1>1. /\ media' = media /\ real_size' = real_size /\ detect_fakes' = detect_fakes
      /\ stored' = stored /\ pat_idx' = pat_idx
      /\ \A b : Check!Cell(b)' = Check!Cell(b)
      /\ \A b : Check!Lost(b)' <=> Check!Lost(b)
  BY SameDrive
<1>2. \A b : Check!Pattern(b)' = Check!Pattern(b)
  BY <1>1 DEF Check!Pattern
<1>3. WrittenIsThere'
  <2> SUFFICES ASSUME NEW b \in Check!Blocks, WrittenTo(b)', media[b] # "write", b \notin refused'
               PROVE  stored[Check!Cell(b)] = Check!Pattern(b) \/ Check!Lost(b)
    BY <1>1, <1>2 DEF WrittenIsThere
  <2>1. QED
    BY DEF WrittenIsThere
<1>4. Overwritten'
  <2> SUFFICES ASSUME real_size < last_block, detect_fakes, pat_idx = 1, check_pc' # "done",
                      NEW b \in Check!Blocks, stored[Check!Cell(b)] = <<1, b>>
               PROVE  \A d \in Check!Blocks : d > b /\ Check!Cell(d) = Check!Cell(b) =>
                          ~WrittenTo(d)' \/ d \in refused'
    BY <1>1 DEF Overwritten
  <2>1. QED
    BY DEF Overwritten
<1>5. QED
  BY <1>3, <1>4

\* What a step sets is what it has found.
LEMMA FoundSet ==
    ASSUME NEW f, GoodFound(f), Check!SetFound(f)
    PROVE  GoodFound(Check!Found)' /\ Check!Listed' = Elements(f.list) /\ bb_list' = f.list
<1>1. bb_list' = f.list /\ bb_count' = f.count /\ errors' = f.errors
  BY DEF Check!SetFound
<1>2. Check!Found'.list = bb_list' /\ Check!Found'.count = bb_count' /\ Check!Found'.errors = errors'
  BY DEF Check!Found
<1>3. QED
  BY <1>1, <1>2 DEF GoodFound, Sorted, Check!Listed, Elements

\* How far a transfer gets.
LEMMA RecoverTypes ==
    ASSUME Check!BadBlocksAssumption, CheckKept, currently_testing < last_block,
           NEW got \in 0 .. Check!Size, Check!Recover(got, Check!Size)
    PROVE  /\ tryout' \in 1 .. blocks_at_once
           /\ recover_block' \in 0 .. Check!None
           /\ Check!NextBlock(got, Check!Size) \in 0 .. last_block
<1>1. Check!Size \in 1 .. blocks_at_once /\ currently_testing + Check!Size <= last_block
  BY TransferOnDrive
<1>2. currently_testing \in Nat /\ blocks_at_once \in Nat \ {0} /\ last_block \in Nat
      /\ recover_block \in 0 .. Check!None /\ Check!None = last_block + blocks_at_once + 1
  BY DEF CheckKept, Check!BadBlocksAssumption, Check!None
<1>3. /\ Check!NextBlock(got, Check!Size) \in 0 .. last_block
      /\ Check!NextBlock(got, Check!Size) - got \in 0 .. last_block
  BY <1>1, <1>2 DEF Check!NextBlock
<1>4. tryout' \in {1, blocks_at_once, Check!Size}
  BY DEF Check!Recover
<1>5. recover_block' \in {recover_block, Check!None, Check!NextBlock(got, Check!Size) - got + blocks_at_once}
  BY DEF Check!Recover
<1>6. QED
  BY <1>1, <1>2, <1>3, <1>4, <1>5
\* Before the check nothing was written, read or found.
LEMMA CheckInit == Check!BadBlocksAssumption /\ Check!Init => CheckInv
<1> SUFFICES ASSUME Check!BadBlocksAssumption, Check!Init PROVE CheckInv
  OBVIOUS
<1>1. CheckFlags
  BY Zenon DEF Check!Init, CheckFlags
<1>2. /\ last_block \in Nat \ {0} /\ blocks_at_once \in Nat \ {0} /\ nb_passes \in Nat \ {0}
      /\ Check!None = last_block + blocks_at_once + 1
  BY DEF Check!BadBlocksAssumption, Check!None
<1>3. CheckKept
  <2>1. stored \in [Check!Blocks -> (0 .. nb_passes) \X (Check!Blocks \union {Check!None})]
    <3>1. 0 \in 0 .. nb_passes
      BY <1>2
    <3>2. stored = [b \in Check!Blocks |-> <<0, Check!None>>]
      BY DEF Check!Init
    <3>3. QED
      BY <3>1, <3>2
  <2>2. QED
    BY <1>2, <2>1 DEF Check!Init, CheckKept
<1>4. bb_list = <<>> /\ Check!Listed = {}
  BY DEF Check!Init, Check!Listed
<1>5. GoodFound(Check!Found)
  BY <1>4 DEF Check!Init, Check!Found, GoodFound, Sorted, Kinds
<1>6. Fake /\ Only
  BY <1>4 DEF Check!Init, Fake, Only
<1>7. WrittenIsThere /\ CheckEnded
  BY DEF Check!Init, WrittenIsThere, WrittenTo, CheckEnded
<1>8. Overwritten
  <2> SUFFICES ASSUME NEW b \in Check!Blocks, stored[Check!Cell(b)] = <<1, b>> PROVE FALSE
    BY DEF Overwritten
  <2>1. Check!Cell(b) \in Check!Blocks
    BY <1>3, CellOnDrive
  <2>2. stored[Check!Cell(b)] = <<0, Check!None>>
    BY <2>1 DEF Check!Init
  <2>3. QED
    BY <2>2
<1>9. FoundAll
  BY DEF Check!Init, FoundAll, WasWritten, WasRead, WrittenTo
<1>10. QED
  BY <1>1, <1>3, <1>5, <1>6, <1>7, <1>8, <1>9 DEF CheckInv

\* Start: the first pass begins at the first block, or there is no memory.
LEMMA StartInv == CheckInv /\ Check!Start => CheckInv'
<1> SUFFICES ASSUME CheckInv, Check!Start PROVE CheckInv'
  OBVIOUS
<1>1. /\ check_pc = "start" /\ currently_testing = 0
      /\ UNCHANGED <<Check!drive, stored, pat_idx, currently_testing, tryout, recover_block, Check!found,
                     CheckStatus, Check!history>>
  BY DEF Check!Start, CheckInv, CheckEnded
<1>2. /\ UNCHANGED Check!drive /\ bb_list' = bb_list /\ bb_count' = bb_count /\ errors' = errors
      /\ unchecked' = unchecked /\ refused' = refused
  BY <1>1 DEF Check!found, Check!history
<1>3. \/ check_pc' = "write" /\ cancel_ops' = cancel_ops /\ ret' = ret
      \/ check_pc' = "done" /\ cancel_ops' = TRUE /\ (ret' <=> bb_count # 0)
  BY DEF Check!Start, Check!Return
<1>4. \A b \in Check!Blocks : ~WrittenTo(b)' /\ ~WrittenTo(b)
  BY <1>1, <1>3, BlocksAreNat DEF WrittenTo, CheckInv
<1>5. \A b \in Check!Blocks : (WasWritten(b)' => WasWritten(b)) /\ (WasRead(b)' => WasRead(b))
  <2>1. ~(check_pc' = "done" /\ ~cancel_ops') /\ pat_idx' = pat_idx /\ check_pc' # "read"
    BY <1>1, <1>3
  <2>2. QED
    BY <1>4, <2>1 DEF WasWritten, WasRead
<1>6. Check!Listed' = Check!Listed
  BY <1>2 DEF Check!Listed
<1>7. CheckFlags'
  <2>1. detect_fakes' = detect_fakes /\ large_drive' = large_drive
    BY <1>2 DEF Check!drive
  <2>2. QED
    BY <2>1, Zenon DEF Check!Start, Check!Return, CheckInv, CheckFlags
<1>8. CheckKept'
  BY <1>1, <1>2, <1>3 DEF CheckInv, CheckKept, Check!drive
<1>9. GoodFound(Check!Found)'
  BY <1>2 DEF CheckInv, GoodFound, Check!Found, Sorted
<1>10. Fake'
  BY <1>2, SameDrive DEF CheckInv
<1>11. Only'
  BY <1>2, <1>6, OnlyStep DEF CheckInv
<1>12. WrittenIsThere' /\ Overwritten'
  BY <1>1, <1>2, <1>4, StoredStep DEF CheckInv
<1>13. FoundAll'
  BY <1>1, <1>2, <1>5, <1>6, FoundStep DEF CheckInv
<1>14. CheckEnded'
  BY <1>1, <1>2, <1>3 DEF CheckInv, CheckEnded
<1>15. QED
  BY <1>7, <1>8, <1>9, <1>10, <1>11, <1>12, <1>13, <1>14 DEF CheckInv, Check!BadBlocksAssumption

\* Interrupted: the check is over, and is known not to be complete.
LEMMA InterruptedInv == CheckInv /\ Check!Interrupted => CheckInv'
<1> SUFFICES ASSUME CheckInv, Check!Interrupted PROVE CheckInv'
  OBVIOUS
<1>1. /\ check_pc \in {"write", "read"}
      /\ UNCHANGED <<Check!drive, stored, pat_idx, currently_testing, tryout, recover_block, Check!found,
                     CheckStatus, Check!history>>
      /\ check_pc' = "done" /\ cancel_ops' = TRUE /\ (ret' <=> bb_count # 0)
  BY DEF Check!Interrupted, Check!Return
<1>2. /\ UNCHANGED Check!drive /\ bb_list' = bb_list /\ bb_count' = bb_count /\ errors' = errors
      /\ unchecked' = unchecked /\ refused' = refused
  BY <1>1 DEF Check!found, Check!history
<1>3. \A b \in Check!Blocks : ~WrittenTo(b)'
  BY <1>1 DEF WrittenTo
<1>4. \A b \in Check!Blocks : (WasWritten(b)' => WasWritten(b)) /\ (WasRead(b)' => WasRead(b))
  BY <1>1, <1>3 DEF WasWritten, WasRead
<1>5. Check!Listed' = Check!Listed
  BY <1>2 DEF Check!Listed
<1>6. CheckFlags'
  <2>1. detect_fakes' = detect_fakes /\ large_drive' = large_drive
    BY <1>2 DEF Check!drive
  <2>2. QED
    BY <2>1, Zenon DEF Check!Interrupted, Check!Return, CheckInv, CheckFlags
<1>7. CheckKept'
  BY <1>1, <1>2 DEF CheckInv, CheckKept, Check!drive
<1>8. GoodFound(Check!Found)'
  BY <1>2 DEF CheckInv, GoodFound, Check!Found, Sorted
<1>9. Fake'
  BY <1>2, SameDrive DEF CheckInv
<1>10. Only'
  BY <1>2, <1>5, OnlyStep DEF CheckInv
<1>11. WrittenIsThere' /\ Overwritten'
  BY <1>1, <1>2, <1>3, StoredStep DEF CheckInv
<1>12. FoundAll'
  BY <1>1, <1>2, <1>4, <1>5, FoundStep DEF CheckInv
<1>13. CheckEnded'
  BY <1>1, <1>2 DEF CheckInv, CheckEnded
<1>14. QED
  BY <1>6, <1>7, <1>8, <1>9, <1>10, <1>11, <1>12, <1>13 DEF CheckInv, Check!BadBlocksAssumption

\* StartReading: everything was written, and nothing is stored over it from here on.
LEMMA StartReadingInv == CheckInv /\ Check!StartReading => CheckInv'
<1> SUFFICES ASSUME CheckInv, Check!StartReading PROVE CheckInv'
  OBVIOUS
<1>1. /\ check_pc = "write" /\ currently_testing = last_block
      /\ check_pc' = "read" /\ currently_testing' = 0 /\ tryout' = blocks_at_once
      /\ UNCHANGED <<Check!drive, stored, pat_idx, recover_block, Check!found, cancel_ops, CheckStatus, ret,
                     Check!history>>
  BY DEF Check!StartReading
<1>2. /\ UNCHANGED Check!drive /\ bb_list' = bb_list /\ bb_count' = bb_count /\ errors' = errors
      /\ unchecked' = unchecked /\ refused' = refused
  BY <1>1 DEF Check!found, Check!history
<1>3. last_block \in Nat /\ blocks_at_once \in Nat \ {0}
  BY DEF CheckInv, Check!BadBlocksAssumption
<1>4. \A b \in Check!Blocks : WrittenTo(b)' /\ WrittenTo(b)
  BY <1>1, <1>3 DEF WrittenTo, Check!Blocks
<1>5. \A b \in Check!Blocks : WasWritten(b) /\ (WasRead(b)' => WasRead(b))
  BY <1>1, <1>3, <1>4 DEF WasWritten, WasRead, Check!Blocks
<1>6. Check!Listed' = Check!Listed
  BY <1>2 DEF Check!Listed
<1>7. CheckFlags'
  <2>1. detect_fakes' = detect_fakes /\ large_drive' = large_drive
    BY <1>2 DEF Check!drive
  <2>2. QED
    BY <1>1, <2>1, Zenon DEF CheckInv, CheckFlags
<1>8. CheckKept'
  BY <1>1, <1>2, <1>3 DEF CheckInv, CheckKept, Check!drive
<1>9. GoodFound(Check!Found)'
  BY <1>2 DEF CheckInv, GoodFound, Check!Found, Sorted
<1>10. Fake'
  BY <1>2, SameDrive DEF CheckInv
<1>11. Only'
  BY <1>2, <1>6, OnlyStep DEF CheckInv
<1>12. WrittenIsThere' /\ Overwritten'
  BY <1>1, <1>2, <1>4, StoredStep DEF CheckInv
<1>13. FoundAll'
  BY <1>1, <1>2, <1>5, <1>6, FoundStep DEF CheckInv
<1>14. CheckEnded'
  BY <1>1, <1>2 DEF CheckInv, CheckEnded
<1>15. QED
  BY <1>7, <1>8, <1>9, <1>10, <1>11, <1>12, <1>13, <1>14 DEF CheckInv, Check!BadBlocksAssumption
\* NextPass: all blocks were written and read, so that no defect is left.
LEMMA NextPassInv == CheckInv /\ Check!NextPass => CheckInv'
<1> SUFFICES ASSUME CheckInv, Check!NextPass PROVE CheckInv'
  OBVIOUS
<1>1. /\ check_pc = "read" /\ currently_testing = last_block
      /\ UNCHANGED <<Check!drive, stored, recover_block, Check!found, CheckStatus, Check!history>>
  BY DEF Check!NextPass
<1>2. /\ UNCHANGED Check!drive /\ bb_list' = bb_list /\ bb_count' = bb_count /\ errors' = errors
      /\ unchecked' = unchecked /\ refused' = refused
  BY <1>1 DEF Check!found, Check!history
<1>3. /\ last_block \in Nat /\ blocks_at_once \in Nat \ {0} /\ nb_passes \in Nat
      /\ pat_idx \in 1 .. nb_passes
  BY DEF CheckInv, Check!BadBlocksAssumption, CheckKept
<1>4. \/ /\ pat_idx < nb_passes /\ pat_idx' = pat_idx + 1 /\ check_pc' = "write"
         /\ currently_testing' = 0 /\ tryout' = blocks_at_once /\ UNCHANGED <<cancel_ops, ret>>
      \/ /\ pat_idx = nb_passes \/ cancel_ops
         /\ check_pc' = "done" /\ cancel_ops' = cancel_ops /\ (ret' <=> ~(cancel_ops /\ bb_count = 0))
         /\ UNCHANGED <<pat_idx, currently_testing, tryout>>
  <2>1. CASE pat_idx < nb_passes /\ ~cancel_ops
    BY <2>1 DEF Check!NextPass
  <2>2. CASE ~(pat_idx < nb_passes /\ ~cancel_ops)
    <3>1. Check!Return(cancel_ops) /\ UNCHANGED <<pat_idx, currently_testing, tryout>>
      BY <2>2 DEF Check!NextPass
    <3>2. pat_idx = nb_passes \/ cancel_ops
      BY <1>3, <2>2
    <3>3. QED
      BY <3>1, <3>2 DEF Check!Return
  <2>3. QED
    BY <2>1, <2>2
<1>5. \A b \in Check!Blocks : ~WrittenTo(b)'
  BY <1>3, <1>4 DEF WrittenTo, Check!Blocks
<1>6. \A b \in Check!Blocks : WasWritten(b) /\ WasRead(b)
  BY <1>1, <1>3 DEF WasWritten, WasRead, WrittenTo, Check!Blocks
<1>7. Check!Listed' = Check!Listed
  BY <1>2 DEF Check!Listed
<1>8. CheckFlags'
  <2>1. detect_fakes' = detect_fakes /\ large_drive' = large_drive
    BY <1>2 DEF Check!drive
  <2>2. cancel_ops' = cancel_ops
    BY <1>4
  <2>3. ret' = ret \/ ret' = ~(cancel_ops /\ bb_count = 0)
    BY Zenon DEF Check!NextPass, Check!Return
  <2>4. QED
    BY <2>1, <2>2, <2>3, Zenon DEF CheckInv, CheckFlags
<1>9. CheckKept'
  <2>1. /\ pat_idx' \in 1 .. nb_passes /\ currently_testing' \in 0 .. last_block
        /\ tryout' \in 1 .. blocks_at_once /\ check_pc' \in {"write", "done"}
    BY <1>3, <1>4 DEF CheckInv, CheckKept
  <2>2. QED
    BY <1>1, <1>2, <2>1 DEF CheckInv, CheckKept, Check!drive
<1>10. GoodFound(Check!Found)'
  BY <1>2 DEF CheckInv, GoodFound, Check!Found, Sorted
<1>11. Fake'
  BY <1>2, SameDrive DEF CheckInv
<1>12. Only'
  BY <1>2, <1>7, OnlyStep DEF CheckInv
<1>13. WrittenIsThere' /\ Overwritten'
  <2>1. WrittenIsThere'
    BY <1>5 DEF WrittenIsThere
  <2>2. pat_idx' # 1 \/ check_pc' = "done"
    BY <1>3, <1>4
  <2>3. QED
    BY <2>1, <2>2 DEF Overwritten
<1>14. FoundAll'
  BY <1>1, <1>2, <1>6, <1>7, FoundStep DEF CheckInv
<1>15. CheckEnded'
  BY <1>1, <1>2, <1>4 DEF CheckInv, CheckEnded
<1>16. QED
  BY <1>8, <1>9, <1>10, <1>11, <1>12, <1>13, <1>14, <1>15 DEF CheckInv, Check!BadBlocksAssumption

\* The main thread only tells the check to end.
LEMMA CancelInv == CheckInv /\ (Check!UserCancel \/ Check!alarm_intr) => CheckInv'
<1> SUFFICES ASSUME CheckInv, Check!UserCancel \/ Check!alarm_intr PROVE CheckInv'
  OBVIOUS
<1>1. /\ UNCHANGED <<Check!drive, stored, check_pc, pat_idx, currently_testing, tryout, recover_block, Check!found,
                     ret, Check!history>>
      /\ check_pc # "done"
      /\ CheckStatus' \in {CheckStatus, "cancelled"}
  BY DEF Check!UserCancel, Check!alarm_intr, CheckInv, CheckKept
<1>2. /\ UNCHANGED Check!drive /\ bb_list' = bb_list /\ bb_count' = bb_count /\ errors' = errors
      /\ unchecked' = unchecked /\ refused' = refused
  BY <1>1 DEF Check!found, Check!history
<1>3. \A b \in Check!Blocks : WrittenTo(b)' <=> WrittenTo(b)
  BY <1>1 DEF WrittenTo
<1>4. \A b \in Check!Blocks : (WasWritten(b)' => WasWritten(b)) /\ (WasRead(b)' => WasRead(b))
  BY <1>1, <1>3 DEF WasWritten, WasRead
<1>5. Check!Listed' = Check!Listed
  BY <1>2 DEF Check!Listed
<1>6. CheckFlags'
  <2>1. detect_fakes' = detect_fakes /\ large_drive' = large_drive
    BY <1>2 DEF Check!drive
  <2>2. cancel_ops' = cancel_ops \/ cancel_ops' = TRUE
    BY DEF Check!UserCancel, Check!alarm_intr
  <2>3. QED
    BY <1>1, <2>1, <2>2, Zenon DEF CheckInv, CheckFlags
<1>7. CheckKept'
  BY <1>1, <1>2 DEF CheckInv, CheckKept, Check!drive
<1>8. GoodFound(Check!Found)'
  BY <1>2 DEF CheckInv, GoodFound, Check!Found, Sorted
<1>9. Fake'
  BY <1>2, SameDrive DEF CheckInv
<1>10. Only'
  BY <1>2, <1>5, OnlyStep DEF CheckInv
<1>11. WrittenIsThere' /\ Overwritten'
  BY <1>1, <1>2, <1>3, StoredStep DEF CheckInv
<1>12. FoundAll'
  BY <1>1, <1>2, <1>4, <1>5, FoundStep DEF CheckInv
<1>13. CheckEnded'
  BY <1>1, <1>2 DEF CheckInv, CheckEnded
<1>14. QED
  BY <1>6, <1>7, <1>8, <1>9, <1>10, <1>11, <1>12, <1>13 DEF CheckInv, Check!BadBlocksAssumption

-----------------------------------------------------------------------------
(* The transfers *)

\* A step of either loop: the drive, the pass and the flags stay.
LEMMA TestingStep ==
    ASSUME CheckInv, NEW phase, Check!Testing(phase), NEW got \in 0 .. Check!Size, Check!Recover(got, Check!Size),
           currently_testing' = Check!NextBlock(got, Check!Size),
           UNCHANGED <<Check!drive, check_pc, pat_idx, cancel_ops, CheckStatus, ret>>,
           phase \in {"write", "read"},
           unchecked' \subseteq Check!Blocks, refused' \subseteq Check!Blocks,
           refused' # {} => CheckStatus = "cancelled" \/ large_drive,
           stored' \in [Check!Blocks -> (0 .. nb_passes) \X (Check!Blocks \union {Check!None})]
    PROVE  CheckFlags' /\ CheckKept' /\ Fake' /\ CheckEnded'
<1>1. check_pc = phase /\ currently_testing < last_block
  BY DEF Check!Testing
<1>2. detect_fakes' = detect_fakes /\ large_drive' = large_drive
  BY DEF Check!drive
<1>3. CheckFlags'
  BY <1>2, Zenon DEF CheckInv, CheckFlags
<1>4. /\ tryout' \in 1 .. blocks_at_once
      /\ recover_block' \in 0 .. Check!None
      /\ currently_testing' \in 0 .. last_block
  BY <1>1, RecoverTypes DEF CheckInv
<1>5. CheckKept'
  BY <1>4 DEF CheckInv, CheckKept, Check!drive
<1>6. Fake'
  BY SameDrive DEF CheckInv
<1>7. CheckEnded'
  BY <1>1 DEF CheckInv, CheckEnded
<1>8. QED
  BY <1>3, <1>5, <1>6, <1>7
\* What a transfer writes.
LEMMA WriteStores ==
    ASSUME Check!BadBlocksAssumption, CheckKept, currently_testing < last_block, NEW c,
           \E b \in Check!Transfer : Check!Cell(b) = c
    PROVE  /\ Check!LastIn(c) \in Check!Transfer /\ Check!LastIn(c) \in Check!Blocks
           /\ Check!Cell(Check!LastIn(c)) = c
           /\ \A d \in Check!Transfer : Check!Cell(d) = c => d <= Check!LastIn(c)
           /\ Check!Pattern(Check!LastIn(c)) \in (0 .. nb_passes) \X (Check!Blocks \union {Check!None})
<1>1. PICK b \in Check!Transfer : Check!Cell(b) = c
  OBVIOUS
<1>2. /\ Check!LastIn(c) \in Check!Transfer /\ Check!Cell(Check!LastIn(c)) = c
      /\ \A d \in Check!Transfer : Check!Cell(d) = c => d <= Check!LastIn(c)
  BY <1>1, LastInCell
<1>3. Check!LastIn(c) \in Check!Blocks
  BY <1>2, TransferOnDrive
<1>4. pat_idx \in 0 .. nb_passes
  BY DEF CheckKept, Check!BadBlocksAssumption
<1>5. QED
  BY <1>2, <1>3, <1>4 DEF Check!Pattern

\* Write: the blocks of a transfer that was written have no write defect, and the one of
\* a transfer of one block that was not is listed: it is bad, or was refused.
LEMMA WriteInv == CheckInv /\ Check!Write => CheckInv'
<1> SUFFICES ASSUME CheckInv, Check!Write PROVE CheckInv'
  OBVIOUS
<1> DEFINE Into(c) == \E b \in Check!Transfer : Check!Cell(b) = c
           ok == Check!Written
<1>1. /\ Check!Testing("write") /\ check_pc = "write" /\ currently_testing < last_block
      /\ UNCHANGED <<Check!drive, check_pc, pat_idx, cancel_ops, CheckStatus, ret, unchecked>>
  BY DEF Check!Write, Check!Testing
<1>2. stored' = [c \in Check!Blocks |-> IF ok /\ Into(c) THEN Check!Pattern(Check!LastIn(c)) ELSE stored[c]]
  BY DEF Check!Write
<1> DEFINE Failed(got) == IF got = 0 /\ Check!Size = 1 THEN {currently_testing} ELSE {}
<1>3. PICK got \in Check!Got :
          /\ Check!SetFound(IF Failed(got) # {} THEN Check!Output(Check!Found, currently_testing, "write")
                            ELSE Check!Found)
          /\ refused' = refused \union {b \in Failed(got) : media[b] # "write"}
          /\ currently_testing' = Check!NextBlock(got, Check!Size)
          /\ Check!Recover(got, Check!Size)
  BY DEF Check!Write
<1>4. Check!BadBlocksAssumption /\ CheckKept /\ GoodFound(Check!Found) /\ UNCHANGED Check!drive
  BY <1>1 DEF CheckInv
<1>5. /\ Check!Size \in 1 .. blocks_at_once
      /\ currently_testing + Check!Size <= last_block
      /\ \A b \in Check!Blocks : b \in Check!Transfer <=> currently_testing <= b /\ b < currently_testing + Check!Size
      /\ Check!Transfer \subseteq Check!Blocks
      /\ currently_testing \in Check!Transfer /\ currently_testing \in Check!Blocks
      /\ currently_testing \in Nat /\ last_block \in Nat /\ blocks_at_once \in Nat
  BY <1>1, <1>4, TransferOnDrive DEF CheckKept, Check!BadBlocksAssumption
<1> HIDE DEF Into, ok
<1>6. /\ got \in 0 .. Check!Size /\ got \in {0, Check!Size}
      /\ ~ok => got = 0
      /\ ok /\ got = 0 => large_drive
  <2>1. got \in {IF ok THEN Check!Size ELSE 0} \/ (large_drive /\ got = 0)
    BY <1>3 DEF Check!Got, ok
  <2>2. QED
    BY <1>5, <2>1
<1>7. stored' \in [Check!Blocks -> (0 .. nb_passes) \X (Check!Blocks \union {Check!None})]
  <2>1. \A c \in Check!Blocks : Into(c) =>
            Check!Pattern(Check!LastIn(c)) \in (0 .. nb_passes) \X (Check!Blocks \union {Check!None})
    BY <1>1, <1>4, WriteStores DEF Into
  <2>2. \A c \in Check!Blocks : stored[c] \in (0 .. nb_passes) \X (Check!Blocks \union {Check!None})
    BY <1>4 DEF CheckKept
  <2>3. QED
    BY <1>2, <2>1, <2>2
<1>8. /\ refused \subseteq refused' /\ refused' \subseteq refused \union {currently_testing}
      /\ refused' \subseteq Check!Blocks
      /\ refused' # {} => CheckStatus = "cancelled" \/ large_drive
  <2>1. /\ refused \subseteq refused' /\ refused' \subseteq refused \union {currently_testing}
        /\ refused' # refused => got = 0 /\ Check!Size = 1 /\ media[currently_testing] # "write"
    BY <1>3
  <2>2. refused' # refused => CheckStatus = "cancelled" \/ large_drive
    <3> SUFFICES ASSUME refused' # refused PROVE CheckStatus = "cancelled" \/ large_drive
      OBVIOUS
    <3>1. got = 0 /\ Check!Size = 1 /\ media[currently_testing] # "write"
      BY <2>1
    <3>2. \A b \in Check!Transfer : media[b] # "write"
      BY <1>4, <1>5, <3>1, BlocksAreNat
    <3>3. ok \/ CheckStatus = "cancelled"
      BY <1>4, <3>2 DEF ok, Check!Written, CheckKept
    <3>4. QED
      BY <1>6, <3>1, <3>3
  <2>3. refused # {} => CheckStatus = "cancelled" \/ large_drive
    BY <1>4 DEF CheckKept
  <2>4. refused \subseteq Check!Blocks
    BY <1>4 DEF CheckKept
  <2>5. refused' # {} => refused' # refused \/ refused # {}
    OBVIOUS
  <2>6. QED
    BY <1>5, <2>1, <2>2, <2>3, <2>4, <2>5
<1>9. CheckFlags' /\ CheckKept' /\ Fake' /\ CheckEnded'
  <2>1. unchecked' \subseteq Check!Blocks
    BY <1>1, <1>4 DEF CheckKept
  <2>2. QED
    BY <1>1, <1>3, <1>6, <1>7, <1>8, <2>1, TestingStep
<1>10. \A b \in Check!Blocks :
          /\ WrittenTo(b) <=> b < currently_testing
          /\ WrittenTo(b)' <=> b < currently_testing'
          /\ WasWritten(b)' => WasWritten(b) \/ b < currently_testing'
          /\ WasRead(b)' => WasRead(b)
  BY <1>1 DEF WrittenTo, WasWritten, WasRead
<1>11. /\ GoodFound(Check!Found)'
       /\ \/ /\ got = 0 /\ Check!Size = 1 /\ currently_testing' = currently_testing + 1
             /\ Check!Listed' = Check!Listed \union {currently_testing}
             /\ media[currently_testing] # "write" => currently_testing \in refused'
          \/ /\ ~(got = 0 /\ Check!Size = 1) /\ currently_testing' = currently_testing + got
             /\ Check!Listed' = Check!Listed
  <2>1. CASE got = 0 /\ Check!Size = 1
    <3>1. Failed(got) = {currently_testing} /\ Failed(got) # {}
      BY <2>1
    <3>2. Check!SetFound(Check!Output(Check!Found, currently_testing, "write"))
      BY <1>3, <3>1
    <3>3. /\ GoodFound(Check!Output(Check!Found, currently_testing, "write"))
          /\ Elements(Check!Output(Check!Found, currently_testing, "write").list)
                 = Check!Listed \union {currently_testing}
      <4>1. Elements(Check!Found.list) = Check!Listed /\ "write" \in Kinds
        BY DEF Check!Found, Elements, Check!Listed, Kinds
      <4>2. QED
        BY <1>4, <1>5, <4>1, OutputAdds
    <3>4. GoodFound(Check!Found)' /\ Check!Listed' = Check!Listed \union {currently_testing}
      BY <3>2, <3>3, FoundSet
    <3>5. currently_testing' = currently_testing + 1
      BY <1>3, <2>1 DEF Check!NextBlock
    <3>6. QED
      BY <1>3, <2>1, <3>1, <3>4, <3>5
  <2>2. CASE ~(got = 0 /\ Check!Size = 1)
    <3>1. Check!SetFound(Check!Found)
      BY <1>3, <2>2
    <3>2. bb_list' = bb_list /\ GoodFound(Check!Found)' /\ Check!Listed' = Check!Listed
      <4>1. Check!Found.list = bb_list
        BY DEF Check!Found
      <4>2. QED
        BY <1>4, <3>1, <4>1, FoundSet DEF Check!Listed
    <3>3. currently_testing' = currently_testing + got
      BY <1>3, <2>2 DEF Check!NextBlock
    <3>4. QED
      BY <2>2, <3>2, <3>3
  <2>3. QED
    BY <2>1, <2>2
<1>12. Only'
  <2>1. \A b \in Check!Listed' :
            b \in Check!Listed \/ media[b] # "good" \/ Check!Lost(b) \/ b \in refused'
    BY <1>11
  <2>2. QED
    BY <1>4, <1>8, <2>1, OnlyStep DEF CheckInv
<1>13. currently_testing' \in Nat /\ currently_testing' >= currently_testing
       /\ currently_testing' <= currently_testing + Check!Size
  BY <1>5, <1>6, <1>11
<1>14. FoundAll'
  <2>1. ASSUME NEW b \in Check!Blocks, WasWritten(b)', media[b] = "write"
        PROVE  WasWritten(b) \/ b \in Check!Listed'
    <3> SUFFICES ASSUME ~(b < currently_testing), b < currently_testing' PROVE b \in Check!Listed'
      BY <1>10, <2>1 DEF WasWritten
    <3>1. b \in Check!Transfer /\ b \in Nat
      BY <1>4, <1>5, <1>13, BlocksAreNat
    <3>2. ~ok
      BY <2>1, <3>1 DEF ok, Check!Written
    <3>3. got = 0
      BY <1>6, <3>2
    <3>4. currently_testing' = currently_testing + 1 /\ Check!Listed' = Check!Listed \union {currently_testing}
      BY <1>5, <1>11, <3>1, <3>3
    <3>5. b = currently_testing
      BY <1>5, <3>1, <3>4
    <3>6. QED
      BY <3>4, <3>5
  <2>2. Check!Listed \subseteq Check!Listed'
    BY <1>11
  <2>3. QED
    BY <1>1, <1>4, <1>8, <1>10, <2>1, <2>2, FoundStep DEF CheckInv
<1>15. CASE ok
  <2>6. /\ \A b \in Check!Blocks : Into(Check!Cell(b)) => stored'[Check!Cell(b)] = Check!Pattern(Check!LastIn(Check!Cell(b)))
        /\ \A b \in Check!Blocks : ~Into(Check!Cell(b)) => stored'[Check!Cell(b)] = stored[Check!Cell(b)]
    BY <1>2, <1>4, <1>15, CellOnDrive
  <2>7. /\ \A b : Check!Cell(b)' = Check!Cell(b) /\ Check!Pattern(b)' = Check!Pattern(b)
        /\ \A b : Check!Lost(b)' <=> Check!Lost(b)
        /\ media' = media /\ real_size' = real_size /\ detect_fakes' = detect_fakes
        /\ pat_idx' = pat_idx
    BY <1>1, <1>4, SameDrive DEF Check!Pattern
  <2>8. \A b \in Check!Blocks : Into(Check!Cell(b)) =>
            /\ Check!LastIn(Check!Cell(b)) \in Check!Transfer /\ Check!LastIn(Check!Cell(b)) \in Check!Blocks
            /\ Check!Cell(Check!LastIn(Check!Cell(b))) = Check!Cell(b)
            /\ \A d \in Check!Transfer : Check!Cell(d) = Check!Cell(b) => d <= Check!LastIn(Check!Cell(b))
    BY <1>1, <1>4, WriteStores DEF Into
  <2>9. WrittenIsThere'
    <3> SUFFICES ASSUME NEW b \in Check!Blocks, b < currently_testing', media[b] # "write", b \notin refused'
                 PROVE  stored'[Check!Cell(b)] = Check!Pattern(b) \/ Check!Lost(b)
      BY <1>10, <2>7 DEF WrittenIsThere
    <3>1. CASE Into(Check!Cell(b))
      <4> DEFINE d == Check!LastIn(Check!Cell(b))
      <4>1. /\ stored'[Check!Cell(b)] = Check!Pattern(d) /\ d \in Check!Transfer /\ d \in Check!Blocks
            /\ Check!Cell(d) = Check!Cell(b)
            /\ b \in Check!Transfer => b <= d
        BY <2>6, <2>8, <3>1
      <4> HIDE DEF d
      <4>2. b \in Nat /\ d \in Nat
        BY <1>4, <4>1, BlocksAreNat
      <4>3. d = b \/ d > b
        BY <1>5, <1>13, <4>1, <4>2
      <4>4. CASE d = b
        BY <4>1, <4>4
      <4>5. CASE d > b /\ detect_fakes
        BY <4>1, <4>5 DEF Check!Lost
      <4>6. CASE ~detect_fakes
        BY <4>1, <4>6 DEF Check!Pattern
      <4>7. QED
        BY <4>3, <4>4, <4>5, <4>6
    <3>2. CASE ~Into(Check!Cell(b))
      <4>1. b \notin Check!Transfer
        BY <3>2 DEF Into
      <4>2. b < currently_testing
        BY <1>4, <1>5, <1>13, <4>1, BlocksAreNat
      <4>3. b \notin refused
        BY <1>8
      <4>4. QED
        BY <1>10, <2>6, <3>2, <4>2, <4>3 DEF CheckInv, WrittenIsThere
    <3>3. QED
      BY <3>1, <3>2
  <2>10. Overwritten'
    <3> SUFFICES ASSUME real_size < last_block, detect_fakes, pat_idx = 1,
                        NEW b \in Check!Blocks, stored'[Check!Cell(b)] = <<1, b>>
                 PROVE  \A d \in Check!Blocks : d > b /\ Check!Cell(d) = Check!Cell(b) =>
                            ~(d < currently_testing') \/ d \in refused'
      BY <1>10, <2>7 DEF Overwritten
    <3>1. CASE Into(Check!Cell(b))
      <4> DEFINE e == Check!LastIn(Check!Cell(b))
      <4>1. /\ stored'[Check!Cell(b)] = Check!Pattern(e) /\ e \in Check!Transfer /\ e \in Check!Blocks
            /\ \A d \in Check!Transfer : Check!Cell(d) = Check!Cell(b) => d <= e
        BY <2>6, <2>8, <3>1
      <4> HIDE DEF e
      <4>2. Check!Pattern(e) = <<1, e>>
        BY DEF Check!Pattern
      <4>3. e = b
        BY <4>1, <4>2
      <4>4. \A d \in Check!Blocks : d \in Nat
        BY <1>4, BlocksAreNat
      <4>5. b \in Check!Transfer
        BY <4>1, <4>3
      <4>6. ASSUME NEW d \in Check!Blocks, d > b, Check!Cell(d) = Check!Cell(b), d < currently_testing'
            PROVE  FALSE
        <5>1. d \in Check!Transfer
          BY <1>5, <1>13, <4>4, <4>5, <4>6
        <5>2. d <= b
          BY <4>1, <4>3, <4>6, <5>1
        <5>3. QED
          BY <4>4, <4>6, <5>2
      <4>7. QED
        BY <4>6
    <3>2. CASE ~Into(Check!Cell(b))
      <4>1. stored[Check!Cell(b)] = <<1, b>>
        BY <2>6, <3>2
      <4>2. \A d \in Check!Blocks : d > b /\ Check!Cell(d) = Check!Cell(b) =>
                ~(d < currently_testing) \/ d \in refused
        BY <1>1, <1>10, <4>1 DEF CheckInv, Overwritten
      <4>3. \A d \in Check!Blocks : Check!Cell(d) = Check!Cell(b) => d \notin Check!Transfer
        BY <3>2 DEF Into
      <4>4. \A d \in Check!Blocks : d \in Nat
        BY <1>4, BlocksAreNat
      <4>5. ASSUME NEW d \in Check!Blocks, d > b, Check!Cell(d) = Check!Cell(b), d \notin refused'
            PROVE  ~(d < currently_testing')
        <5>1. d \notin Check!Transfer /\ ~(d < currently_testing) /\ d \in Nat
          BY <1>8, <4>2, <4>3, <4>4, <4>5
        <5>2. QED
          BY <1>5, <1>13, <5>1
      <4>6. QED
        BY <4>5
    <3>3. QED
      BY <3>1, <3>2
  <2>11. QED
    BY <1>4, <1>9, <1>11, <1>12, <1>14, <2>9, <2>10 DEF CheckInv, Check!BadBlocksAssumption
<1>16. CASE ~ok
  <2>1. stored' = stored /\ got = 0
    BY <1>2, <1>4, <1>6, <1>16 DEF CheckKept
  <2>2. ASSUME NEW b \in Check!Blocks, WrittenTo(b)', media[b] # "write"
        PROVE  WrittenTo(b) \/ b \in refused'
    <3> SUFFICES ASSUME ~(b < currently_testing), b < currently_testing' PROVE b \in refused'
      BY <1>10, <2>2
    <3>1. b \in Nat
      BY <1>4, BlocksAreNat
    <3>2. /\ currently_testing' = currently_testing + 1
          /\ media[currently_testing] # "write" => currently_testing \in refused'
      BY <1>5, <1>11, <2>1, <3>1
    <3>3. b = currently_testing
      BY <1>5, <3>1, <3>2
    <3>4. QED
      BY <2>2, <3>2, <3>3
  <2>3. real_size < last_block => \A b \in Check!Blocks : media[b] # "write"
    BY DEF CheckInv, Fake
  <2>4. WrittenIsThere' /\ Overwritten'
    <3>1. real_size < last_block =>
              check_pc # "done" /\ \A b \in Check!Blocks : WrittenTo(b)' => WrittenTo(b) \/ b \in refused'
      BY <1>1, <2>2, <2>3
    <3>2. QED
      BY <1>1, <1>4, <1>8, <2>1, <2>2, <3>1, StoredStep DEF CheckInv
  <2>5. QED
    BY <1>4, <1>9, <1>11, <1>12, <1>14, <2>4 DEF CheckInv, Check!BadBlocksAssumption
<1>17. QED
  BY <1>15, <1>16
\* Read: only the blocks that were written, and not stored over, compare equal.
LEMMA ReadInv == CheckInv /\ Check!Read => CheckInv'
<1> SUFFICES ASSUME CheckInv, Check!Read PROVE CheckInv'
  OBVIOUS
<1>1. /\ Check!Testing("read") /\ check_pc = "read" /\ currently_testing < last_block
      /\ \A b \in Check!Transfer : media[b] # "read"
      /\ Check!SetFound(Check!Compared(Check!Size))
      /\ UNCHANGED <<Check!drive, stored, check_pc, pat_idx, cancel_ops, CheckStatus, ret, Check!history>>
      /\ currently_testing' = Check!NextBlock(Check!Size, Check!Size)
      /\ Check!Recover(Check!Size, Check!Size)
  BY DEF Check!Read, Check!Testing
<1>2. /\ Check!BadBlocksAssumption /\ CheckKept /\ GoodFound(Check!Found) /\ UNCHANGED Check!drive
      /\ unchecked' = unchecked /\ refused' = refused
  BY <1>1 DEF CheckInv, Check!history
<1>3. /\ Check!Size \in 1 .. blocks_at_once
      /\ currently_testing + Check!Size <= last_block
      /\ \A b \in Check!Blocks : b \in Check!Transfer <=> currently_testing <= b /\ b < currently_testing + Check!Size
      /\ Check!Transfer \subseteq Check!Blocks
      /\ currently_testing \in Nat /\ last_block \in Nat /\ blocks_at_once \in Nat
  BY <1>1, <1>2, TransferOnDrive DEF CheckKept, Check!BadBlocksAssumption
<1>4. Check!Size \in 0 .. Check!Size /\ Check!Size \in Nat /\ currently_testing' = currently_testing + Check!Size
  BY <1>1, <1>3 DEF Check!NextBlock
<1>5. CheckFlags' /\ CheckKept' /\ Fake' /\ CheckEnded'
  <2>1. /\ unchecked' \subseteq Check!Blocks /\ refused' \subseteq Check!Blocks
        /\ refused' # {} => CheckStatus = "cancelled" \/ large_drive
        /\ stored' \in [Check!Blocks -> (0 .. nb_passes) \X (Check!Blocks \union {Check!None})]
    BY <1>1, <1>2 DEF CheckKept
  <2>2. QED
    BY <1>1, <1>4, <2>1, TestingStep
<1>6. /\ GoodFound(Check!Compared(Check!Size))
      /\ Elements(Check!Compared(Check!Size).list) = Check!Listed \union {b \in Check!Transfer : Check!Differs(b)}
  <2>1. Check!Listed = Elements(bb_list)
    BY DEF Check!Listed, Elements
  <2>2. QED
    BY <1>2, <1>3, <1>4, <2>1, ComparedAdds DEF Check!Transfer
<1>7. GoodFound(Check!Found)' /\ Check!Listed' = Check!Listed \union {b \in Check!Transfer : Check!Differs(b)}
  BY <1>1, <1>6, FoundSet
<1>8. \A b \in Check!Blocks : WrittenTo(b) /\ WrittenTo(b)'
  BY <1>1 DEF WrittenTo
<1>9. Only'
  <2>1. ASSUME NEW b \in Check!Transfer, Check!Differs(b) PROVE media[b] # "good" \/ Check!Lost(b) \/ b \in refused
    <3>1. b \in Check!Blocks
      BY <1>3
    <3>2. QED
      BY <1>8, <2>1, <3>1 DEF CheckInv, WrittenIsThere, Check!Differs
  <2>2. QED
    BY <1>2, <1>7, <2>1, OnlyStep DEF CheckInv
<1>10. WrittenIsThere' /\ Overwritten'
  BY <1>1, <1>2, <1>8, StoredStep DEF CheckInv
<1>11. FoundAll'
  <2>1. \A b \in Check!Blocks : WasWritten(b)
    BY <1>8 DEF WasWritten
  <2>2. ASSUME NEW b \in Check!Blocks, WasRead(b)', Unreadable(b) PROVE WasRead(b) \/ b \in Check!Listed'
    <3> SUFFICES ASSUME ~WasRead(b) PROVE b \in Check!Listed'
      OBVIOUS
    <3>1. b < currently_testing' /\ ~(b < currently_testing) /\ ~(pat_idx > 1)
      BY <1>1, <2>2 DEF WasRead
    <3>2. b \in Check!Transfer
      BY <1>2, <1>3, <1>4, <3>1, BlocksAreNat
    <3>3. CASE media[b] = "corruption"
      BY <1>7, <3>2, <3>3 DEF Check!Differs
    <3>4. CASE Check!StoredOver(b)
      <4>1. pat_idx = 1
        BY <1>2, <3>1 DEF CheckKept, Check!BadBlocksAssumption
      <4>2. real_size < last_block /\ detect_fakes
        BY <1>2, <3>4, LostIsFake DEF Check!Lost, Check!StoredOver
      <4>3. PICK d \in Check!Blocks \ refused : d > b /\ Check!Cell(d) = Check!Cell(b)
        BY <3>4 DEF Check!StoredOver
      <4>4. stored[Check!Cell(b)] # <<1, b>>
        BY <1>1, <1>8, <4>1, <4>2, <4>3 DEF CheckInv, Overwritten
      <4>5. Check!Pattern(b) = <<1, b>>
        BY <4>1, <4>2 DEF Check!Pattern
      <4>6. QED
        BY <1>7, <3>2, <4>4, <4>5 DEF Check!Differs
    <3>5. QED
      BY <1>1, <2>2, <3>2, <3>3, <3>4 DEF Unreadable
  <2>3. QED
    BY <1>1, <1>2, <1>7, <2>1, <2>2, FoundStep DEF CheckInv
<1>12. QED
  BY <1>2, <1>5, <1>7, <1>9, <1>10, <1>11 DEF CheckInv, Check!BadBlocksAssumption

\* ReadFails: the block that cannot be read is listed when it is read on its own; those
\* before it are unchecked.
LEMMA ReadFailsInv == CheckInv /\ Check!ReadFails => CheckInv'
<1> SUFFICES ASSUME CheckInv, Check!ReadFails PROVE CheckInv'
  OBVIOUS
<1>1. /\ Check!Testing("read") /\ check_pc = "read" /\ currently_testing < last_block
      /\ UNCHANGED <<Check!drive, stored, check_pc, pat_idx, cancel_ops, CheckStatus, ret, refused>>
  BY DEF Check!ReadFails, Check!Testing
<1>2. /\ Check!BadBlocksAssumption /\ CheckKept /\ GoodFound(Check!Found) /\ UNCHANGED Check!drive
      /\ refused' = refused
  BY <1>1 DEF CheckInv
<1>3. /\ Check!Size \in 1 .. blocks_at_once
      /\ currently_testing + Check!Size <= last_block
      /\ \A b \in Check!Blocks : b \in Check!Transfer <=> currently_testing <= b /\ b < currently_testing + Check!Size
      /\ Check!Transfer \subseteq Check!Blocks
      /\ currently_testing \in Nat /\ last_block \in Nat /\ blocks_at_once \in Nat
      /\ currently_testing \in Check!Blocks
  BY <1>1, <1>2, TransferOnDrive DEF CheckKept, Check!BadBlocksAssumption
<1>bad. PICK bad \in Check!Transfer :
            /\ media[bad] = "read"
            /\ \E got \in 0 .. bad - currently_testing :
                   /\ Check!SetFound(IF got = 0 /\ Check!Size = 1
                               THEN Check!Output(Check!Found, currently_testing, "read") ELSE Check!Found)
                   /\ unchecked' = unchecked \union (currently_testing .. currently_testing + got - 1)
                   /\ currently_testing' = Check!NextBlock(got, Check!Size)
                   /\ Check!Recover(got, Check!Size)
  BY DEF Check!ReadFails
<1>4. PICK got \in 0 .. bad - currently_testing :
          /\ media[bad] = "read"
          /\ Check!SetFound(IF got = 0 /\ Check!Size = 1
                      THEN Check!Output(Check!Found, currently_testing, "read") ELSE Check!Found)
          /\ unchecked' = unchecked \union (currently_testing .. currently_testing + got - 1)
          /\ currently_testing' = Check!NextBlock(got, Check!Size)
          /\ Check!Recover(got, Check!Size)
  BY <1>bad
<1>5. bad \in Check!Blocks /\ bad \in Nat /\ currently_testing <= bad /\ bad < currently_testing + Check!Size
  BY <1>2, <1>3, <1>4, BlocksAreNat
<1>6. got \in Nat /\ got <= bad - currently_testing /\ got < Check!Size /\ got \in 0 .. Check!Size
  BY <1>3, <1>4, <1>5
<1>7. unchecked \subseteq unchecked' /\ unchecked' \subseteq Check!Blocks
  BY <1>2, <1>3, <1>4, <1>6 DEF CheckKept, Check!Blocks
<1>8. CheckFlags' /\ CheckKept' /\ Fake' /\ CheckEnded'
  <2>1. /\ stored' \in [Check!Blocks -> (0 .. nb_passes) \X (Check!Blocks \union {Check!None})]
        /\ refused' \subseteq Check!Blocks
        /\ refused' # {} => CheckStatus = "cancelled" \/ large_drive
    BY <1>1, <1>2 DEF CheckKept
  <2>2. QED
    BY <1>1, <1>4, <1>6, <1>7, <2>1, TestingStep
<1>9. \A b \in Check!Blocks : WrittenTo(b) /\ WrittenTo(b)'
  BY <1>1 DEF WrittenTo
<1>10. WrittenIsThere' /\ Overwritten'
  BY <1>1, <1>2, <1>9, StoredStep DEF CheckInv
<1>11. \A b \in Check!Blocks : WasWritten(b)
  BY <1>9 DEF WasWritten
<1>12. \A b \in Check!Blocks : WasRead(b)' =>
           WasRead(b) \/ (b < currently_testing' /\ ~(b < currently_testing))
  BY <1>1 DEF WasRead
<1>13. CASE got = 0 /\ Check!Size = 1
  <2>1. bad = currently_testing /\ currently_testing' = currently_testing + 1
    BY <1>3, <1>4, <1>5, <1>13 DEF Check!NextBlock
  <2>2. /\ GoodFound(Check!Output(Check!Found, currently_testing, "read"))
        /\ Elements(Check!Output(Check!Found, currently_testing, "read").list)
               = Check!Listed \union {currently_testing}
    <3>1. Elements(Check!Found.list) = Check!Listed /\ "read" \in Kinds
      BY DEF Check!Found, Elements, Check!Listed, Kinds
    <3>2. QED
      BY <1>2, <1>3, <3>1, OutputAdds
  <2>3. Check!SetFound(Check!Output(Check!Found, currently_testing, "read"))
    BY <1>4, <1>13
  <2>4. GoodFound(Check!Found)' /\ Check!Listed' = Check!Listed \union {currently_testing}
    BY <2>2, <2>3, FoundSet
  <2>5. Only'
    BY <1>2, <1>4, <2>1, <2>4, OnlyStep DEF CheckInv
  <2>6. \A b \in Check!Blocks : b < currently_testing' /\ ~(b < currently_testing) => b = currently_testing
    BY <1>2, <1>3, <2>1, BlocksAreNat
  <2>7. FoundAll'
    BY <1>2, <1>7, <1>11, <1>12, <2>4, <2>6, FoundStep DEF CheckInv
  <2>8. QED
    BY <1>2, <1>8, <1>10, <2>4, <2>5, <2>7 DEF CheckInv, Check!BadBlocksAssumption
<1>14. CASE ~(got = 0 /\ Check!Size = 1)
  <2>1. currently_testing' = currently_testing + got /\ Check!SetFound(Check!Found)
    BY <1>4, <1>14 DEF Check!NextBlock
  <2>2. GoodFound(Check!Found)' /\ Check!Listed' = Check!Listed
    <3>1. Check!Found.list = bb_list
      BY DEF Check!Found
    <3>2. QED
      BY <1>2, <2>1, <3>1, FoundSet DEF Check!Listed
  <2>3. Only'
    BY <1>2, <2>2, OnlyStep DEF CheckInv
  <2>4. ASSUME NEW b \in Check!Blocks, b < currently_testing', ~(b < currently_testing)
        PROVE  b \in unchecked'
    <3>1. b \in currently_testing .. currently_testing + got - 1
      BY <1>2, <1>3, <1>6, <2>1, <2>4, BlocksAreNat
    <3>2. QED
      BY <1>4, <3>1
  <2>5. FoundAll'
    BY <1>2, <1>7, <1>11, <1>12, <2>2, <2>4, FoundStep DEF CheckInv
  <2>6. QED
    BY <1>2, <1>8, <1>10, <2>2, <2>3, <2>5 DEF CheckInv, Check!BadBlocksAssumption
<1>15. QED
  BY <1>13, <1>14

-----------------------------------------------------------------------------
(* The theorems *)

\* A step that changes nothing.
LEMMA StutterInv == CheckInv /\ UNCHANGED Check!vars => CheckInv'
<1> SUFFICES ASSUME CheckInv, UNCHANGED Check!vars PROVE CheckInv'
  OBVIOUS
<1>1. /\ UNCHANGED <<Check!drive, stored, check_pc, pat_idx, currently_testing, tryout, recover_block, Check!found,
                     cancel_ops, CheckStatus, ret, Check!history>>
      /\ UNCHANGED Check!drive /\ bb_list' = bb_list /\ bb_count' = bb_count /\ errors' = errors
      /\ unchecked' = unchecked /\ refused' = refused
  BY DEF Check!vars, Check!found, Check!history
<1>2. \A b \in Check!Blocks : WrittenTo(b)' <=> WrittenTo(b)
  BY <1>1 DEF WrittenTo
<1>3. \A b \in Check!Blocks : (WasWritten(b)' => WasWritten(b)) /\ (WasRead(b)' => WasRead(b))
  BY <1>1, <1>2 DEF WasWritten, WasRead
<1>4. Check!Listed' = Check!Listed
  BY <1>1 DEF Check!Listed
<1>5. CheckFlags'
  BY <1>1, Zenon DEF CheckInv, CheckFlags, Check!drive
<1>6. CheckKept'
  BY <1>1 DEF CheckInv, CheckKept, Check!drive
<1>7. GoodFound(Check!Found)'
  BY <1>1 DEF CheckInv, GoodFound, Check!Found, Sorted
<1>8. Fake'
  BY <1>1, SameDrive DEF CheckInv
<1>9. Only'
  BY <1>1, <1>4, OnlyStep DEF CheckInv
<1>10. WrittenIsThere' /\ Overwritten'
  BY <1>1, <1>2, StoredStep DEF CheckInv
<1>11. FoundAll'
  BY <1>1, <1>3, <1>4, FoundStep DEF CheckInv
<1>12. CheckEnded'
  BY <1>1 DEF CheckInv, CheckEnded
<1>13. QED
  BY <1>5, <1>6, <1>7, <1>8, <1>9, <1>10, <1>11, <1>12 DEF CheckInv, Check!BadBlocksAssumption

\* Every step keeps the invariant.
LEMMA CheckStep == CheckInv /\ [Check!Next]_Check!vars => CheckInv'
  BY StartInv, InterruptedInv, WriteInv, ReadInv, ReadFailsInv, StartReadingInv, NextPassInv,
     CancelInv, StutterInv
     DEF Check!Next, Check!test_rw, Check!Terminated

\* The invariant holds throughout.
LEMMA CheckInvariance == CheckSpec => []CheckInv
  BY CheckAssumption, CheckInit, CheckStep, PTL DEF CheckSpec, Check!Spec

\* The first property follows.
LEMMA FoundIsRight == CheckInv => OnlyBadBlocksReported
<1> SUFFICES ASSUME CheckInv PROVE OnlyBadBlocksReported
  OBVIOUS
<1>1. Check!Found.list = bb_list /\ Check!Found.count = bb_count /\ Check!Found.errors = errors
  BY DEF Check!Found
<1>2. /\ \A j, k \in 1 .. Len(bb_list) : j < k => bb_list[j] < bb_list[k]
      /\ bb_count = Len(bb_list)
      /\ bb_count = errors["read"] + errors["write"] + errors["corruption"]
  BY <1>1 DEF CheckInv, GoodFound, Sorted
<1>3. QED
  BY <1>2 DEF CheckInv, CheckKept, Only, OnlyBadBlocksReported

\* The second property follows.
LEMMA FoundIsAll == CheckInv => BadBlocksFound
<1> SUFFICES ASSUME CheckInv PROVE BadBlocksFound
  OBVIOUS
<1>1. ASSUME check_pc = "done", ~cancel_ops, NEW b \in Check!Blocks, media[b] # "good" \/ Check!StoredOver(b)
      PROVE  b \in Check!Listed \union unchecked
  <2>1. WasWritten(b) /\ WasRead(b)
    BY <1>1 DEF WasWritten, WasRead
  <2>2. media[b] \in Check!Defects
    BY DEF CheckInv, CheckKept
  <2>3. media[b] = "write" \/ Unreadable(b)
    BY <1>1, <2>2 DEF Unreadable, Check!Defects
  <2>4. QED
    BY <2>1, <2>3 DEF CheckInv, FoundAll
<1>2. ret /\ bb_count = 0 =>
          pat_idx = nb_passes /\ currently_testing = last_block /\ ~cancel_ops
  BY DEF CheckInv, CheckEnded
<1>3. QED
  BY <1>1, <1>2 DEF BadBlocksFound

\* The types follow.
LEMMA FoundIsTyped == CheckInv => Check!TypeOK
<1> SUFFICES ASSUME CheckInv PROVE Check!TypeOK
  OBVIOUS
<1>1. {cancel_ops, ret} \subseteq BOOLEAN /\ {detect_fakes, large_drive} \subseteq BOOLEAN
  BY Zenon DEF CheckInv, CheckFlags
<1>2. Check!Found.list = bb_list /\ Check!Found.count = bb_count /\ Check!Found.errors = errors
  BY DEF Check!Found
<1>3. /\ bb_list \in Seq(Check!Blocks) /\ bb_count = Len(bb_list)
      /\ errors \in [{"read", "write", "corruption"} -> Nat]
  BY <1>2 DEF CheckInv, GoodFound, Kinds
<1>4. bb_count \in Nat
  BY <1>3
<1>5. QED
  BY <1>1, <1>3, <1>4 DEF CheckInv, CheckKept, Check!TypeOK

\* The types of the state of the check.
THEOREM CheckTypeCorrect == CheckSpec => []Check!TypeOK
  BY CheckInvariance, FoundIsTyped, PTL

\* For drives of any size, with any defects, transfers of any number of blocks and any
\* number of passes: the list has no good block but those that were refused after a
\* cancellation or that a large drive reports as not written, has none twice, and agrees
\* with the numbers of bad blocks and of errors.
THEOREM OnlyBadReported == CheckSpec => []OnlyBadBlocksReported
  BY CheckInvariance, FoundIsRight, PTL

\* A check that was not interrupted has found every defect and every block that a fake
\* drive has stored another one over, but for those that it has read and not compared; and it returns that
\* there is no bad block only if it was not interrupted.
THEOREM EveryBadFound == CheckSpec => []BadBlocksFound
  BY CheckInvariance, FoundIsAll, PTL

=============================================================================
