---------------------------- MODULE DownloadProofs ----------------------------
(***************************************************************************)
(* Proofs about the download of a file, for any length of the file, limit  *)
(* of the buffer and number of calls.  What the code knows of the disk is  *)
(* in two flags, file_created and backup_moved, that it consults after the *)
(* label "out".  The inductive invariant IInv says, at every point of the  *)
(* code, how these flags relate what is on the disk to what was there when *)
(* the function was called (OnDisk), and that an image that was there then *)
(* was a whole one (WasWhole): a crash, which forgets the flags, finds it. *)
(***************************************************************************)
EXTENDS Download, TLAPS

\* The points of the code from which the download can still succeed.
Active == {"request", "backup", "create", "loop", "succeeded", "success", "save"}

\* The types of the flags, and of everything else.
Flags ==
    /\ file_created \in BOOLEAN
    /\ backup_moved \in BOOLEAN
    /\ leftover \in BOOLEAN
    /\ missed \in BOOLEAN

Kept ==
    /\ role \in {"image", "library", "signed"}
    /\ file \in Contents
    /\ bak \in Contents
    /\ pc \in Active \union {"idle", "failed", "restore", "failure"}
    /\ part \in {"data", "sig"}
    /\ ErrorStatus \in {"none", "cancelled", "invalid_data", "write_fault", "bad_signature"}
    /\ DownloadStatus \in {200, 206, 403, 404, 503}
    /\ total_size \in 0 .. MaxLength
    /\ size \in 0 .. MaxLength
    /\ buf_len \in 0 .. MaxBuffered
    /\ before \in Contents \X Contents
    /\ result \in {"none", "success", "failure", "wrong_size", "crash"}
    /\ used \in Contents
    /\ calls \in 0 .. MaxCalls
    /\ initial \in {None, Old}

Typed == Kept /\ Flags

\* How much was downloaded, and what is in memory.
Sized ==
    /\ size <= total_size
    /\ ~ToFile => total_size <= MaxBuffered
    /\ pc \in {"backup", "create", "loop", "succeeded", "success"} => total_size > 0
    /\ pc \in {"request", "backup", "create"} => size = 0
    /\ pc \in {"succeeded", "success"} => size = total_size
    /\ buf_len <= MaxLength
    /\ part = "sig" => buf_len > 0
    /\ pc = "save" => part = "sig"

\* No file is longer than it should be.
Fits(c) == c.bytes <= c.length

AllFit == Fits(file) /\ Fits(bak) /\ Fits(before[1]) /\ Fits(before[2])

\* Where the earlier file is, once it may have been moved.
BackupKept ==
    IF backup_moved THEN /\ before[1] # None
                         /\ before[2] = None
                         /\ bak = before[1]
                    ELSE bak = before[2]

\* The file of the earlier name is gone, by the move or because there was none.
Vacated == backup_moved \/ before[1] = None

\* A download to memory leaves the disk alone, until the file is saved.
SignedOnDisk ==
    ~ToFile =>
        /\ pc \notin {"backup", "create"}
        /\ ~backup_moved /\ ~file_created /\ ~leftover
        /\ pc # "idle" => bak = before[2]

\* Nothing that was there at the call is lost.
EarlierKept ==
    /\ before[1] # None => before[1] \in {file, bak}
    /\ before[2] # None => bak = before[2]

FileOnDisk ==
    ToFile =>
        /\ pc # "save"
        /\ part = "data"
        /\ pc \in {"request", "backup"} => file = before[1] /\ bak = before[2]
        /\ pc \in {"request", "backup"} => ~backup_moved /\ ~file_created
        /\ pc \notin {"restore", "failure", "success", "idle"} => ~leftover
        /\ pc \in {"create", "loop", "failed", "restore", "succeeded"} => BackupKept
        /\ pc = "create" => file = None /\ ~file_created /\ Vacated
        /\ pc = "loop" => file = New(size, total_size) /\ file_created /\ Vacated
        /\ pc = "failed" => IF file_created THEN Vacated
                            ELSE file = IF backup_moved THEN None ELSE before[1]
        /\ pc = "restore" => IF leftover THEN Vacated
                             ELSE file = IF backup_moved THEN None ELSE before[1]
        /\ pc = "failure" => IF leftover THEN EarlierKept ELSE file = before[1] /\ bak = before[2]
        /\ pc \in {"succeeded", "success"} => file = New(total_size, total_size)
        /\ pc = "success" => bak = IF leftover THEN before[1] ELSE before[2]

OnDisk == SignedOnDisk /\ FileOnDisk

\* The result is that of the last call, and the cancellation that comes while
\* data is missing is still to be seen, or was seen.
Ended ==
    /\ pc # "idle" => result = "none"
    /\ missed /\ pc \in Active => pc = "loop" /\ ErrorStatus # "none"

WasWhole ==
    role = "image" /\ initial = Old => Whole(before[1]) \/ Whole(before[2])

IInv ==
    /\ Typed
    /\ Sized
    /\ AllFit
    /\ OnDisk
    /\ Ended
    /\ WasWhole
    /\ SuccessIsWhole
    /\ FailureRestores
    /\ AlwaysAWholeImage

-----------------------------------------------------------------------------
\* What the properties tell apart of the contents of a file.
LEMMA ContentsLemma ==
    /\ None \in Contents /\ Fits(None) /\ ~Whole(None)
    /\ Old \in Contents /\ Fits(Old) /\ Whole(Old)
    /\ 0 \in 0 .. MaxLength /\ 0 \in 0 .. MaxBuffered
    /\ \A n \in 0 .. MaxLength, length \in 0 .. MaxLength :
           /\ New(n, length) \in Contents
           /\ New(n, length).kind = "new"
           /\ New(n, length).bytes = n
           /\ New(n, length).length = length
           /\ New(n, length) # None
<1>1. None \in Contents /\ Old \in Contents
  BY DEF Contents
<1>2. Fits(None) /\ ~Whole(None) /\ Fits(Old) /\ Whole(Old)
  BY DEF None, Old, Fits, Whole
<1>3. ASSUME NEW n \in 0 .. MaxLength, NEW length \in 0 .. MaxLength
      PROVE  /\ New(n, length) \in Contents
             /\ New(n, length).kind = "new"
             /\ New(n, length).bytes = n
             /\ New(n, length).length = length
             /\ New(n, length) # None
  <2>1. New(n, length) \in Contents
    BY DEF Contents
  <2>2. New(n, length).kind = "new" /\ None.kind = "none"
    BY DEF New, None
  <2> QED
    BY <2>1, <2>2 DEF New
<1>4. 0 \in 0 .. MaxLength /\ 0 \in 0 .. MaxBuffered
  BY DownloadAssumption
<1> QED
  BY <1>1, <1>2, <1>3, <1>4

LEMMA InitLemma == Init => IInv
<1> SUFFICES ASSUME Init PROVE IInv
  OBVIOUS
<1>1. Flags
  BY Zenon DEF Init, Flags
<1>2. Kept
  BY DownloadAssumption, ContentsLemma DEF Init, Kept, Active
<1>3. Sized /\ AllFit /\ OnDisk
  BY DownloadAssumption, ContentsLemma
     DEF Init, Sized, AllFit, OnDisk, SignedOnDisk, FileOnDisk, ToFile
<1>4. Ended /\ WasWhole /\ FailureRestores /\ AlwaysAWholeImage
  BY ContentsLemma DEF Init, Ended, WasWhole, FailureRestores, AlwaysAWholeImage
<1>5. SuccessIsWhole
  BY ContentsLemma DEF Init, SuccessIsWhole, Fits
<1> QED
  BY <1>1, <1>2, <1>3, <1>4, <1>5 DEF IInv, Typed

\* Every step keeps the types of the flags.
LEMMA FlagsStep == IInv /\ [Next]_vars => Flags'
<1> SUFFICES ASSUME IInv, [Next]_vars PROVE Flags'
  OBVIOUS
<1> USE DEF IInv, Typed, Flags, disk, local, history
<1>1. CASE Call
  BY <1>1, Zenon DEF Call, Begin
<1>2. CASE Crash
  BY <1>2, Zenon DEF Crash
<1>3. CASE Response
  BY <1>3, Zenon DEF Response, Goto, DownloadLengthValid
<1>4. CASE Backup
  BY <1>4, Zenon DEF Backup, Goto
<1>5. CASE CreateFile
  BY <1>5, Zenon DEF CreateFile, Goto
<1>6. CASE DataReturned
  BY <1>6, Zenon DEF DataReturned, Begin, Return
<1>7. CASE UserCancel
  BY <1>7, Zenon DEF UserCancel
<1>8. CASE Reuse \/ Terminated \/ UNCHANGED vars \/ RequestFails \/ AllocFails \/
          CancelSeen \/ ReadFails \/ ReadEnd \/ Read \/
          ReturnToCaller \/ SignatureInvalid \/ SignatureValid \/ Save
  <2>1. UNCHANGED <<file_created, backup_moved, leftover, missed>>
    BY <1>8 DEF Reuse, Terminated, vars, RequestFails, Goto, AllocFails, CancelSeen,
       ReadFails, Cancelled, ReadEnd, Read, ReadInvalid, ReadValid, WriteFails,
       ReturnToCaller, Return, SignatureInvalid, SignatureValid, Save
  <2> QED
    BY <2>1, Zenon
<1>9. CASE Close
  BY <1>9, Zenon DEF Close, Goto
<1>10. CASE Restore
  BY <1>10, Zenon DEF Restore, Goto
<1> QED
  BY <1>1, <1>2, <1>3, <1>4, <1>5, <1>6, <1>7, <1>8, <1>9, <1>10 DEF Next, Download

\* Every step keeps the types: what goes to memory fits the limit.
LEMMA KeptStep == IInv /\ [Next]_vars => Kept'
<1> SUFFICES ASSUME IInv, [Next]_vars PROVE Kept'
  OBVIOUS
<1> USE DownloadAssumption, ContentsLemma DEF IInv, Typed, Kept, Active, Sized,
     ToFile, disk, local, history
<1>1. CASE Reuse \/ UserCancel \/ Terminated \/ UNCHANGED vars
  BY <1>1 DEF Reuse, UserCancel, Terminated, vars
<1>2. CASE Call
  BY <1>2 DEF Call, Begin
<1>3. CASE Crash
  BY <1>3 DEF Crash
<1>4. CASE RequestFails \/ AllocFails \/ CancelSeen \/ ReadFails
  BY <1>4 DEF RequestFails, Goto, AllocFails, CancelSeen, ReadFails, Cancelled
<1>5. CASE Response
  BY <1>5 DEF Response, Goto, DownloadLengthValid
<1>6. CASE Backup
  BY <1>6 DEF Backup, Goto
<1>7. CASE CreateFile
  BY <1>7 DEF CreateFile, Goto
<1>8. CASE ReadEnd
  BY <1>8 DEF ReadEnd, Goto, Cancelled
<1>9. CASE Read
  <2> SUFFICES ASSUME NEW chunk \in 1 .. MaxLength,
                      pc = "loop", ~Cancelled,
                      ReadInvalid(chunk) \/ ReadValid(chunk) \/ WriteFails(chunk)
               PROVE  Kept'
    BY <1>9 DEF Read
  <2>1. CASE ReadInvalid(chunk)
    BY <2>1 DEF ReadInvalid, Goto
  <2>2. CASE ReadValid(chunk)
    BY <2>2 DEF ReadValid, Goto, DownloadChunkValid, Cancelled
  <2>3. CASE WriteFails(chunk)
    BY <2>3 DEF WriteFails, Goto, DownloadChunkValid
  <2> QED
    BY <2>1, <2>2, <2>3
<1>10. CASE Close
  BY <1>10 DEF Close, Goto
<1>11. CASE Restore
  BY <1>11 DEF Restore, Goto
<1>12. CASE ReturnToCaller
  BY <1>12 DEF ReturnToCaller, Return
<1>13. CASE DataReturned
  BY <1>13 DEF DataReturned, Begin, Return
<1>14. CASE SignatureInvalid \/ SignatureValid
  BY <1>14 DEF SignatureInvalid, Return, SignatureValid, Goto
<1>15. CASE Save
  BY <1>15 DEF Save, Return
<1> QED
  BY <1>1, <1>2, <1>3, <1>4, <1>5, <1>6, <1>7, <1>8, <1>9, <1>10, <1>11,
     <1>12, <1>13, <1>14, <1>15 DEF Next, Download

\* Every step keeps the account of what was downloaded.
LEMMA SizedStep == IInv /\ [Next]_vars => Sized'
<1> SUFFICES ASSUME IInv, [Next]_vars PROVE Sized'
  OBVIOUS
<1> USE DownloadAssumption DEF IInv, Typed, Kept, Sized, ToFile, disk, local,
     history
<1>1. CASE Reuse \/ UserCancel \/ Terminated \/ UNCHANGED vars
  BY <1>1 DEF Reuse, UserCancel, Terminated, vars
<1>2. CASE Call
  BY <1>2 DEF Call, Begin
<1>3. CASE Crash
  BY <1>3 DEF Crash
<1>4. CASE RequestFails \/ AllocFails \/ CancelSeen \/ ReadFails
  BY <1>4 DEF RequestFails, Goto, AllocFails, CancelSeen, ReadFails, Cancelled
<1>5. CASE Response
  BY <1>5 DEF Response, Goto, DownloadLengthValid
<1>6. CASE Backup
  BY <1>6 DEF Backup, Goto
<1>7. CASE CreateFile
  BY <1>7 DEF CreateFile, Goto
<1>8. CASE ReadEnd
  BY <1>8 DEF ReadEnd, Goto, Cancelled
<1>9. CASE Read
  <2> SUFFICES ASSUME NEW chunk \in 1 .. MaxLength,
                      pc = "loop", ~Cancelled,
                      ReadInvalid(chunk) \/ ReadValid(chunk) \/ WriteFails(chunk)
               PROVE  Sized'
    BY <1>9 DEF Read
  <2>1. CASE ReadInvalid(chunk)
    BY <2>1 DEF ReadInvalid, Goto
  <2>2. CASE ReadValid(chunk)
    BY <2>2 DEF ReadValid, Goto, DownloadChunkValid, Cancelled
  <2>3. CASE WriteFails(chunk)
    BY <2>3 DEF WriteFails, Goto, DownloadChunkValid
  <2> QED
    BY <2>1, <2>2, <2>3
<1>10. CASE Close
  BY <1>10 DEF Close, Goto
<1>11. CASE Restore
  BY <1>11 DEF Restore, Goto
<1>12. CASE ReturnToCaller
  BY <1>12 DEF ReturnToCaller, Return
<1>13. CASE DataReturned
  BY <1>13 DEF DataReturned, Begin, Return
<1>14. CASE SignatureInvalid \/ SignatureValid
  BY <1>14 DEF SignatureInvalid, Return, SignatureValid, Goto
<1>15. CASE Save
  BY <1>15 DEF Save, Return
<1> QED
  BY <1>1, <1>2, <1>3, <1>4, <1>5, <1>6, <1>7, <1>8, <1>9, <1>10, <1>11,
     <1>12, <1>13, <1>14, <1>15 DEF Next, Download

\* No step makes a file longer than it should be.
LEMMA AllFitStep == IInv /\ [Next]_vars => AllFit'
<1> SUFFICES ASSUME IInv, [Next]_vars PROVE AllFit'
  OBVIOUS
<1> USE DownloadAssumption, ContentsLemma DEF IInv, Typed, Kept, Sized, AllFit,
     Fits, ToFile, disk, local, history
<1>1. CASE Reuse \/ UserCancel \/ Terminated \/ UNCHANGED vars
  BY <1>1 DEF Reuse, UserCancel, Terminated, vars
<1>2. CASE Call
  BY <1>2 DEF Call, Begin
<1>3. CASE Crash
  BY <1>3 DEF Crash
<1>4. CASE RequestFails \/ AllocFails \/ CancelSeen \/ ReadFails
  BY <1>4 DEF RequestFails, Goto, AllocFails, CancelSeen, ReadFails, Cancelled
<1>5. CASE Response
  BY <1>5 DEF Response, Goto, DownloadLengthValid
<1>6. CASE Backup
  BY <1>6 DEF Backup, Goto
<1>7. CASE CreateFile
  BY <1>7 DEF CreateFile, Goto
<1>8. CASE ReadEnd
  BY <1>8 DEF ReadEnd, Goto, Cancelled
<1>9. CASE Read
  <2> SUFFICES ASSUME NEW chunk \in 1 .. MaxLength,
                      pc = "loop", ~Cancelled,
                      ReadInvalid(chunk) \/ ReadValid(chunk) \/ WriteFails(chunk)
               PROVE  AllFit'
    BY <1>9 DEF Read
  <2>1. CASE ReadInvalid(chunk)
    BY <2>1 DEF ReadInvalid, Goto
  <2>2. CASE ReadValid(chunk)
    BY <2>2 DEF ReadValid, Goto, DownloadChunkValid, Cancelled
  <2>3. CASE WriteFails(chunk)
    BY <2>3 DEF WriteFails, Goto, DownloadChunkValid
  <2> QED
    BY <2>1, <2>2, <2>3
<1>10. CASE Close
  BY <1>10 DEF Close, Goto
<1>11. CASE Restore
  BY <1>11 DEF Restore, Goto
<1>12. CASE ReturnToCaller
  BY <1>12 DEF ReturnToCaller, Return
<1>13. CASE DataReturned
  BY <1>13 DEF DataReturned, Begin, Return
<1>14. CASE SignatureInvalid \/ SignatureValid
  BY <1>14 DEF SignatureInvalid, Return, SignatureValid, Goto
<1>15. CASE Save
  BY <1>15 DEF Save, Return
<1> QED
  BY <1>1, <1>2, <1>3, <1>4, <1>5, <1>6, <1>7, <1>8, <1>9, <1>10, <1>11,
     <1>12, <1>13, <1>14, <1>15 DEF Next, Download

\* A download to memory changes the disk only when the file is saved.
LEMMA SignedOnDiskStep == IInv /\ [Next]_vars => SignedOnDisk'
<1> SUFFICES ASSUME IInv, [Next]_vars PROVE SignedOnDisk'
  OBVIOUS
<1> USE DEF IInv, Typed, Kept, Sized, OnDisk, SignedOnDisk, ToFile, disk, local,
     history
<1>1. CASE Reuse \/ UserCancel \/ Terminated \/ UNCHANGED vars
  BY <1>1 DEF Reuse, UserCancel, Terminated, vars
<1>2. CASE Call
  BY <1>2 DEF Call, Begin
<1>3. CASE Crash
  BY <1>3 DEF Crash
<1>4. CASE RequestFails \/ AllocFails \/ CancelSeen \/ ReadFails
  BY <1>4 DEF RequestFails, Goto, AllocFails, CancelSeen, ReadFails, Cancelled
<1>5. CASE Response
  BY <1>5 DEF Response, Goto, DownloadLengthValid
<1>6. CASE Backup
  BY <1>6 DEF Backup, Goto
<1>7. CASE CreateFile
  BY <1>7 DEF CreateFile, Goto
<1>8. CASE ReadEnd
  BY <1>8 DEF ReadEnd, Goto, Cancelled
<1>9. CASE Read
  <2> SUFFICES ASSUME NEW chunk \in 1 .. MaxLength,
                      pc = "loop", ~Cancelled,
                      ReadInvalid(chunk) \/ ReadValid(chunk) \/ WriteFails(chunk)
               PROVE  SignedOnDisk'
    BY <1>9 DEF Read
  <2>1. CASE ReadInvalid(chunk)
    BY <2>1 DEF ReadInvalid, Goto
  <2>2. CASE ReadValid(chunk)
    BY <2>2 DEF ReadValid, Goto, DownloadChunkValid, Cancelled
  <2>3. CASE WriteFails(chunk)
    BY <2>3 DEF WriteFails, Goto, DownloadChunkValid
  <2> QED
    BY <2>1, <2>2, <2>3
<1>10. CASE Close
  BY <1>10 DEF Close, Goto
<1>11. CASE Restore
  BY <1>11 DEF Restore, Goto
<1>12. CASE ReturnToCaller
  BY <1>12 DEF ReturnToCaller, Return
<1>13. CASE DataReturned
  BY <1>13 DEF DataReturned, Begin, Return
<1>14. CASE SignatureInvalid \/ SignatureValid
  BY <1>14 DEF SignatureInvalid, Return, SignatureValid, Goto
<1>15. CASE Save
  BY <1>15 DEF Save, Return
<1> QED
  BY <1>1, <1>2, <1>3, <1>4, <1>5, <1>6, <1>7, <1>8, <1>9, <1>10, <1>11,
     <1>12, <1>13, <1>14, <1>15 DEF Next, Download

\* The two flags keep telling where the earlier file is.
LEMMA FileOnDiskStep == IInv /\ [Next]_vars => FileOnDisk'
<1> SUFFICES ASSUME IInv, [Next]_vars PROVE FileOnDisk'
  OBVIOUS
<1> USE DownloadAssumption, ContentsLemma DEF IInv, Typed, Kept, Sized, OnDisk,
     FileOnDisk, BackupKept, EarlierKept, Vacated, ToFile, disk, local, history
<1>1. CASE Reuse \/ UserCancel \/ Terminated \/ UNCHANGED vars
  BY <1>1 DEF Reuse, UserCancel, Terminated, vars
<1>2. CASE Call
  BY <1>2 DEF Call, Begin
<1>3. CASE Crash
  BY <1>3 DEF Crash
<1>4. CASE RequestFails \/ AllocFails \/ CancelSeen \/ ReadFails
  BY <1>4 DEF RequestFails, Goto, AllocFails, CancelSeen, ReadFails, Cancelled
<1>5. CASE Response
  BY <1>5 DEF Response, Goto, DownloadLengthValid
<1>6. CASE Backup
  BY <1>6 DEF Backup, Goto
<1>7. CASE CreateFile
  BY <1>7 DEF CreateFile, Goto
<1>8. CASE ReadEnd
  BY <1>8 DEF ReadEnd, Goto, Cancelled
<1>9. CASE Read
  <2> SUFFICES ASSUME NEW chunk \in 1 .. MaxLength,
                      pc = "loop", ~Cancelled,
                      ReadInvalid(chunk) \/ ReadValid(chunk) \/ WriteFails(chunk)
               PROVE  FileOnDisk'
    BY <1>9 DEF Read
  <2>1. CASE ReadInvalid(chunk)
    BY <2>1 DEF ReadInvalid, Goto
  <2>2. CASE ReadValid(chunk)
    BY <2>2 DEF ReadValid, Goto, DownloadChunkValid, Cancelled
  <2>3. CASE WriteFails(chunk)
    BY <2>3 DEF WriteFails, Goto, DownloadChunkValid
  <2> QED
    BY <2>1, <2>2, <2>3
<1>10. CASE Close
  BY <1>10 DEF Close, Goto
<1>11. CASE Restore
  BY <1>11 DEF Restore, Goto
<1>12. CASE ReturnToCaller
  BY <1>12 DEF ReturnToCaller, Return
<1>13. CASE DataReturned
  BY <1>13 DEF DataReturned, Begin, Return
<1>14. CASE SignatureInvalid \/ SignatureValid
  BY <1>14 DEF SignatureInvalid, Return, SignatureValid, Goto
<1>15. CASE Save
  BY <1>15 DEF Save, Return
<1> QED
  BY <1>1, <1>2, <1>3, <1>4, <1>5, <1>6, <1>7, <1>8, <1>9, <1>10, <1>11,
     <1>12, <1>13, <1>14, <1>15 DEF Next, Download

\* A cancellation that comes while data is missing is not lost.
LEMMA EndedStep == IInv /\ [Next]_vars => Ended'
<1> SUFFICES ASSUME IInv, [Next]_vars PROVE Ended'
  OBVIOUS
<1> USE DEF IInv, Typed, Kept, Sized, Ended, Active, disk, local, history
<1>1. CASE Reuse \/ Terminated \/ UNCHANGED vars
  BY <1>1 DEF Reuse, Terminated, vars
<1>2. CASE UserCancel
  <2>1. ErrorStatus' = "cancelled" /\ UNCHANGED <<pc, result>> /\ (missed' => missed \/ pc = "loop")
    BY <1>2 DEF UserCancel
  <2>2. pc # "idle" => result = "none"
    OBVIOUS
  <2>3. missed /\ pc \in Active => pc = "loop"
    OBVIOUS
  <2> QED
    BY <2>1, <2>2, <2>3
<1>3. CASE Call
  BY <1>3 DEF Call, Begin
<1>4. CASE Crash
  BY <1>4 DEF Crash
<1>5. CASE RequestFails \/ AllocFails \/ CancelSeen \/ ReadFails
  BY <1>5 DEF RequestFails, Goto, AllocFails, CancelSeen, ReadFails, Cancelled
<1>6. CASE Response
  BY <1>6 DEF Response, Goto, DownloadLengthValid
<1>7. CASE Backup
  BY <1>7 DEF Backup, Goto
<1>8. CASE CreateFile
  BY <1>8 DEF CreateFile, Goto
<1>9. CASE ReadEnd
  BY <1>9 DEF ReadEnd, Goto, Cancelled
<1>10. CASE Read
  <2> SUFFICES ASSUME NEW chunk \in 1 .. MaxLength,
                      pc = "loop", ~Cancelled,
                      ReadInvalid(chunk) \/ ReadValid(chunk) \/ WriteFails(chunk)
               PROVE  Ended'
    BY <1>10 DEF Read
  <2>1. CASE ReadInvalid(chunk)
    BY <2>1 DEF ReadInvalid, Goto
  <2>2. CASE ReadValid(chunk)
    BY <2>2 DEF ReadValid, Goto, DownloadChunkValid, Cancelled
  <2>3. CASE WriteFails(chunk)
    BY <2>3 DEF WriteFails, Goto, DownloadChunkValid
  <2> QED
    BY <2>1, <2>2, <2>3
<1>11. CASE Close
  BY <1>11 DEF Close, Goto
<1>12. CASE Restore
  BY <1>12 DEF Restore, Goto
<1>13. CASE ReturnToCaller
  BY <1>13 DEF ReturnToCaller, Return
<1>14. CASE DataReturned
  BY <1>14 DEF DataReturned, Begin, Return
<1>15. CASE SignatureInvalid \/ SignatureValid
  BY <1>15 DEF SignatureInvalid, Return, SignatureValid, Goto
<1>16. CASE Save
  BY <1>16 DEF Save, Return
<1> QED
  BY <1>1, <1>2, <1>3, <1>4, <1>5, <1>6, <1>7, <1>8, <1>9, <1>10, <1>11,
     <1>12, <1>13, <1>14, <1>15, <1>16 DEF Next, Download

\* What a call finds on the disk has a whole image.
LEMMA WasWholeStep == IInv /\ [Next]_vars => WasWhole'
<1> SUFFICES ASSUME IInv, [Next]_vars PROVE WasWhole'
  OBVIOUS
<1> USE DEF IInv, WasWhole, AlwaysAWholeImage, disk, local, history
<1>1. CASE Call
  BY <1>1 DEF Call, Begin
<1>2. CASE Reuse \/ UserCancel \/ Terminated \/ UNCHANGED vars \/ Crash \/
          RequestFails \/ AllocFails \/ CancelSeen \/ ReadFails \/ Response \/
          Backup \/ CreateFile \/ ReadEnd \/ Read \/ Close \/ Restore \/
          ReturnToCaller \/ DataReturned \/ SignatureInvalid \/ SignatureValid
          \/ Save
  BY <1>2 DEF Reuse, UserCancel, Terminated, vars, Crash, RequestFails, Goto,
     AllocFails, CancelSeen, ReadFails, Cancelled, Response,
     DownloadLengthValid, Backup, CreateFile, ReadEnd, Read, ReadInvalid,
     ReadValid, WriteFails, Close, Restore, ReturnToCaller, Return,
     DataReturned, Begin, SignatureInvalid, SignatureValid, Save
<1> QED
  BY <1>1, <1>2 DEF Next, Download

\* Success is only returned with the whole file on the disk.
LEMMA SuccessStep == IInv /\ [Next]_vars => SuccessIsWhole'
<1> SUFFICES ASSUME IInv, [Next]_vars PROVE SuccessIsWhole'
  OBVIOUS
<1> USE DownloadAssumption, ContentsLemma DEF IInv, Typed, Kept, Sized, AllFit,
     Fits, OnDisk, SignedOnDisk, FileOnDisk, Ended, Active, SuccessIsWhole,
     Whole, ToFile, disk, local, history
<1>1. CASE Reuse \/ UserCancel \/ Terminated \/ UNCHANGED vars
  BY <1>1 DEF Reuse, UserCancel, Terminated, vars
<1>2. CASE Call
  BY <1>2 DEF Call, Begin
<1>3. CASE Crash
  BY <1>3 DEF Crash
<1>4. CASE RequestFails \/ AllocFails \/ CancelSeen \/ ReadFails
  BY <1>4 DEF RequestFails, Goto, AllocFails, CancelSeen, ReadFails, Cancelled
<1>5. CASE Response
  BY <1>5 DEF Response, Goto, DownloadLengthValid
<1>6. CASE Backup
  BY <1>6 DEF Backup, Goto
<1>7. CASE CreateFile
  BY <1>7 DEF CreateFile, Goto
<1>8. CASE ReadEnd
  BY <1>8 DEF ReadEnd, Goto, Cancelled
<1>9. CASE Read
  <2> SUFFICES ASSUME NEW chunk \in 1 .. MaxLength,
                      pc = "loop", ~Cancelled,
                      ReadInvalid(chunk) \/ ReadValid(chunk) \/ WriteFails(chunk)
               PROVE  SuccessIsWhole'
    BY <1>9 DEF Read
  <2>1. CASE ReadInvalid(chunk)
    BY <2>1 DEF ReadInvalid, Goto
  <2>2. CASE ReadValid(chunk)
    BY <2>2 DEF ReadValid, Goto, DownloadChunkValid, Cancelled
  <2>3. CASE WriteFails(chunk)
    BY <2>3 DEF WriteFails, Goto, DownloadChunkValid
  <2> QED
    BY <2>1, <2>2, <2>3
<1>10. CASE Close
  BY <1>10 DEF Close, Goto
<1>11. CASE Restore
  BY <1>11 DEF Restore, Goto
<1>12. CASE ReturnToCaller
  BY <1>12 DEF ReturnToCaller, Return
<1>13. CASE DataReturned
  BY <1>13 DEF DataReturned, Begin, Return
<1>14. CASE SignatureInvalid \/ SignatureValid
  BY <1>14 DEF SignatureInvalid, Return, SignatureValid, Goto
<1>15. CASE Save
  BY <1>15 DEF Save, Return
<1> QED
  BY <1>1, <1>2, <1>3, <1>4, <1>5, <1>6, <1>7, <1>8, <1>9, <1>10, <1>11,
     <1>12, <1>13, <1>14, <1>15 DEF Next, Download

\* Failure is only returned once the earlier file is back.
LEMMA FailureStep == IInv /\ [Next]_vars => FailureRestores'
<1> SUFFICES ASSUME IInv, [Next]_vars PROVE FailureRestores'
  OBVIOUS
<1> USE DEF IInv, Typed, Kept, OnDisk, FileOnDisk, EarlierKept, Ended,
     FailureRestores, ToFile, disk, local, history
<1>1. CASE Reuse \/ UserCancel \/ Terminated \/ UNCHANGED vars
  BY <1>1 DEF Reuse, UserCancel, Terminated, vars
<1>2. CASE Call
  BY <1>2 DEF Call, Begin
<1>3. CASE Crash
  BY <1>3 DEF Crash
<1>4. CASE RequestFails \/ AllocFails \/ CancelSeen \/ ReadFails
  BY <1>4 DEF RequestFails, Goto, AllocFails, CancelSeen, ReadFails, Cancelled
<1>5. CASE Response
  BY <1>5 DEF Response, Goto, DownloadLengthValid
<1>6. CASE Backup
  BY <1>6 DEF Backup, Goto
<1>7. CASE CreateFile
  BY <1>7 DEF CreateFile, Goto
<1>8. CASE ReadEnd
  BY <1>8 DEF ReadEnd, Goto, Cancelled
<1>9. CASE Read
  <2> SUFFICES ASSUME NEW chunk \in 1 .. MaxLength,
                      pc = "loop", ~Cancelled,
                      ReadInvalid(chunk) \/ ReadValid(chunk) \/ WriteFails(chunk)
               PROVE  FailureRestores'
    BY <1>9 DEF Read
  <2>1. CASE ReadInvalid(chunk)
    BY <2>1 DEF ReadInvalid, Goto
  <2>2. CASE ReadValid(chunk)
    BY <2>2 DEF ReadValid, Goto, DownloadChunkValid, Cancelled
  <2>3. CASE WriteFails(chunk)
    BY <2>3 DEF WriteFails, Goto, DownloadChunkValid
  <2> QED
    BY <2>1, <2>2, <2>3
<1>10. CASE Close
  BY <1>10 DEF Close, Goto
<1>11. CASE Restore
  BY <1>11 DEF Restore, Goto
<1>12. CASE ReturnToCaller
  BY <1>12 DEF ReturnToCaller, Return
<1>13. CASE DataReturned
  BY <1>13 DEF DataReturned, Begin, Return
<1>14. CASE SignatureInvalid \/ SignatureValid
  BY <1>14 DEF SignatureInvalid, Return, SignatureValid, Goto
<1>15. CASE Save
  BY <1>15 DEF Save, Return
<1> QED
  BY <1>1, <1>2, <1>3, <1>4, <1>5, <1>6, <1>7, <1>8, <1>9, <1>10, <1>11,
     <1>12, <1>13, <1>14, <1>15 DEF Next, Download

\* No step takes the last whole image away.
LEMMA WholeImageStep == IInv /\ [Next]_vars => AlwaysAWholeImage'
<1> SUFFICES ASSUME IInv, [Next]_vars PROVE AlwaysAWholeImage'
  OBVIOUS
<1> USE DownloadAssumption, ContentsLemma DEF IInv, Typed, Kept, Sized, OnDisk,
     FileOnDisk, BackupKept, Vacated, WasWhole, AlwaysAWholeImage, Whole,
     ToFile, disk, local, history
<1>1. CASE Reuse \/ UserCancel \/ Terminated \/ UNCHANGED vars
  BY <1>1 DEF Reuse, UserCancel, Terminated, vars
<1>2. CASE Call
  BY <1>2 DEF Call, Begin
<1>3. CASE Crash
  BY <1>3 DEF Crash
<1>4. CASE RequestFails \/ AllocFails \/ CancelSeen \/ ReadFails
  BY <1>4 DEF RequestFails, Goto, AllocFails, CancelSeen, ReadFails, Cancelled
<1>5. CASE Response
  BY <1>5 DEF Response, Goto, DownloadLengthValid
<1>6. CASE Backup
  BY <1>6 DEF Backup, Goto
<1>7. CASE CreateFile
  BY <1>7 DEF CreateFile, Goto
<1>8. CASE ReadEnd
  BY <1>8 DEF ReadEnd, Goto, Cancelled
<1>9. CASE Read
  <2> SUFFICES ASSUME NEW chunk \in 1 .. MaxLength,
                      pc = "loop", ~Cancelled,
                      ReadInvalid(chunk) \/ ReadValid(chunk) \/ WriteFails(chunk)
               PROVE  AlwaysAWholeImage'
    BY <1>9 DEF Read
  <2>1. CASE ReadInvalid(chunk)
    BY <2>1 DEF ReadInvalid, Goto
  <2>2. CASE ReadValid(chunk)
    BY <2>2 DEF ReadValid, Goto, DownloadChunkValid, Cancelled
  <2>3. CASE WriteFails(chunk)
    BY <2>3 DEF WriteFails, Goto, DownloadChunkValid
  <2> QED
    BY <2>1, <2>2, <2>3
<1>10. CASE Close
  BY <1>10 DEF Close, Goto
<1>11. CASE Restore
  BY <1>11 DEF Restore, Goto
<1>12. CASE ReturnToCaller
  BY <1>12 DEF ReturnToCaller, Return
<1>13. CASE DataReturned
  BY <1>13 DEF DataReturned, Begin, Return
<1>14. CASE SignatureInvalid \/ SignatureValid
  BY <1>14 DEF SignatureInvalid, Return, SignatureValid, Goto
<1>15. CASE Save
  BY <1>15 DEF Save, Return
<1> QED
  BY <1>1, <1>2, <1>3, <1>4, <1>5, <1>6, <1>7, <1>8, <1>9, <1>10, <1>11,
     <1>12, <1>13, <1>14, <1>15 DEF Next, Download

LEMMA Invariance == Spec => []IInv
<1>1. IInv /\ [Next]_vars => IInv'
  BY FlagsStep, KeptStep, SizedStep, AllFitStep, SignedOnDiskStep, FileOnDiskStep,
     EndedStep, WasWholeStep, SuccessStep, FailureStep, WholeImageStep DEF IInv, Typed, OnDisk
<1> QED
  BY <1>1, InitLemma, PTL DEF Spec

\* The types of the state.  That what DownloadSignedFile() has in memory is at
\* most MaxBuffered long rests on the limit that the length is compared with.
THEOREM TypeCorrect == Spec => []TypeOK
<1>1. IInv => TypeOK
  BY DEF IInv, Typed, Kept, Flags, Active, TypeOK
<1> QED
  BY <1>1, Invariance, PTL

\* A download that succeeds leaves the whole file, of the length that the server
\* has declared, whatever chunks were read and whenever the user has cancelled.
THEOREM SuccessLeavesWholeFile == Spec => []SuccessIsWhole
<1>1. IInv => SuccessIsWhole
  BY DEF IInv
<1> QED
  BY <1>1, Invariance, PTL

\* A download to a file that fails, at whatever step, leaves the disk as it was; or,
\* where a file could not be deleted or moved back, all of the files that were there.
THEOREM FailureLeavesDisk == Spec => []FailureRestores
<1>1. IInv => FailureRestores
  BY DEF IInv
<1> QED
  BY <1>1, Invariance, PTL

\* An image that was there is never lost to a download of the same name, whatever
\* number of downloads fail, are cancelled or are cut short by a crash.
THEOREM ImageIsNeverLost == Spec => []AlwaysAWholeImage
<1>1. IInv => AlwaysAWholeImage
  BY DEF IInv
<1> QED
  BY <1>1, Invariance, PTL

=============================================================================
