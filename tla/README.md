# A formal model of Nawam

Nawam (a fork of Rufus) writes disk images to USB drives on Windows: one
process, a single-threaded dialog, and worker threads that read, hash, format
and write. This directory holds TLA+ models of its core logic, TLC
configurations that check them on small instances, and TLAPS proofs of their
most important invariants for every value of the constants.

Source paths below are relative to the repository's `src/` directory.

## 1. Inventory

| Component | State | Operations | What makes it correct |
|---|---|---|---|
| Hash pipeline, `hash.c` `HashThread`, `IndividualHashThread`, with `winio.h` | a ring of three buffers, `proc_bufnum`, `read_size`, a pair of events per algorithm | read, wait, signal, hash, finalize, join, cancel | no buffer is read into while it is hashed; every digest is of the whole image; it ends |
| Image write, `format.c` `WriteDrive` | two buffers, `wb`, the file pointer of the drive | read, round, write, retry, cancel | what is counted as written is on the drive; success is complete |
| Drive zeroing, `format.c` `WriteDrive` | `wb`, the throttle, the file pointer | compare, skip, write, retry, cancel | no data is left; the file pointer follows the progress |
| Compressed write, `format.c` `sector_write` | the partial sector `sec_buf` | a block of any size, the last write | nothing is lost, repeated or reordered |
| Main dialog, `rufus.c` `MainCallback` | `op_in_progress`, `format_thread`, the controls, the image, the drive list | select, scan, start, confirm, hash, save, cancel, hotplug, download | one operation at a time, on what the user has selected and confirmed; every operation ends |
| Security refresh, `net.c`, gated by `stdlg.c` | a cache file and a marker per architecture, in the registry or in an ini | metadata, download, replace, publish | the revocation list in use is whole and never behind what was reported |
| Format thread, `format.c` `FormatThread` | the handles of the drive and of its volume, the letter, `ErrorStatus` | delete, clear, check, write, partition, format, boot records, copy, release | READY only when all was done; a cancellation is seen; each stage has its handles and the drive is released |
| Bad blocks check, `badblocks.c` `test_rw` | the block under test, the transfer size, the list | write, read, compare, recover, interrupt | every bad block, and no good one, is reported, once; it ends |
| Partition layout, `drive.c` `CreatePartition` | `SelectedDrive.Partition[]`, the partition table | compute, clear, write, set | partitions do not overlap, are aligned, leave the GPT alone |
| FAT32 layout, `format_fat32.c` `FormatLargeFAT32` | the reserved sectors, the FATs, what was cleared | compute, check, clear, write | every cluster has its entry; the clusters are aligned and within the partition |
| Download, `net.c` `DownloadToFileOrBufferEx`, `DownloadSignedFile` | the file and its backup, `ErrorStatus`, `DownloadStatus` | move, download, restore, validate, save | success is a whole file; failure restores; an image is never lost |
| Process search, `process.c` | a thread, a mutex, names with a version, the list of processes | start, set, search, get, stop | the report is of the selected drive and complete; no call hangs |
| Validators, `nawam_safety.h`, `nawam_security.h` | none | parse, bound | the length checks are part of Download; the others enter as verdicts |

The rest (device enumeration through SetupAPI, ISO extraction, signatures,
settings, localization, presentation, vendored libraries) is listed in
`PROJECT.json` with the reason why it is not modelled.

How they interact. The dialog creates every thread and is told of its end by a
posted message (`UM_FORMAT_START`, `UM_FORMAT_COMPLETED`, `UM_SELECT_ISO`) or by
controls that the thread enables itself. All of them share globals without a
lock: `ErrorStatus` carries the cancellation from the dialog to a worker and the
error back, `image_path` and `img_report` the image, `op_in_progress` and
`format_thread` the exclusion. Modal dialogs keep dispatching messages, so a
handler that asks a question is not atomic. The hash pipeline has an inner
concurrency of its own, and the file operations one with the operating system,
which owns a buffer between `ReadFileAsync` and `WaitFileAsync`. Only the security
refresh keeps something across runs of the program.

What is hard to test is listed under "hazards" in `PROJECT.json`, at the line
where it bites.

## 2. Modules

| Module | Models | EXTENDS / INSTANCE |
|---|---|---|
| `HashService` | the abstract service: digests are delivered, then success or failure | |
| `HashPipeline` | `hash.c`, and `winio.h` as it uses it | INSTANCEs `HashService` |
| `HashPipelineProofs` | proofs, the refinement's safety part too | `HashPipeline`, TLAPS |
| `WriteDriveParameters` | what the three ways of `WriteDrive` share | |
| `WriteImage`, `ZeroDrive`, `SectorWrite` | the three ways of `WriteDrive` | extend `WriteDriveParameters` |
| `WriteDrive` | the choice between them, over one drive | INSTANCEs the three |
| `WriteDriveProofs` | proofs | `WriteDrive`, TLAPS |
| `MainDialog` | the dialog and the threads as it sees them | |
| `MainDialogProofs` | proofs | `MainDialog`, TLAPS |
| `DbxRefresh`, `MCDbxRefresh` | the security refresh; an instance of it | |
| `DbxRefreshProofs` | proofs | `DbxRefresh`, TLAPS |
| `FormatThread` | the stages of `FormatThread` and the ways out of them | |
| `BadBlocks` | `badblocks.c` | |
| `BadBlocksStage` | the check as a stage of the format thread, with its properties | INSTANCEs `BadBlocks` |
| `FormatThreadProofs` | proofs, of the stage that checks for bad blocks too | `FormatThread`, `BadBlocksStage`, TLAPS |
| `LayoutParameters` | units and alignments | |
| `PartitionLayout`, `FormatFat32` | `CreatePartition`; `FormatLargeFAT32` | extend `LayoutParameters` |
| `DriveLayout`, `MCDriveLayout` | FAT32 in the partition that was made for it; an instance | extends both |
| `DriveLayoutProofs` | proofs | `DriveLayout`, TLAPS |
| `Download` | the two download functions and their callers | |
| `DownloadProofs` | proofs | `Download`, TLAPS |
| `ProcessSearch`, `MCProcessSearch` | `process.c`; an instance | |
| `ProcessSearchProofs` | proofs | `ProcessSearch`, TLAPS |

`PROJECT.json` maps each definition to its lines. Definitions whose comment
begins with "Mistake:" are not part of any specification: each is a plausible bug
that shows that some property depends on the definition after it.

### HashPipeline

One action per step of `HashThread` (`CreateHashThread`, `OpenImage`, `LoopTest`,
`ReadComplete`, `AllThreadsReady`, `SignalData`, `Join`, `Out`) and of
`IndividualHashThread` (`Start`, `Wake`, `BeginHash`, `EndHash`, `ThreadReady`,
`Finalize`). The operating system is an actor: from `ReadFileAsync` until
`KernelRead` it may change the buffer, which then holds `Torn`. A hash thread takes
`hash_write()` in two steps, so that a buffer that changes in between would show.
The image is the sequence of its chunks, and a digest the sequence of the chunks
that went into it. `SetEvent` may fail, threads and events may fail to be
created, reads may fail or time out, and the user may cancel at any point.

A hash thread waits 5 s for data, the reader 15 s for a read: a thread may give up
at any of its waits (`WaitTimeout`, state `late`). The reader notices all of them but
the last: a thread that misses the event with `read_size` 0 has hashed everything and
finalized nothing. So success means that every thread has hashed the whole image
(`SuccessMeansAllHashed`), not that every digest was computed
(`SuccessMeansAllFinalized`, `HashPipelineLateSuccess` in section 4).

`HashService` is what the rest of the program can rely on: digests of the whole image
are delivered one by one, an algorithm may give up instead, and success comes after
each has done one or the other. `ImplementsHashService` is the refinement.

### WriteDrive: WriteImage, ZeroDrive, SectorWrite

`WriteDrive` has the state that the three ways of the function share (`disk`, the file
pointer `pos`, `wb`, `ErrorStatus`), chooses one of them and lets the module of that way
do the steps. Sizes are small integers, and byte `p` of an image has the content `p`,
so that "the drive holds the image" is `disk[p] = p`. Unsigned 64-bit subtraction wraps
(`Minus`), at `Modulus`: any number that is above the sizes, 2^64 in the code. A read
may return less than was requested, and a failed write has written any number of whole
sectors. A read that ends within a sector, or with nothing before the end of the image
(`torn`), spoils what comes after it: its size is rounded up while the next read goes on
from its real end, or the loop ends. The properties make no claim on the content after
that (`WriteDriveShortRead` in section 4). The rewind at the beginning may fail, which
the code only logs; what is then written is at the wrong place, and the properties that
speak of places say so (`rewound`). `ZeroDrive` counts in
sectors, and a block is blank when all of its sectors are zeroed, or all erased.
`Throttle` is 15 in the code and 1 in the run, which lets the comparison happen again
within a few blocks. In `SectorWrite` a call may deliver any number of bytes.

### MainDialog

An action is a handler of `MainCallback`, up to the point where it opens a modal
dialog, or a step of a thread that the dialog can see. `dialog` is the modal dialog
of the main thread; posted messages are in `msgs`, those that are sent take effect
at once. `GetDevices` includes the notification of `IDC_DEVICE` that it sends, and
so `PopulateProperties` and its `EnableControls(TRUE)`. An image and a drive are only
identities: which file system, which cluster size and which label are selected
matter to `FormatThread` alone.

Two handlers do not look at `op_in_progress`: a file that is dropped on the window is
scanned also during the preliminary checks or another scan (`DropFile`, `DropUnnamed`), and
`UM_SELECT_ISO` may arrive before the download has sent `UM_ENABLE_CONTROLS`. Both are
modelled as they are, and the history variable `hitches` records that one of them has
begun a scan during an operation. From then on two operations may run at once, which is
what finding 1 and `MainDialogLateDownload` are about. The properties
`OneOperationAtATime`, `HotplugKeepsTheDrive` and `WritesTheScannedImage` are stated up to
that point (`Untroubled`), and the two progress properties count reaching it as an
end; `CancelIsAvailable` has no such limit. `MainDialog.cfg` and `MainDialogProgress.cfg` do
not explore what comes after it (`CONSTRAINT Untroubled`), where the former three and the
progress properties claim nothing; TLC still evaluates the invariants in the first
such state. `CancelIsAvailable` is proved without the limit.

`ForgetError` is the reset of `ErrorStatus` by `FormatThread` when partitions could not be
deleted: after a cancellation the operation then goes on with the Cancel button
disabled. That is why `CancelIsAvailable` speaks of the cancellation that the user has
requested (`cancel_requested`), not of the one that is recorded.

A scan thread that cannot be created leaves the
new image selected with the report of the one before; the history variable
`unscanned` remembers it, and `WritesTheScannedImage` makes no claim about such an
image. Of the errors only the cancellation is told apart: no branch of the dialog
that changes its state depends on the others.

Simplifications: one scan, one preliminary check and one download at a time, no
modal dialog within a modal dialog other than those named, and a scan that was
created begins before the next click.

### DbxRefresh

A DBX is its version: the timestamp of its commit. A temporary file is `Invalid`
until it is written as a whole; `Crash` keeps the cache files and the markers and
loses everything else, at any point. `Damage` models other programs, between two
refreshes. The server answers each time with any version: nothing is assumed of their
order. Between the metadata and the download it may publish another one, which the sha
in the URL keeps from being taken.

The markers are in the registry, where each is written at once, or, when the program is
portable, in an ini. `set_token_data_file` writes all of its lines to a copy, empties the
ini and copies them back: any subset of the markers may survive a kill
(`KilledInRewrite`), or a write that fails unnoticed (`PublishIni`). A number that was cut
short has fewer digits than a timestamp and counts as none. `lost` records which markers
went, until a refresh reports that architecture again; `AcknowledgedStaysInUse` and
`RefreshedMeansCurrent` leave out exactly those, since the code then falls back to the
embedded list. Other settings in the ini are not modelled, and it is only rewritten here
for a marker. The embedded DBX does not change: an upgrade of the program is not
modelled. The three text sources only count.

### FormatThread

A stage is what the thread does between two places where it may leave; `done` collects
the stages that succeeded. What a stage calls is modelled by how it may end. An option
record has what the thread branches on: the kind of drive, the loader, MBR, a volume
without a letter (`alt`: ESP and ext), persistence, the bad blocks check, VDS. The handles
are `invalid`, or opened with some access, and follow every open, close and reopen. The
user may cancel at any time; `late` collects the stages that ended well after that, and
`forgotten` tells that `ErrorStatus` was reset after it. `silent` has the stages that fail
without a status: they are named one by one in the actions, and `SuccessIsComplete`
shows that there are no others. Not modelled: sharing and locking modes, which letter is
used, the content of the drive. Inputs whose preparation is in the dialog (labels, file
systems) do not decide on a branch that is not an option here.

### BadBlocks

A block is good or has one defect (it cannot be written, cannot be read, or does not
keep its data); a drive may instead be a fake that stores its blocks modulo its real
size. A read returns what comes before the first block that fails; a write is done as a
whole, or not at all. Once the operation is cancelled `WriteFileWithRetry` writes nothing
(`Written`), and a drive of more than 1 TB may report that it has written nothing when it
has (`large_drive`): `refused` collects the good blocks that are listed for either. The timer of the
main thread, which passes on a cancellation, is an actor. The properties are stated in
`BadBlocksStage`, which gives the state names that the format thread leaves free.

### PartitionLayout, FormatFat32, DriveLayout

`CreatePartition` with its real arithmetic: units of 256 bytes keep 65 GB within TLC's
integers. The partitions in front of the main one and behind it are sequences (`Front`,
`Rear`) of at most two each, and `FrontOffset` and `RearOffset` are the values that the running
offset has at each of them. A failing `assert` ends the program, and it is in
the release build. `FormatLargeFAT32` computes the FAT from a first estimate and then
moves the data area to a multiple of 1 MB; the loop that clears the system area is modelled
burst by burst, with the write that fails past the end of the volume.

### Download

A file is its length and how much of it is there. The server declares any length and
sends chunks of any size, more than declared included; writing, moving and creating
files may fail, and the application may go down at any step (`Crash`), which leaves the file
and its backup as they are. Three roles cover the callers: an image that the user may
download again over an earlier one, a library that is downloaded if it does not exist, and a
signed file, which goes through memory with a second download for the signature. The
deletion of a partial file and the move of the backup may fail as well, which the code
does not look at; `leftover` records it.

### ProcessSearch

The search thread, and the client: the dialog and the format thread never call at the
same time. What is done under `hLock` is one step. An enumeration is a sequence of handles,
those of a process in a row; the model takes the thread through it handle by handle, so
that the drive may change at any point. `nPass` is a 32-bit counter that starts at 0 and
wraps (`Minus`). `Hitches` selects what is unusual: `slow`, the thread does not answer within
the timeouts and is terminated wherever it is, and `failing`, it gives up for lack of memory or
of the lock. A process that could not be stored because the wait for the lock timed out is
in `missed`; `SearchIsComplete` leaves it out, and those for which there was no free entry.
The history variable `last` is the last complete pass with its enumeration, against which a
report is compared.

## 3. Runs

| Run | Question | Instance | Distinct states |
|---|---|---|---|
| `hash_pipeline` | Is every digest right, does it implement the service, does it end? | 3 algorithms, 4 chunks | 206 254 |
| `write_drive` | Is the drive what was counted as written, and success complete? | sector 3, buffer 6, drive 9, images of 1 to 11 bytes; 3 sectors of any content; blocks to 8 | 404 101 |
| `main_dialog` | Do operations exclude each other and work on what was selected? | 2 images, 2 drives | 879 488 |
| `main_dialog_progress` | Does every operation end, is the drive list brought up to date? | 1, 2 | 360 896 |
| `main_dialog_busy_drop` | Is the drive the confirmed one also with a dropped file? (violation) | 1, 2 | |
| `dbx_refresh` | Is the list whole, current and not behind what was reported? | 2 architectures, versions to 2 | 1 466 728 |
| `process_search` | Is the report complete and of the selected drive, does no call hang? | 4 processes, 2 drives, 2 entries, 3 passes | 860 542 |
| `process_search_first_report` | Is it complete after the first pass? (violation) | same | |
| `download` | Whole files, restored files, no lost image? | 3 downloads, lengths to 4, memory for 3 | 280 886 |
| `format_thread` | Is READY true, is a cancellation seen, are the handles right, does it end? | every option, 2 repetitions of the check | 1 248 928 |
| `bad_blocks` | Are exactly the bad blocks reported? | 4 blocks, 3 at once, 2 passes, threshold 3 | 293 795 |
| `drive_layout` | Are the layouts sound, for real sizes? | sectors 512 and 4096, 3 tracks, 6 clusters, 5 drives to 65 GB | 309 018 |

Why the bounds are enough. The ring has three buffers: four chunks and the empty
last read make every buffer be used twice, and two or three algorithms are enough
for one thread to be ahead of or behind the others. The image sizes are around
every boundary: within the first sector, at and around the end of a buffer, of the
drive and past it (a drive of three sectors is one and a half buffers, and reads of one
sector each use a buffer again). Three sectors in blocks of two make the last block
smaller, and let it follow a block that is skipped, written or retried. Sectors of 3
bytes with blocks of 0 to 8 meet every combination of a partial sector before and after
a call. Two drives tell the confirmed from the
formatted one; two images the one that is written from the one that was scanned. Three
versions are one that is embedded, or none, an answer below it and one above; rolling back
takes a fourth (`DbxRefreshRollBack` in section 4). Two entries for three processes that
can be found fill the list; three passes are one more than an entry lives without being found again; two selections let the
drive change during a pass. Three downloads are one that is lost in a crash, one that meets
its leftovers, and one after it. Four blocks in transfers of three have a full and a shorter
transfer, and a defect at every place of both; two passes and a threshold of three let the
recovery of one phase reach into the next and the check be abandoned. The sizes of
`drive_layout` are real: clusters that divide a track, are divided by it, or neither, with
drives just below and above what the partitions need.

Fairness. `HashPipeline`: each thread is scheduled, and a pending read completes or
its wait times out; the code bounds every wait. `WriteDrive`: the thread goes on; its
retries are counted and its reads time out. `FormatThread`: the same, and the user answers
its questions; nothing is assumed of cancellations. `BadBlocks`: transfers end, the driver
has its timeouts. `ProcessSearch`: a call that has begun goes on, as does the thread, and
does not count on the timeout of the lock; the enumeration of the handles, which may fail each time, does not fail for ever (strong
fairness of `Enumerate`).
`MainDialog`: some thread that can go on does, the message loop dispatches, and the
user answers the modal dialogs; nothing is assumed of what the user clicks, nor of drives.
`DbxRefresh` and `Download` state no liveness: the user starts them, or does not; a loop over
chunks that are never empty ends.

Deadlock is checked in all runs; a specification that ends has a stuttering step
(`Terminated`, `Exited`) for its final states only.

`TypeOK` of all modules holds in these runs as well; only the cfgs of `hash_pipeline` and
`dbx_refresh` list it.

## 4. Findings

Two runs show where the code does not do what a comment, an assertion or the change log
says; `PROJECT.json` quotes them.

1. `rufus.c:3022` A file dropped during the preliminary checks lets the drive change after
   Start (`main_dialog_busy_drop`).
2. `process.c:563` In the first pass for a drive each process that is found prunes those
   before it, because `nPass - 1` wraps, and the first report only has the last one
   (`process_search_first_report`).

More such cases can be reproduced with the configurations below; TLC ends each with a
counterexample.

| Configuration | Module | What it shows |
|---|---|---|
| `HashPipelineLateSuccess` | `HashPipeline` | `hash.c:1978` A slow last read makes `HashThread` show a digest that was not computed. |
| `WriteDriveOverread` | `WriteDrive` | `format.c:1389` An image that ends within a sector is read past its end, against the comment at 1383. Nothing of it reaches the drive (`DriveHoldsWhatWasWritten`). |
| `WriteDriveShortRead` | `WriteDrive` | `format.c:1367` A read that ends within a sector, or with nothing before the end of the image, ends in a success with an image that is not complete. |
| `MainDialogLateDownload` | `MainDialog` | `net.c:1155` A late end of a download enables Start during the scan; the assertion `rufus.c:1520` may then fail. |
| `DbxRefreshRollBack` | `MCDbxRefresh` | `net.c:601` "never roll back": the guard compares with the marker, which is only written after the cache was replaced. After a crash in between, an older answer of the server replaces a newer list that was in use. What was reported to the user is never lost in this way (`AcknowledgedStaysInUse`). |
| `DbxRefreshUnmodified` | `MCDbxRefresh` | `parser.c:823` "original file has been left unmodified" is also said when the ini was emptied because the copy could not be opened. |
| `ProcessSearchAssert` | `MCProcessSearch` | `process.c:822` After the search thread was terminated the assert on its lock may fail and end the program. |
| `DownloadPartialReuse` | `Download` | `net.c:427` A signed file whose write failed stays under its name, and is used without another check. |
| `FormatThreadSilent` | `FormatThread` | `format.c:1632`, `format.c:1942` Without a log file for the bad blocks check the thread ends before the drive is formatted, and without the Grub4DOS loader it does not boot: both are shown as READY. |
| `FormatThreadCancel` | `FormatThread` | `format.c:1535` A cancellation is forgotten when the partitions could not be deleted after it, and the drive is formatted. |
| `BadBlocksUnchecked` | `BadBlocksStage` | `badblocks.c:538` The blocks before one that cannot be read, in the same transfer, are not compared: a corrupt one among them is missed. |
| `BadBlocksCancelled` | `BadBlocksStage` | `stdio.c:633` Between a cancellation and the timer that passes it on, good blocks cannot be written and are listed as bad. |

## 5. Proofs

For any number of algorithms and chunks (`HashPipelineProofs`):

- `TypeCorrect`: `TypeOK` is inductive as it stands.
- `BuffersApart`: `NoReadIntoHashedBuffer`. It is not inductive: it holds because of
  how far the reader can be ahead of each thread. `RingInv` says so: the buffer being
  read is the one after `read_bufnum`'s predecessor (`RingReader`), a thread that
  hashes does so in `proc_bufnum` and has its events clear (`RingThread`), and
  `proc_bufnum` only moves when no thread is at work, since each has set
  `thread_ready` after its last block (`Busy`).
- `DigestsAreOfTheImage`: `HashesAreOfTheImage`, from `HashInv`: what was handed out
  is a prefix of the image (`Handed`), the buffers and the pending read hold the
  chunks that follow (`ReadInv`, `CountInv`), and the context of each thread is that
  prefix, or lacks the chunk that it is about to take (`HashThreadInv`).

- `SuccessIsOfAll`, that is `SuccessMeansAllHashed`, and `PipelineImplementsService`, the
  refinement, from `JoinInv`: once the reader is at its join, or has succeeded, each thread
  has finalized its digest, or was handed the whole image and can only have given up
  after hashing all of it.

For any number of architectures and versions, whatever the server answers and in
whatever order (`DbxRefreshProofs`), from `IInv`: the version that a refresh is about to save
is at least the one the marker claims, and later than the embedded one or than none, until
it is published (`Pending`), and a cache that can be read is not a damaged one (`Undamaged`):

- `TypeCorrect`, `CacheIsSound` and `ReportIsTrue`. The last also needs that the
  architectures before the current one are current as long as nothing has failed
  (`Dealt`).
- `AcknowledgedIsKept`, that is `AcknowledgedStaysInUse`, from `Claimed`: what was
  acknowledged is not later than the marker, or than the embedded DBX, unless the marker
  was lost. With `CacheBacksMarker`, the cache is not older either. The stronger
  `NeverRollBack` does not hold: see `DbxRefreshRollBack` in section 4.

For any length of the files, size of the buffer and number of downloads (`DownloadProofs`):
`TypeCorrect`, `SuccessLeavesWholeFile`, `FailureLeavesDisk` and `ImageIsNeverLost`, that is
`SuccessIsWhole`, `FailureRestores` and `AlwaysAWholeImage`. None is inductive: after the label
`out` the code knows of the disk only `file_created` and `backup_moved`. `OnDisk` says at every
step how these relate the file and its backup to what was there at the call, `Sized` how far the
download is, and `WasWhole` that a crash, which forgets the flags, finds the image again. A
deletion or a move that fails is in them as `leftover`: nothing is lost then, but something may
be left.

For every combination of options and any number of repetitions (`FormatThreadProofs`):
`TypeCorrect`, `HandlesAreReleased`, `EveryStageHasItsHandles`, `SuccessHasDoneAll` and
`CancellationIsSeen`. The invariant has, for every stage, the handles that are open (`Held`), what
of the options has been dealt with (`Progress`), the letter of the volume (`Lettered`) and what may
have been done since the user has cancelled (`Noticed`).

For drives, transfers, passes and limits of any size, whatever blocks are bad (the last part of
`FormatThreadProofs`, over `BadBlocksStage`): `CheckTypeCorrect`,
`OnlyBadReported` and `EveryBadFound`, that is `OnlyBadBlocksReported` and `BadBlocksFound`. The
invariant `CheckInv` says that the list is sorted, without duplicates and as long as `bb_count`
says (`GoodFound`); that the listed blocks are bad, or were refused (`Only`); what the drive holds of this pass,
where the blocks of a fake one are stored over each other (`WrittenIsThere`, `Overwritten`); and
that the bad blocks which have been written or read are listed (`FoundAll`), except for those that
a failing transfer keeps from being compared, see `BadBlocksUnchecked` in section 4. What the
binary search finds (`SearchFinds`, `FindIsMember`) and what comparing a transfer adds to the list
(`ComparedAdds`) are inductions, made from the least counterexample in the well-founded order of the
naturals (`Least`, `Induction`): the induction is on a set of naturals, not on a predicate.

For any sector, buffer, drive and image (`WriteDriveProofs`): `TypeCorrect`, `ReadsStayInBounds`,
`WrittenIsOnTheDrive` and `SuccessMeansComplete`. Each way has an invariant: the request that is
pending begins where the buffer that is being written ends, and the bytes before `wb` are the
image's (`ImageInv`); the file pointer is at `wb` and no data is left before it (`ZeroInv`); the
drive and the partial sector are consecutive parts of the image (`SectorInv`). The subtraction for
the request after the last block may wrap around, and the proof shows that this does no harm:
nothing is left to read then.

For any images and drives (`MainDialogProofs`): `OneOperation`, `ConfirmedDrive` and
`ScannedImage`, from `Invariance`, which says that as long as no scan has begun during an operation
(`Untroubled`) the inductive invariant holds. The limit is needed: finding 1
and `MainDialogLateDownload` are what happens after it. Each gate (`op_in_progress`, the controls,
`format_thread`) is open at times when another is not, so that no property about them is inductive:
the invariant is that the dialog, its queue and its threads together are always in one of eleven
phases, with at most one message in the queue (`Phase`, `AtMostOne`). What an operation has learnt in
one phase holds in the next ones (`Scanned`, `HasImage`, `Chosen`). `NotIgnored` is a by-product:
messages that the dialog ignores when it is busy never come while it is. `CancelAvailable` holds
without the limit; it is inductive as it stands (`CancelStep`).

For drives of any size and geometry (`DriveLayoutProofs`): `TypeCorrect`, `PartitionsAreSound`,
`AssertsNeverFail`, `FileSystemIsSound` and `FileSystemFits`. Most of the proofs are arithmetic.
The next offset is rounded up to a track and then down to a cluster, and is still not below the
partition before it, because what it is computed from is a multiple of the cluster (`FloorAbove`,
`FrontOffsets`): this is where the clusters that go with an ESP matter. Every extra partition loses
less than two tracks, which with one for the main partition are the seven of `Needed`
(`RoomNeeded`). The estimated size of the FAT leaves fewer clusters than it has entries
(`FatEstimate`, `EntriesLemma`), and default clusters are at least a sector from 65536 sectors on
(`DefaultClusters`). The invariant only ties the steps together: what is written is what was
computed (`Laying`), the volume is the main partition (`Opened`) and has passed the checks
(`Making`). The theorems cover volumes of more sectors than 32 bits count, which the code refuses.

For any processes, drives and handles, any enumerations of them and number of passes
(`ProcessSearchProofs`): `TypeCorrect`, `ReportsOfSelection` and `SearchesAreComplete`, that is
`ReportIsOfSelection` and `SearchIsComplete`, with `Hitches` of any kind: a thread may be terminated
wherever it is. The dialog, the format thread and the search share `nVersion`, `nPass` and the entries
and nothing else, and each is old at times. `Calls`, `Versions` and `Searching` say who may be
where and which drive is searched for, `Passes` that a pass only counts for the drive that is
selected. For the completeness the invariant follows the scan through the enumeration: the
entry of every process before the current handle is the one that its handles so far amount to
(`Scanning`), and what the last complete pass has found stays in the list while the next one
is under way (`Remembered`). That the handles of a process follow each other (`Grouped`) is needed
here: the code adds a process to the list when the process id changes and not at every handle.

The assumptions are the `ASSUME`s of the modules, which TLC evaluates on every run: the
constants are natural numbers, sets and Booleans, and as to the drive: a megabyte is 1048576 bytes,
sectors are of 512 to 4096 bytes, a track is at most a megabyte (255 sectors of 4096 bytes are),
clusters divide a megabyte or are divided by it (`rufus.c` only offers powers of 2), and the ESP
and the MSR are whole megabytes; and as to an enumeration of handles: those of a process follow each
other (`Grouped`), as the system table lists them.

Each inductive invariant was checked with TLC, on the instance of its run or a larger one, before
it was proved.

Only model-checked: liveness under fairness and what depends on ENABLED, which are out of the
prover's reach. These are `HashThreadEnds`, `WriteDriveEnds`, `OperationEnds`, `RefreshCatchesUp`,
`CallsReturn`, `SearchCatchesUp`, `FormatThreadEnds` and `BadBlocksEnds`.

## 6. Not modelled

- Device enumeration (`dev.c`), S.M.A.R.T., the rest of `drive.c`, `vhd.c` and the native
  formatting through VDS and fmifs are sequences of calls to Windows: what could be wrong in
  them is what Windows does, and their results are choices in `FormatThread`.
- ISO analysis and extraction (`iso.c`, `pki.c`, `wue.c`): they depend on the content of files,
  which no small instance stands for.
- The update check (`net.c`): one sequential walk that ends in a dialog.
- Settings, parser, localization, the interface and its icons: no state that several actors
  or steps share, beyond what `MainDialog` has of the controls and `DbxRefresh` of the ini.
- The offset at which `CreatePartition` writes UEFI:NTFS: `DriveLayout` only has that it was
  written, before the file system. The code takes the offset from the entry of the layout itself.
- Digests, decompressors, `ext2fs`, `wimlib`, `libcdio`, `ms-sys`, `syslinux`: vendored, and
  pure computation on data.
- The validators other than the two of `Download`: pure functions on byte strings, with unit
  tests in the repository.

## 7. Plan

Done: all of the stateful logic of the program's own: the hash pipeline with its service,
`WriteDrive`, the main dialog, the security refresh, `FormatThread`, the bad blocks check, the
partition and FAT32 layouts, the downloads and the process search; the proofs of section 5.

Every invariant that a passing run checks is also a theorem. What is left are the
liveness properties, once a prover for ENABLED and fairness is at hand. The components of section 6
stay out for the reasons given there.
