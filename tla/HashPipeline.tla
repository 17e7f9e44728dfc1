---------------------------- MODULE HashPipeline ----------------------------
(***************************************************************************)
(* The parallel checksum computation of hash.c.  HashThread reads the      *)
(* image with the asynchronous I/O of winio.h into a ring of NUM_BUFFERS   *)
(* buffers; one IndividualHashThread per algorithm hashes each of them.    *)
(* The threads share read_size, buffer and proc_bufnum without a lock and  *)
(* only synchronise through one pair of auto-reset events per algorithm.   *)
(*                                                                         *)
(* Data is abstracted to chunk numbers: the image is the chunks            *)
(* 1 .. NumChunks, each the outcome of one read; a buffer holds a chunk    *)
(* number, or Torn while the operating system may be writing to it.        *)
(***************************************************************************)
EXTENDS Integers, Sequences

CONSTANTS
    num_hashes,     \* How many algorithms are computed (3, or 4 with SHA512)
    NumChunks       \* How many reads with data the image takes

ASSUME HashPipelineAssumption ==
    /\ num_hashes \in Nat \ {0}
    /\ NumChunks \in Nat

VARIABLES
    reader,             \* Where HashThread is
    i,                  \* The loop variable of HashThread
    r,                  \* Its exit code: 0 for a success, -1 otherwise
    read_bufnum,        \* The buffer being read into
    processed_bytes,    \* How many chunks were handed to the hash threads
    fd,                 \* The ASYNC_FD of the image
    proc_bufnum,        \* (global) The buffer being hashed
    read_size,          \* (global) 0 for a read at the end of the image, else 1
    buffer,             \* (global) The content of each buffer
    data_ready,         \* (global) Auto-reset events, set by HashThread
    thread_ready,       \* (global) Auto-reset events, set by the hash threads
    worker,             \* Where each hash thread is
    source,             \* The buffer that its current hash_write() call reads
    hash_ctx,           \* The chunks that it has hashed
    hash_str,           \* (global) Its digest: the chunks it is a digest of
    ErrorStatus         \* (global) The error of the operation, if any

readerVars == <<reader, i, r, read_bufnum, processed_bytes>>
events == <<data_ready, thread_ready>>
workerVars == <<worker, source, hash_ctx, hash_str>>
vars == <<readerVars, fd, proc_bufnum, read_size, buffer, events, workerVars,
          ErrorStatus>>

-----------------------------------------------------------------------------
(* Buffers, the image file and the states of the threads.                  *)

\* Mistake: plain double buffering.
DoubleBuffering == 2

\* Double buffered reads plus one buffer for the hash threads.
NUM_BUFFERS == 3

Buffers == 0 .. NUM_BUFFERS - 1
HashIds == 0 .. num_hashes - 1
Torn == 0
WholeImage == [j \in 1 .. NumChunks |-> j]
EarlierImage == [j \in 1 .. 1 |-> 0]

\* Mistake: the ring does not wrap around.
NoWrap(b) == b + 1

NextBuffer(b) == (b + 1) % NUM_BUFFERS
PreviousBuffer(b) == (b + NUM_BUFFERS - 1) % NUM_BUFFERS

ReaderStates == {"create", "open", "loop", "wait_read", "wait_threads",
                 "signal", "join", "out", "done"}
WorkerStates == {"none", "init", "wait", "woken", "hashing", "hashed",
                 "finished", "late", "failed", "terminated"}
Errors == {"none", "cancelled", "open_failed", "read_fault"}

\* A thread handle is signalled when the thread has ended, however it ended.
Ended(w) == worker[w] \in {"finished", "late", "failed", "terminated"}

Init ==
    /\ reader = "create"
    /\ i = 0
    /\ r = -1
    /\ read_bufnum = 0
    /\ processed_bytes = 0
    /\ fd = [iStatus |-> "closed", target |-> 0, Offset |-> 0]
    /\ proc_bufnum = 0
    /\ read_size \in [Buffers -> {0, 1}]   \* As an earlier operation left it
    /\ buffer = [b \in Buffers |-> Torn]
    /\ data_ready = [w \in HashIds |-> FALSE]
    /\ thread_ready = [w \in HashIds |-> FALSE]
    /\ worker = [w \in HashIds |-> "none"]
    /\ source = [w \in HashIds |-> 0]
    /\ hash_ctx = [w \in HashIds |-> <<>>]
    /\ hash_str = [w \in HashIds |-> EarlierImage]
    /\ ErrorStatus = "none"

-----------------------------------------------------------------------------
(* winio.h: the asynchronous file.  ReadFileAsync only starts the transfer, *)
(* which owns its buffer until it has completed.                           *)

ReadFileAsync(b, offset) ==
    /\ fd' = [iStatus |-> "pending", target |-> b, Offset |-> offset]
    /\ buffer' = [buffer EXCEPT ![b] = Torn]

\* What the pending read brings: the chunk at the file offset, none at its end.
BytesRead == IF fd.Offset < NumChunks THEN 1 ELSE 0

\* The operating system completes the pending read.
KernelRead ==
    /\ fd.iStatus = "pending"
    /\ fd' = [fd EXCEPT !.iStatus = "complete"]
    /\ buffer' = IF BytesRead = 1
                 THEN [buffer EXCEPT ![fd.target] = fd.Offset + 1]
                 ELSE buffer
    /\ UNCHANGED <<readerVars, proc_bufnum, read_size, events, workerVars,
                   ErrorStatus>>

\* The pending read fails, at once or later.
KernelReadError ==
    /\ fd.iStatus = "pending"
    /\ fd' = [fd EXCEPT !.iStatus = "error"]
    /\ UNCHANGED <<readerVars, proc_bufnum, read_size, buffer, events,
                   workerVars, ErrorStatus>>

-----------------------------------------------------------------------------
(* HashThread.                                                             *)

GotoOut ==
    /\ reader' = "out"
    /\ i' = 0

\* Create the events and the thread of the next algorithm.
CreateHashThread ==
    /\ reader = "create"
    /\ i < num_hashes
    /\ data_ready' = [data_ready EXCEPT ![i] = FALSE]
    /\ thread_ready' = [thread_ready EXCEPT ![i] = FALSE]
    /\ \/ /\ worker' = [worker EXCEPT ![i] = "init"]
          /\ i' = i + 1
          /\ UNCHANGED reader
       \/ /\ GotoOut            \* CreateEvent() or CreateThread() failed
          /\ UNCHANGED worker
    /\ UNCHANGED <<r, read_bufnum, processed_bytes, fd, proc_bufnum, read_size,
                   buffer, source, hash_ctx, hash_str, ErrorStatus>>

\* Open the image and start the first read.  The size of the buffer that is
\* marked as being processed is a dummy, to avoid an early loop exit.
OpenImage ==
    /\ reader = "create"
    /\ i = num_hashes
    /\ \/ /\ reader' = "loop"
          /\ read_bufnum' = 0
          /\ proc_bufnum' = 1
          /\ read_size' = [read_size EXCEPT ![1] = 1]
          /\ processed_bytes' = 0
          /\ ReadFileAsync(0, 0)
          /\ UNCHANGED <<i, ErrorStatus>>
       \/ /\ GotoOut
          /\ ErrorStatus' = "open_failed"
          /\ UNCHANGED <<read_bufnum, proc_bufnum, read_size, processed_bytes,
                         fd, buffer>>
    /\ UNCHANGED <<r, events, workerVars>>

\* The loop condition and step 0: update the progress and check for cancel.
LoopTest ==
    /\ reader = "loop"
    /\ \/ /\ read_size[proc_bufnum] = 0
          /\ reader' = "join"
          /\ UNCHANGED i
       \/ /\ read_size[proc_bufnum] # 0
          /\ ErrorStatus = "cancelled"
          /\ GotoOut
       \/ /\ read_size[proc_bufnum] # 0
          /\ ErrorStatus # "cancelled"
          /\ reader' = "wait_read"
          /\ UNCHANGED i
    /\ UNCHANGED <<r, read_bufnum, processed_bytes, fd, proc_bufnum, read_size,
                   buffer, events, workerVars, ErrorStatus>>

\* Steps 1 to 3: the current read is complete; record its size, switch to the
\* next buffer and launch the next read from the updated offset.
ReadComplete ==
    /\ reader = "wait_read"
    /\ fd.iStatus = "complete"
    /\ read_size' = [read_size EXCEPT ![read_bufnum] = BytesRead]
    /\ read_bufnum' = NextBuffer(read_bufnum)
    /\ ReadFileAsync(read_bufnum', fd.Offset + BytesRead)
    /\ reader' = "wait_threads"
    /\ UNCHANGED <<i, r, processed_bytes, proc_bufnum, events, workerVars,
                   ErrorStatus>>

\* Step 1: the read failed, or was not complete within DRIVE_ACCESS_TIMEOUT.
ReadFault ==
    /\ reader = "wait_read"
    /\ fd.iStatus \in {"error", "pending"}
    /\ ErrorStatus' = "read_fault"
    /\ GotoOut
    /\ UNCHANGED <<r, read_bufnum, processed_bytes, fd, proc_bufnum, read_size,
                   buffer, events, workerVars>>

\* Mistake: waiting for any of the hash threads (bWaitAll is FALSE).
AnyThreadReady ==
    /\ reader = "wait_threads"
    /\ \E w \in HashIds : thread_ready[w]
    /\ thread_ready' = [w \in HashIds |-> FALSE]
    /\ proc_bufnum' = PreviousBuffer(read_bufnum)
    /\ reader' = "signal"
    /\ i' = 0
    /\ UNCHANGED <<r, read_bufnum, processed_bytes, fd, read_size, buffer,
                   data_ready, workerVars, ErrorStatus>>

\* Steps 4 and 5: every hash thread is ready (the wait resets their events);
\* let them process the buffer that was just read.
AllThreadsReady ==
    /\ reader = "wait_threads"
    /\ \A w \in HashIds : thread_ready[w]
    /\ thread_ready' = [w \in HashIds |-> FALSE]
    /\ proc_bufnum' = PreviousBuffer(read_bufnum)
    /\ reader' = "signal"
    /\ i' = 0
    /\ UNCHANGED <<r, read_bufnum, processed_bytes, fd, read_size, buffer,
                   data_ready, workerVars, ErrorStatus>>

\* Mistake: waiting for the hash threads without a timeout.
InfiniteWait ==
    /\ reader = "wait_threads"
    /\ FALSE
    /\ UNCHANGED vars

\* Step 4: the hash threads failed to signal within WAIT_TIME.
ThreadsTimeout ==
    /\ reader = "wait_threads"
    /\ \E w \in HashIds : ~thread_ready[w]
    /\ GotoOut
    /\ UNCHANGED <<r, read_bufnum, processed_bytes, fd, proc_bufnum, read_size,
                   buffer, events, workerVars, ErrorStatus>>

\* Step 6: signal the next hash thread, then account for the chunk.
SignalData ==
    /\ reader = "signal"
    /\ \/ /\ i < num_hashes
          /\ data_ready' = [data_ready EXCEPT ![i] = TRUE]
          /\ i' = i + 1
          /\ UNCHANGED <<reader, processed_bytes>>
       \/ /\ i < num_hashes     \* SetEvent() failed
          /\ GotoOut
          /\ UNCHANGED <<data_ready, processed_bytes>>
       \/ /\ i = num_hashes
          /\ processed_bytes' = processed_bytes + read_size[proc_bufnum]
          /\ reader' = "loop"
          /\ UNCHANGED <<data_ready, i>>
    /\ UNCHANGED <<r, read_bufnum, fd, proc_bufnum, read_size, buffer,
                   thread_ready, workerVars, ErrorStatus>>

\* Mistake: waiting for any of the hash threads to end.
JoinAny ==
    /\ reader = "join"
    /\ \/ /\ \E w \in HashIds : Ended(w)
          /\ r' = 0
       \/ /\ \E w \in HashIds : ~Ended(w)
          /\ UNCHANGED r
    /\ GotoOut
    /\ UNCHANGED <<read_bufnum, processed_bytes, fd, proc_bufnum, read_size,
                   buffer, events, workerVars, ErrorStatus>>

\* The last event made the hash threads exit: wait for that to happen.
Join ==
    /\ reader = "join"
    /\ \/ /\ \A w \in HashIds : Ended(w)
          /\ r' = 0
       \/ /\ \E w \in HashIds : ~Ended(w)
          /\ UNCHANGED r
    /\ GotoOut
    /\ UNCHANGED <<read_bufnum, processed_bytes, fd, proc_bufnum, read_size,
                   buffer, events, workerVars, ErrorStatus>>

\* The common exit: terminate the hash threads, close their events and the
\* file, and post UM_FORMAT_COMPLETED.
Out ==
    /\ reader = "out"
    /\ \/ /\ i < num_hashes
          /\ worker' = IF worker[i] = "none" \/ Ended(i) THEN worker
                       ELSE [worker EXCEPT ![i] = "terminated"]
          /\ data_ready' = [data_ready EXCEPT ![i] = FALSE]
          /\ thread_ready' = [thread_ready EXCEPT ![i] = FALSE]
          /\ i' = i + 1
          /\ UNCHANGED <<reader, fd>>
       \/ /\ i = num_hashes
          /\ fd' = [fd EXCEPT !.iStatus = "closed"]
          /\ reader' = "done"
          /\ UNCHANGED <<worker, events, i>>
    /\ UNCHANGED <<r, read_bufnum, processed_bytes, proc_bufnum, read_size,
                   buffer, source, hash_ctx, hash_str, ErrorStatus>>

Reader ==
    \/ CreateHashThread
    \/ OpenImage
    \/ LoopTest
    \/ ReadComplete
    \/ ReadFault
    \/ AllThreadsReady
    \/ ThreadsTimeout
    \/ SignalData
    \/ Join
    \/ Out

-----------------------------------------------------------------------------
(* IndividualHashThread.                                                   *)

\* hash_init, then tell HashThread that the thread services requests.
Start(w) ==
    /\ worker[w] = "init"
    /\ hash_ctx' = [hash_ctx EXCEPT ![w] = <<>>]
    /\ thread_ready' = [thread_ready EXCEPT ![w] = TRUE]
    /\ worker' = [worker EXCEPT ![w] = "wait"]
    /\ UNCHANGED <<readerVars, fd, proc_bufnum, read_size, buffer, data_ready,
                   source, hash_str, ErrorStatus>>

\* The wait for data_ready succeeds and resets it.
Wake(w) ==
    /\ worker[w] = "wait"
    /\ data_ready[w]
    /\ data_ready' = [data_ready EXCEPT ![w] = FALSE]
    /\ worker' = [worker EXCEPT ![w] = "woken"]
    /\ UNCHANGED <<readerVars, fd, proc_bufnum, read_size, buffer,
                   thread_ready, source, hash_ctx, hash_str, ErrorStatus>>

\* The wait for data_ready times out, which happens when opening or reading
\* the image outlasts WAIT_TIME (the read itself may take three times as long).
WaitTimeout(w) ==
    /\ worker[w] = "wait"
    /\ ~data_ready[w]
    /\ worker' = [worker EXCEPT ![w] = "late"]
    /\ UNCHANGED <<readerVars, fd, proc_bufnum, read_size, buffer, events,
                   source, hash_ctx, hash_str, ErrorStatus>>

\* There is data: call hash_write, which reads the buffer for a while.
BeginHash(w) ==
    /\ worker[w] = "woken"
    /\ read_size[proc_bufnum] # 0
    /\ source' = [source EXCEPT ![w] = proc_bufnum]
    /\ worker' = [worker EXCEPT ![w] = "hashing"]
    /\ UNCHANGED <<readerVars, fd, proc_bufnum, read_size, buffer, events,
                   hash_ctx, hash_str, ErrorStatus>>

\* hash_write returns, having hashed what the buffer held.
EndHash(w) ==
    /\ worker[w] = "hashing"
    /\ hash_ctx' = [hash_ctx EXCEPT ![w] = Append(@, buffer[source[w]])]
    /\ worker' = [worker EXCEPT ![w] = "hashed"]
    /\ UNCHANGED <<readerVars, fd, proc_bufnum, read_size, buffer, events,
                   source, hash_str, ErrorStatus>>

\* Tell HashThread that the thread is ready for more.
ThreadReady(w) ==
    /\ worker[w] = "hashed"
    /\ thread_ready' = [thread_ready EXCEPT ![w] = TRUE]
    /\ worker' = [worker EXCEPT ![w] = "wait"]
    /\ UNCHANGED <<readerVars, fd, proc_bufnum, read_size, buffer, data_ready,
                   source, hash_ctx, hash_str, ErrorStatus>>

\* SetEvent(thread_ready) failed: the thread exits.
SetEventError(w) ==
    /\ worker[w] \in {"init", "hashed"}
    /\ worker' = [worker EXCEPT ![w] = "failed"]
    /\ UNCHANGED <<readerVars, fd, proc_bufnum, read_size, buffer, events,
                   source, hash_ctx, hash_str, ErrorStatus>>

\* No more data: publish the digest and exit.
Finalize(w) ==
    /\ worker[w] = "woken"
    /\ read_size[proc_bufnum] = 0
    /\ hash_str' = [hash_str EXCEPT ![w] = hash_ctx[w]]
    /\ worker' = [worker EXCEPT ![w] = "finished"]
    /\ UNCHANGED <<readerVars, fd, proc_bufnum, read_size, buffer, events,
                   source, hash_ctx, ErrorStatus>>

Worker(w) ==
    \/ Start(w)
    \/ Wake(w)
    \/ WaitTimeout(w)
    \/ BeginHash(w)
    \/ EndHash(w)
    \/ ThreadReady(w)
    \/ SetEventError(w)
    \/ Finalize(w)

-----------------------------------------------------------------------------
\* The user confirms the cancellation of the operation, in the user interface.
UserCancel ==
    /\ reader # "done"
    /\ ErrorStatus' = "cancelled"
    /\ UNCHANGED <<readerVars, fd, proc_bufnum, read_size, buffer, events,
                   workerVars>>

\* HashThread has exited.
Terminated ==
    /\ reader = "done"
    /\ UNCHANGED vars

Next ==
    \/ Reader
    \/ KernelRead
    \/ KernelReadError
    \/ \E w \in HashIds : Worker(w)
    \/ UserCancel
    \/ Terminated

Spec == Init /\ [][Next]_vars /\ WF_vars(Reader)
-----------------------------------------------------------------------------
(* Properties.                                                             *)

TypeOK ==
    /\ reader \in ReaderStates
    /\ i \in 0 .. num_hashes
    /\ r \in {-1, 0}
    /\ read_bufnum \in Buffers
    /\ processed_bytes \in Nat
    /\ fd \in [iStatus : {"closed", "pending", "complete", "error"},
              target : Buffers, Offset : 0 .. NumChunks]
    /\ proc_bufnum \in Buffers
    /\ read_size \in [Buffers -> {0, 1}]
    /\ buffer \in [Buffers -> 0 .. NumChunks]
    /\ data_ready \in [HashIds -> BOOLEAN]
    /\ thread_ready \in [HashIds -> BOOLEAN]
    /\ worker \in [HashIds -> WorkerStates]
    /\ source \in [HashIds -> Buffers]
    /\ hash_ctx \in [HashIds -> Seq(0 .. NumChunks)]
    /\ hash_str \in [HashIds -> Seq(0 .. NumChunks)]
    /\ ErrorStatus \in Errors

\* The operating system never writes to a buffer that a hash thread is
\* reading: HashThread launches its next read (step 3) before it waits for the
\* hash threads (step 4), so only the third buffer keeps them apart.
NoReadIntoHashedBuffer ==
    \A w \in HashIds :
        worker[w] = "hashing" =>
            ~(fd.iStatus = "pending" /\ fd.target = source[w])

\* Every hash thread hashes the chunks of the image in order, each exactly
\* once and never one that is being overwritten, and no digest string is ever
\* that of a part of the image.
HashesAreOfTheImage ==
    \A w \in HashIds :
        /\ \A j \in 1 .. Len(hash_ctx[w]) : hash_ctx[w][j] = j
        /\ hash_str[w] \in {EarlierImage, WholeImage}

\* HashThread only succeeds when every algorithm has hashed the whole of this
\* image.  All that a hash thread can have missed, by giving up its wait for
\* data before a slow read completed, is the last event, with read_size=0; one
\* that missed any other, or failed to signal, makes the operation fail.
SuccessMeansAllHashed ==
    r = 0 => \A w \in HashIds :
                 \/ worker[w] = "finished"
                 \/ worker[w] = "late" /\ hash_ctx[w] = WholeImage

\* "Our last event with read_size=0 signaled the threads to exit": when
\* HashThread succeeds, every hash thread exited because it was told to, so
\* that no digest of an earlier image is shown as one of this image.
SuccessMeansAllFinalized ==
    r = 0 => \A w \in HashIds : worker[w] = "finished"

\* HashThread always ends, and so posts the message that enables the user
\* interface again, whatever the disk, the hash threads and the user do.
HashThreadEnds == <>(reader = "done")

\* The checksum operation implements its abstract specification.
Service == INSTANCE HashService WITH
    outcome <- IF r = 0 THEN "ok"
               ELSE IF reader = "done" THEN "failed" ELSE "busy",
    given_up <- {w \in HashIds : worker[w] = "late"}

ImplementsHashService == Service!Spec
=============================================================================
