------------------------- MODULE HashPipelineProofs -------------------------
(***************************************************************************)
(* Proofs about HashPipeline, for any number of algorithms and any size of *)
(* the image, however late the data is for any of the hash threads; also   *)
(* that HashPipeline implements HashService.                               *)
(***************************************************************************)
EXTENDS HashPipeline, TLAPS

-----------------------------------------------------------------------------
(* The ring of buffers.                                                    *)

\* The buffers before and after a buffer of the ring are two other buffers.
LEMMA RingLemma ==
    ASSUME NEW b \in Buffers
    PROVE  /\ NextBuffer(b) \in Buffers
           /\ PreviousBuffer(b) \in Buffers
           /\ NextBuffer(b) # b
           /\ PreviousBuffer(b) # b
           /\ PreviousBuffer(b) # NextBuffer(b)
           /\ PreviousBuffer(NextBuffer(b)) = b
<1>1. b = 0 \/ b = 1 \/ b = 2
  BY DEF Buffers, NUM_BUFFERS
<1>2. QED
  BY <1>1 DEF Buffers, NUM_BUFFERS, NextBuffer, PreviousBuffer

-----------------------------------------------------------------------------
(* Type correctness.                                                       *)

LEMMA TypeInit == Init => TypeOK
<1> SUFFICES ASSUME Init PROVE TypeOK
  OBVIOUS
<1> USE HashPipelineAssumption DEF Init
<1>1. EarlierImage \in Seq(0 .. NumChunks)
  BY DEF EarlierImage
<1>2. hash_str \in [HashIds -> Seq(0 .. NumChunks)]
  BY <1>1
<1>3. hash_ctx \in [HashIds -> Seq(0 .. NumChunks)]
  OBVIOUS
<1>4. buffer \in [Buffers -> 0 .. NumChunks]
  BY DEF Torn
<1>5. QED
  BY <1>2, <1>3, <1>4
     DEF TypeOK, ReaderStates, WorkerStates, Errors, Buffers, NUM_BUFFERS

LEMMA TypeReader == TypeOK /\ Reader => TypeOK'
<1> SUFFICES ASSUME TypeOK, Reader PROVE TypeOK'
  OBVIOUS
<1> USE HashPipelineAssumption DEF TypeOK, GotoOut
<1>1. CASE CreateHashThread
  <2>1. /\ data_ready' \in [HashIds -> BOOLEAN]
        /\ thread_ready' \in [HashIds -> BOOLEAN]
    BY <1>1 DEF CreateHashThread
  <2>2. worker' \in [HashIds -> WorkerStates]
    BY <1>1 DEF CreateHashThread, WorkerStates
  <2>3. i' \in 0 .. num_hashes /\ reader' \in ReaderStates
    BY <1>1 DEF CreateHashThread, ReaderStates
  <2>4. QED
    BY <1>1, <2>1, <2>2, <2>3 DEF CreateHashThread
<1>2. CASE OpenImage
  BY <1>2 DEF OpenImage, ReadFileAsync, workerVars, events, ReaderStates,
              Buffers, NUM_BUFFERS, Torn, Errors
<1>3. CASE LoopTest
  BY <1>3 DEF LoopTest, workerVars, events, ReaderStates
<1>4. CASE ReadComplete
  <2>1. read_bufnum' \in Buffers
    BY <1>4, RingLemma DEF ReadComplete
  <2>2. BytesRead \in {0, 1} /\ fd.Offset + BytesRead \in 0 .. NumChunks
    BY DEF BytesRead
  <2>3. fd' \in [iStatus : {"closed", "pending", "complete", "error"},
                 target : Buffers, Offset : 0 .. NumChunks]
    BY <1>4, <2>1, <2>2 DEF ReadComplete, ReadFileAsync
  <2>4. buffer' \in [Buffers -> 0 .. NumChunks]
    BY <1>4, <2>1 DEF ReadComplete, ReadFileAsync, Torn
  <2>5. read_size' \in [Buffers -> {0, 1}]
    BY <1>4, <2>2 DEF ReadComplete
  <2>6. QED
    BY <1>4, <2>1, <2>3, <2>4, <2>5
       DEF ReadComplete, workerVars, events, ReaderStates
<1>5. CASE ReadFault
  BY <1>5 DEF ReadFault, workerVars, events, ReaderStates, Errors
<1>6. CASE AllThreadsReady
  BY <1>6, RingLemma DEF AllThreadsReady, workerVars, ReaderStates
<1>7. CASE ThreadsTimeout
  BY <1>7 DEF ThreadsTimeout, workerVars, events, ReaderStates
<1>8. CASE SignalData
  <2>1. data_ready' \in [HashIds -> BOOLEAN]
    <3>1. \/ data_ready' = data_ready
          \/ data_ready' = [data_ready EXCEPT ![i] = TRUE]
      BY <1>8 DEF SignalData
    <3>2. QED
      BY <3>1
  <2>2. i' \in 0 .. num_hashes /\ reader' \in ReaderStates
    BY <1>8 DEF SignalData, ReaderStates
  <2>3. processed_bytes' \in Nat
    <3>1. read_size[proc_bufnum] \in {0, 1}
      OBVIOUS
    <3>2. \/ processed_bytes' = processed_bytes
          \/ processed_bytes' = processed_bytes + read_size[proc_bufnum]
      BY <1>8 DEF SignalData
    <3>3. QED
      BY <3>1, <3>2
  <2>4. QED
    BY <1>8, <2>1, <2>2, <2>3 DEF SignalData, workerVars
<1>9. CASE Join
  BY <1>9 DEF Join, workerVars, events, ReaderStates
<1>10. CASE Out
  <2>1. /\ data_ready' \in [HashIds -> BOOLEAN]
        /\ thread_ready' \in [HashIds -> BOOLEAN]
    BY <1>10 DEF Out, events
  <2>2. worker' \in [HashIds -> WorkerStates]
    BY <1>10 DEF Out, WorkerStates
  <2>3. i' \in 0 .. num_hashes /\ reader' \in ReaderStates
    BY <1>10 DEF Out, ReaderStates
  <2>4. fd' \in [iStatus : {"closed", "pending", "complete", "error"},
                 target : Buffers, Offset : 0 .. NumChunks]
    BY <1>10 DEF Out
  <2>5. QED
    BY <1>10, <2>1, <2>2, <2>3, <2>4 DEF Out
<1>11. QED
  BY <1>1, <1>2, <1>3, <1>4, <1>5, <1>6, <1>7, <1>8, <1>9, <1>10 DEF Reader

LEMMA TypeWorker ==
    ASSUME NEW w \in HashIds, TypeOK, Worker(w)
    PROVE  TypeOK'
<1> USE HashPipelineAssumption DEF TypeOK, WorkerStates
<1>1. CASE Start(w)
  BY <1>1 DEF Start, readerVars
<1>2. CASE Wake(w)
  BY <1>2 DEF Wake, readerVars
<1>3. CASE WaitTimeout(w)
  BY <1>3 DEF WaitTimeout, readerVars, events
<1>4. CASE BeginHash(w)
  BY <1>4 DEF BeginHash, readerVars, events
<1>5. CASE EndHash(w)
  <2>1. Append(hash_ctx[w], buffer[source[w]]) \in Seq(0 .. NumChunks)
    OBVIOUS
  <2>2. QED
    BY <1>5, <2>1 DEF EndHash, readerVars, events
<1>6. CASE ThreadReady(w)
  BY <1>6 DEF ThreadReady, readerVars
<1>7. CASE SetEventError(w)
  BY <1>7 DEF SetEventError, readerVars, events
<1>8. CASE Finalize(w)
  BY <1>8 DEF Finalize, readerVars, events
<1>9. QED
  BY <1>1, <1>2, <1>3, <1>4, <1>5, <1>6, <1>7, <1>8 DEF Worker

LEMMA TypeNext == TypeOK /\ [Next]_vars => TypeOK'
<1> SUFFICES ASSUME TypeOK, [Next]_vars PROVE TypeOK'
  OBVIOUS
<1> USE HashPipelineAssumption
<1>1. CASE Reader
  BY <1>1, TypeReader
<1>2. CASE KernelRead
  <2>1. BytesRead = 1 => fd.Offset + 1 \in 0 .. NumChunks
    BY DEF BytesRead, TypeOK
  <2>2. QED
    BY <1>2, <2>1 DEF KernelRead, TypeOK, readerVars, events, workerVars
<1>3. CASE KernelReadError
  BY <1>3 DEF KernelReadError, TypeOK, readerVars, events, workerVars
<1>4. CASE \E w \in HashIds : Worker(w)
  BY <1>4, TypeWorker
<1>5. CASE UserCancel
  BY <1>5 DEF UserCancel, TypeOK, readerVars, events, workerVars, Errors
<1>6. CASE Terminated \/ UNCHANGED vars
  BY <1>6 DEF Terminated, TypeOK, vars, readerVars, events, workerVars
<1>7. QED
  BY <1>1, <1>2, <1>3, <1>4, <1>5, <1>6 DEF Next

\* Every variable keeps its type, with any number of hash threads and chunks:
\* no index leaves its array and no read goes past the end of the image.
THEOREM TypeCorrect == Spec => []TypeOK
BY TypeInit, TypeNext, PTL DEF Spec
-----------------------------------------------------------------------------
(* The buffers are kept apart.  NoReadIntoHashedBuffer is not inductive: it *)
(* needs that a hash thread is given a buffer only after it has asked for   *)
(* one, so that proc_bufnum never changes under a thread that uses it, and  *)
(* where the pending read is, relative to proc_bufnum, in each step of the  *)
(* loop.                                                                    *)

\* HashThread has signalled a buffer to hash thread w, which has not finished
\* hashing it.
Busy(w) == data_ready[w] \/ worker[w] \in {"woken", "hashing"}

RingReader ==
    /\ fd.iStatus # "closed" => fd.target = read_bufnum
    /\ reader = "signal" => proc_bufnum = PreviousBuffer(read_bufnum)

\* A hash thread is ready, or is busy with proc_bufnum, or is about to be
\* signalled, and only one of these.
RingThread(w) ==
    /\ thread_ready[w] => worker[w] \in {"wait", "late"} /\ ~data_ready[w]
    /\ data_ready[w] => worker[w] \in {"wait", "late"}
    /\ Busy(w) => /\ reader # "create"
                  /\ proc_bufnum # read_bufnum
                  /\ reader \in {"loop", "wait_read"} =>
                         proc_bufnum = PreviousBuffer(read_bufnum)
    /\ worker[w] = "hashing" => source[w] = proc_bufnum
    /\ reader = "signal" /\ w >= i =>
           worker[w] \in {"wait", "late"} /\ ~data_ready[w] /\ ~thread_ready[w]

RingInv == RingReader /\ \A w \in HashIds : RingThread(w)

LEMMA RingInit == Init => RingInv
BY DEF Init, RingInv, RingReader, RingThread, Busy

LEMMA RingReaderStep ==
    ASSUME TypeOK, RingInv, Reader
    PROVE  RingInv'
<1> USE DEF TypeOK, GotoOut
<1>1. RingReader'
  <2>1. CASE OpenImage
    BY <2>1 DEF OpenImage, ReadFileAsync, RingInv, RingReader
  <2>2. CASE ReadComplete
    BY <2>2 DEF ReadComplete, ReadFileAsync, RingInv, RingReader
  <2>3. CASE AllThreadsReady
    BY <2>3 DEF AllThreadsReady, RingInv, RingReader
  <2>4. CASE CreateHashThread \/ LoopTest \/ ReadFault \/ ThreadsTimeout \/ Join
    BY <2>4 DEF CreateHashThread, LoopTest, ReadFault, ThreadsTimeout, Join,
                RingInv, RingReader
  <2>5. CASE SignalData
    BY <2>5 DEF SignalData, RingInv, RingReader
  <2>6. CASE Out
    BY <2>6 DEF Out, RingInv, RingReader
  <2>7. QED
    BY <2>1, <2>2, <2>3, <2>4, <2>5, <2>6 DEF Reader
<1>2. ASSUME NEW w \in HashIds PROVE RingThread(w)'
  <2> USE <1>2 DEF RingThread, Busy
  <2>0. RingThread(w) /\ RingReader
    BY DEF RingInv
  <2>1. CASE CreateHashThread
    BY <2>0, <2>1 DEF CreateHashThread
  <2>2. CASE OpenImage
    BY <2>0, <2>2 DEF OpenImage, events, workerVars
  <2>3. CASE LoopTest
    BY <2>0, <2>3 DEF LoopTest, events, workerVars
  <2>4. CASE ReadComplete
    BY <2>0, <2>4, RingLemma DEF ReadComplete, events, workerVars
  <2>5. CASE ReadFault \/ ThreadsTimeout \/ Join
    BY <2>0, <2>5 DEF ReadFault, ThreadsTimeout, Join, events, workerVars
  <2>6. CASE AllThreadsReady
    BY <2>0, <2>6, RingLemma DEF AllThreadsReady, workerVars
  <2>7. CASE SignalData
    <3>1. reader = "signal" /\ proc_bufnum = PreviousBuffer(read_bufnum)
      BY <2>0, <2>7 DEF SignalData, RingReader
    <3>2. proc_bufnum # read_bufnum
      BY <3>1, RingLemma
    <3>3. CASE /\ i < num_hashes
               /\ data_ready' = [data_ready EXCEPT ![i] = TRUE]
               /\ i' = i + 1
               /\ reader' = reader
      <4>1. data_ready'[w] = IF w = i THEN TRUE ELSE data_ready[w]
        BY <3>3
      <4>2. w >= i' => w >= i /\ w # i
        BY <3>3, HashPipelineAssumption DEF HashIds
      <4>3. /\ reader' = "signal"
            /\ UNCHANGED <<read_bufnum, proc_bufnum, thread_ready, worker, source>>
        BY <2>7, <3>1, <3>3 DEF SignalData, workerVars
      <4>4. CASE w = i
        <5>1. worker[w] \in {"wait", "late"} /\ ~thread_ready[w]
          BY <2>0, <3>1, <4>4
        <5>2. ~(w >= i')
          BY <4>2, <4>4
        <5>3. QED
          BY <5>1, <5>2, <3>1, <3>2, <4>3
      <4>5. CASE w # i
        BY <2>0, <3>1, <3>2, <4>1, <4>2, <4>3, <4>5
      <4>6. QED
        BY <4>4, <4>5
    <3>4. CASE reader' \in {"out", "loop"} /\ data_ready' = data_ready
      BY <2>0, <2>7, <3>1, <3>2, <3>4 DEF SignalData, workerVars
    <3>5. QED
      BY <2>7, <3>3, <3>4 DEF SignalData
  <2>8. CASE Out
    BY <2>0, <2>8 DEF Out, events
  <2>9. QED
    BY <2>1, <2>2, <2>3, <2>4, <2>5, <2>6, <2>7, <2>8 DEF Reader
<1>3. QED
  BY <1>1, <1>2 DEF RingInv

LEMMA RingWorkerStep ==
    ASSUME TypeOK, RingInv, NEW v \in HashIds, Worker(v)
    PROVE  RingInv'
<1> USE DEF TypeOK
<1>1. RingReader'
  BY DEF RingInv, RingReader, Worker, Start, Wake, WaitTimeout, BeginHash,
         EndHash, ThreadReady, SetEventError, Finalize, readerVars
<1>2. ASSUME NEW w \in HashIds PROVE RingThread(w)'
  <2> USE <1>2 DEF RingThread, Busy
  <2>0. RingThread(w) /\ RingThread(v)
    BY DEF RingInv
  <2>1. CASE Start(v)
    BY <2>0, <2>1 DEF Start, readerVars
  <2>2. CASE Wake(v)
    BY <2>0, <2>2 DEF Wake, readerVars
  <2>3. CASE WaitTimeout(v)
    BY <2>0, <2>3 DEF WaitTimeout, readerVars, events
  <2>4. CASE BeginHash(v)
    BY <2>0, <2>4 DEF BeginHash, readerVars, events
  <2>5. CASE EndHash(v)
    BY <2>0, <2>5 DEF EndHash, readerVars, events
  <2>6. CASE ThreadReady(v)
    BY <2>0, <2>6 DEF ThreadReady, readerVars
  <2>7. CASE SetEventError(v)
    BY <2>0, <2>7 DEF SetEventError, readerVars, events
  <2>8. CASE Finalize(v)
    BY <2>0, <2>8 DEF Finalize, readerVars, events
  <2>9. QED
    BY <2>1, <2>2, <2>3, <2>4, <2>5, <2>6, <2>7, <2>8 DEF Worker
<1>3. QED
  BY <1>1, <1>2 DEF RingInv

LEMMA RingNext == TypeOK /\ RingInv /\ [Next]_vars => RingInv'
<1> SUFFICES ASSUME TypeOK, RingInv, [Next]_vars PROVE RingInv'
  OBVIOUS
<1>1. CASE Reader
  BY <1>1, RingReaderStep
<1>2. CASE \E w \in HashIds : Worker(w)
  BY <1>2, RingWorkerStep
<1>3. CASE KernelRead \/ KernelReadError
  BY <1>3 DEF KernelRead, KernelReadError, readerVars, events, workerVars,
              TypeOK, RingInv, RingReader, RingThread, Busy
<1>4. CASE UserCancel \/ Terminated \/ UNCHANGED vars
  BY <1>4 DEF UserCancel, Terminated, vars, readerVars, events, workerVars,
              RingInv, RingReader, RingThread, Busy
<1>5. QED
  BY <1>1, <1>2, <1>3, <1>4 DEF Next

LEMMA RingImpliesApart == TypeOK /\ RingInv => NoReadIntoHashedBuffer
BY DEF TypeOK, RingInv, RingReader, RingThread, Busy, NoReadIntoHashedBuffer

\* With any number of hash threads, and also when some of them have timed out,
\* the operating system never writes to a buffer that a thread is hashing.
THEOREM BuffersApart == Spec => []NoReadIntoHashedBuffer
<1>1. Spec => [](TypeOK /\ RingInv)
  BY TypeInit, TypeNext, RingInit, RingNext, PTL DEF Spec
<1>2. QED
  BY <1>1, RingImpliesApart, PTL
-----------------------------------------------------------------------------
(* What is hashed.  HashesAreOfTheImage needs to know what each buffer      *)
(* holds, and how far each hash thread is behind HashThread.                *)

\* How many chunks were handed to the hash threads, or are being handed.
Handed == processed_bytes + IF reader = "signal" THEN read_size[proc_bufnum] ELSE 0

\* The reads are in order, and the last buffer that was read holds the last
\* chunk, or was read at the end of the image.
ReadInv ==
    /\ reader = "create" => processed_bytes = 0
    /\ reader \in {"loop", "wait_read"} => fd.Offset = processed_bytes
    /\ fd.iStatus = "complete" /\ BytesRead = 1 => buffer[fd.target] = fd.Offset + 1
    /\ reader \in {"wait_threads", "signal"} =>
           LET last == PreviousBuffer(read_bufnum)
           IN  /\ fd.Offset = processed_bytes + read_size[last]
               /\ read_size[last] = 1 => buffer[last] = fd.Offset
               /\ read_size[last] = 0 => fd.Offset = NumChunks

\* A hash thread has hashed the chunks in order; what it hashes next is the
\* next one, or nothing once it has hashed the image.
HashThreadInv(w) ==
    /\ \A j \in 1 .. Len(hash_ctx[w]) : hash_ctx[w][j] = j
    /\ hash_str[w] \in {EarlierImage, WholeImage}
    /\ worker[w] = "hashing" => read_size[proc_bufnum] = 1
    /\ Busy(w) => /\ read_size[proc_bufnum] = 1 =>
                         buffer[proc_bufnum] = Len(hash_ctx[w]) + 1
                  /\ read_size[proc_bufnum] = 0 => Len(hash_ctx[w]) = NumChunks

\* A hash thread that is ready has hashed all that was handed over, and one
\* that is busy all but the current chunk.
CountInv(w) ==
    reader \notin {"join", "out", "done"} =>
        /\ worker[w] \in {"none", "init"} => processed_bytes = 0 /\ reader # "signal"
        /\ Busy(w) => Len(hash_ctx[w]) + read_size[proc_bufnum] = Handed
        /\ worker[w] = "hashed" \/ thread_ready[w] => Len(hash_ctx[w]) = Handed
        /\ reader = "signal" /\ w >= i => Len(hash_ctx[w]) = processed_bytes

HashInv == ReadInv /\ \A w \in HashIds : HashThreadInv(w) /\ CountInv(w)

LEMMA HashInit == Init => HashInv
<1> SUFFICES ASSUME Init PROVE HashInv
  OBVIOUS
<1>1. ReadInv
  BY DEF Init, ReadInv
<1>2. ASSUME NEW w \in HashIds PROVE HashThreadInv(w) /\ CountInv(w)
  <2>1. hash_ctx[w] = <<>> /\ Len(hash_ctx[w]) = 0
    BY DEF Init
  <2>2. QED
    BY <2>1 DEF Init, HashThreadInv, CountInv, Busy
<1>3. QED
  BY <1>1, <1>2 DEF HashInv

LEMMA ReadStep ==
    ASSUME TypeOK, RingInv, ReadInv, Reader
    PROVE  ReadInv'
<1> USE DEF TypeOK, GotoOut, ReadInv
<1>1. CASE CreateHashThread \/ LoopTest \/ ReadFault \/ ThreadsTimeout \/ Join
  BY <1>1 DEF CreateHashThread, LoopTest, ReadFault, ThreadsTimeout, Join,
              BytesRead
<1>2. CASE OpenImage
  BY <1>2 DEF OpenImage, ReadFileAsync, BytesRead
<1>3. CASE ReadComplete
  <2>1. fd.target = read_bufnum
    BY <1>3 DEF ReadComplete, RingInv, RingReader
  <2>2. PreviousBuffer(read_bufnum') = read_bufnum
    BY <1>3, RingLemma DEF ReadComplete
  <2>3. read_size'[read_bufnum] = BytesRead
    BY <1>3 DEF ReadComplete
  <2>4. buffer'[read_bufnum] = buffer[read_bufnum]
    BY <1>3, RingLemma DEF ReadComplete, ReadFileAsync
  <2>5. /\ fd'.Offset = fd.Offset + BytesRead
        /\ fd'.iStatus = "pending"
    BY <1>3 DEF ReadComplete, ReadFileAsync
  <2>6. BytesRead \in {0, 1} /\ (BytesRead = 0 => fd.Offset = NumChunks)
    BY HashPipelineAssumption DEF BytesRead
  <2>7. QED
    BY <1>3, <2>1, <2>2, <2>3, <2>4, <2>5, <2>6 DEF ReadComplete
<1>4. CASE AllThreadsReady
  BY <1>4 DEF AllThreadsReady, BytesRead
<1>5. CASE SignalData
  <2>1. proc_bufnum = PreviousBuffer(read_bufnum)
    BY <1>5 DEF SignalData, RingInv, RingReader
  <2>2. QED
    BY <1>5, <2>1 DEF SignalData, BytesRead
<1>6. CASE Out
  BY <1>6 DEF Out, BytesRead
<1>7. QED
  BY <1>1, <1>2, <1>3, <1>4, <1>5, <1>6 DEF Reader
\* No step of HashThread changes what a hash thread has hashed, and it hands
\* over the next chunk.
LEMMA HashReaderStep ==
    ASSUME TypeOK, RingInv, HashInv, Reader, NEW w \in HashIds
    PROVE  HashThreadInv(w)' /\ CountInv(w)'
<1> USE DEF TypeOK, GotoOut
<1>0. /\ RingThread(w) /\ RingReader
      /\ HashThreadInv(w) /\ CountInv(w) /\ ReadInv
  BY DEF RingInv, HashInv
<1>1. UNCHANGED <<hash_ctx, hash_str>>
  BY DEF Reader, CreateHashThread, OpenImage, LoopTest, ReadComplete, ReadFault,
         AllThreadsReady, ThreadsTimeout, SignalData, Join, Out, workerVars
<1>2. Len(hash_ctx[w]) \in Nat
  OBVIOUS
<1>3. CASE CreateHashThread
  BY <1>0, <1>1, <1>2, <1>3
     DEF CreateHashThread, HashThreadInv, CountInv, RingThread, ReadInv, Handed, Busy
<1>4. CASE OpenImage
  BY <1>0, <1>1, <1>2, <1>4
     DEF OpenImage, HashThreadInv, CountInv, RingThread, ReadInv, Handed, Busy,
         events, workerVars
<1>5. CASE LoopTest
  BY <1>0, <1>1, <1>2, <1>5
     DEF LoopTest, HashThreadInv, CountInv, Handed, Busy, events, workerVars
<1>6. CASE ReadComplete
  <2>1. Busy(w) => /\ proc_bufnum # read_bufnum
                   /\ proc_bufnum # read_bufnum'
    BY <1>0, <1>6, RingLemma DEF ReadComplete, RingThread
  <2>2. Busy(w) => /\ read_size'[proc_bufnum] = read_size[proc_bufnum]
                   /\ buffer'[proc_bufnum] = buffer[proc_bufnum]
    BY <1>6, <2>1, RingLemma DEF ReadComplete, ReadFileAsync
  <2>3. worker[w] = "hashing" => Busy(w)
    BY DEF Busy
  <2>4. Busy(w)' <=> Busy(w)
    BY <1>6 DEF ReadComplete, events, workerVars, Busy
  <2>5. HashThreadInv(w)'
    BY <1>0, <1>1, <1>6, <2>2, <2>3, <2>4
       DEF ReadComplete, HashThreadInv, workerVars
  <2>6. CountInv(w)'
    BY <1>0, <1>1, <1>6, <2>2, <2>4
       DEF ReadComplete, CountInv, Handed, events, workerVars
  <2>7. QED
    BY <2>5, <2>6
<1>7. CASE ReadFault \/ ThreadsTimeout \/ Join
  BY <1>0, <1>1, <1>7
     DEF ReadFault, ThreadsTimeout, Join, HashThreadInv, CountInv, Busy, events,
         workerVars
<1>8. CASE AllThreadsReady
  <2>1. thread_ready[w] /\ ~Busy(w) /\ worker[w] \in {"wait", "late"}
    BY <1>0, <1>8 DEF AllThreadsReady, RingThread, Busy
  <2>2. ~Busy(w)' /\ worker'[w] \in {"wait", "late"} /\ ~thread_ready'[w]
    BY <1>8, <2>1 DEF AllThreadsReady, Busy, workerVars
  <2>3. Len(hash_ctx[w]) = processed_bytes
    BY <1>0, <1>8, <2>1 DEF AllThreadsReady, CountInv, Handed
  <2>4. QED
    BY <1>0, <1>1, <1>8, <2>2, <2>3 DEF AllThreadsReady, HashThreadInv, CountInv
<1>9. CASE SignalData
  <2>1. reader = "signal" /\ proc_bufnum = PreviousBuffer(read_bufnum)
    BY <1>0, <1>9 DEF SignalData, RingReader
  <2>2. UNCHANGED <<proc_bufnum, read_size, buffer, worker, thread_ready>>
    BY <1>9 DEF SignalData, workerVars
  <2>3. Handed' = Handed \/ reader' = "out"
    <3>1. read_size[proc_bufnum] \in {0, 1} /\ processed_bytes \in Nat
      OBVIOUS
    <3>2. Handed = processed_bytes + read_size[proc_bufnum]
      BY <2>1 DEF Handed
    <3>3. CASE reader' = "signal" /\ processed_bytes' = processed_bytes
      BY <2>2, <3>2, <3>3 DEF Handed
    <3>4. CASE /\ reader' = "loop"
               /\ processed_bytes' = processed_bytes + read_size[proc_bufnum]
      BY <3>1, <3>2, <3>4 DEF Handed
    <3>5. QED
      BY <1>9, <2>1, <3>3, <3>4 DEF SignalData
  <2>4. CASE Busy(w)' /\ ~Busy(w)
    <3>1. w = i
      BY <1>9, <2>2, <2>4 DEF SignalData, Busy
    <3>2. /\ Len(hash_ctx[w]) = processed_bytes
          /\ worker[w] \in {"wait", "late"}
          /\ ~thread_ready[w]
      BY <1>0, <2>1, <3>1 DEF CountInv, RingThread
    <3>3. reader' = "signal" /\ i' = i + 1
      BY <1>9, <2>1, <2>2, <2>4 DEF SignalData, Busy
    <3>4. HashThreadInv(w)'
      BY <1>0, <1>1, <2>1, <2>2, <3>2 DEF HashThreadInv, ReadInv
    <3>5. CountInv(w)'
      <4>1. ~(w >= i')
        BY <3>1, <3>3, HashPipelineAssumption DEF HashIds
      <4>2. Len(hash_ctx[w]) + read_size[proc_bufnum] = Handed
        BY <2>1, <3>2 DEF Handed
      <4>3. QED
        BY <1>1, <2>2, <2>3, <3>2, <3>3, <4>1, <4>2 DEF CountInv
    <3>6. QED
      BY <3>4, <3>5
  <2>5. CASE Busy(w)' => Busy(w)
    <3>1. HashThreadInv(w)'
      BY <1>0, <1>1, <2>2, <2>5 DEF HashThreadInv
    <3>2. CountInv(w)'
      <4>1. reader' = "signal" /\ w >= i' => w >= i /\ processed_bytes' = processed_bytes
        BY <1>9, HashPipelineAssumption DEF SignalData, HashIds
      <4>2. worker[w] \notin {"none", "init"}
        BY <1>0, <2>1 DEF CountInv
      <4>3. QED
        BY <1>0, <1>1, <2>1, <2>2, <2>3, <2>5, <4>1, <4>2 DEF CountInv
    <3>3. QED
      BY <3>1, <3>2
  <2>6. QED
    BY <2>4, <2>5
<1>10. CASE Out
  BY <1>0, <1>1, <1>10 DEF Out, HashThreadInv, CountInv, Busy, events
<1>11. QED
  BY <1>3, <1>4, <1>5, <1>6, <1>7, <1>8, <1>9, <1>10 DEF Reader
\* A hash thread adds the next chunk to what it has hashed, and finalizes its
\* digest when that is the whole image.
LEMMA HashWorkerStep ==
    ASSUME TypeOK, RingInv, HashInv, NEW v \in HashIds, Worker(v)
    PROVE  HashInv'
<1> USE DEF TypeOK
<1>0. /\ UNCHANGED <<readerVars, fd, proc_bufnum, read_size, buffer>>
  BY DEF Worker, Start, Wake, WaitTimeout, BeginHash, EndHash, ThreadReady,
         SetEventError, Finalize
<1>1. ReadInv'
  BY <1>0 DEF HashInv, ReadInv, BytesRead, readerVars
<1>2. Handed' = Handed
  BY <1>0 DEF Handed, readerVars
<1>3. ASSUME NEW w \in HashIds, w # v
      PROVE  HashThreadInv(w)' /\ CountInv(w)'
  <2>1. /\ worker'[w] = worker[w] /\ data_ready'[w] = data_ready[w]
        /\ thread_ready'[w] = thread_ready[w]
        /\ hash_ctx'[w] = hash_ctx[w] /\ hash_str'[w] = hash_str[w]
    BY <1>3 DEF Worker, Start, Wake, WaitTimeout, BeginHash, EndHash,
                ThreadReady, SetEventError, Finalize, events
  <2>2. Busy(w)' <=> Busy(w)
    BY <2>1 DEF Busy
  <2>3. QED
    BY <1>0, <1>2, <2>1, <2>2 DEF HashInv, HashThreadInv, CountInv, readerVars
<1>4. HashThreadInv(v)' /\ CountInv(v)'
  <2>0. RingThread(v) /\ HashThreadInv(v) /\ CountInv(v)
    BY DEF RingInv, HashInv
  <2>1. CASE Start(v)
    <3>1. hash_ctx'[v] = <<>> /\ Len(hash_ctx'[v]) = 0
      BY <2>1 DEF Start
    <3>2. ~Busy(v)'
      BY <2>0, <2>1 DEF Start, RingThread, Busy
    <3>3. reader \notin {"join", "out", "done"} => Handed = 0
      BY <2>0, <2>1 DEF Start, CountInv, Handed
    <3>4. HashThreadInv(v)'
      BY <2>0, <2>1, <3>1, <3>2 DEF Start, HashThreadInv
    <3>5. CountInv(v)'
      BY <1>0, <1>2, <2>0, <2>1, <3>1, <3>2, <3>3 DEF Start, CountInv, readerVars
    <3>6. QED
      BY <3>4, <3>5
  <2>2. CASE Wake(v)
    BY <1>0, <1>2, <2>0, <2>2
       DEF Wake, RingThread, HashThreadInv, CountInv, Busy, readerVars
  <2>3. CASE WaitTimeout(v)
    BY <1>0, <1>2, <2>0, <2>3
       DEF WaitTimeout, HashThreadInv, CountInv, Busy, readerVars, events
  <2>4. CASE BeginHash(v)
    <3>1. read_size[proc_bufnum] = 1
      BY <2>4 DEF BeginHash
    <3>2. QED
      BY <1>0, <1>2, <2>0, <2>4, <3>1
         DEF BeginHash, HashThreadInv, CountInv, Busy, readerVars, events
  <2>5. CASE EndHash(v)
    <3>1. /\ Busy(v) /\ source[v] = proc_bufnum
          /\ read_size[proc_bufnum] = 1
          /\ buffer[source[v]] = Len(hash_ctx[v]) + 1
      BY <2>0, <2>5 DEF EndHash, RingThread, HashThreadInv, Busy
    <3>2. /\ hash_ctx'[v] = Append(hash_ctx[v], Len(hash_ctx[v]) + 1)
          /\ worker'[v] = "hashed" /\ worker[v] = "hashing"
          /\ UNCHANGED <<events, hash_str>>
      BY <2>5, <3>1 DEF EndHash
    <3>3. /\ Len(hash_ctx'[v]) = Len(hash_ctx[v]) + 1
          /\ \A j \in 1 .. Len(hash_ctx[v]) + 1 :
                 hash_ctx'[v][j] = IF j <= Len(hash_ctx[v]) THEN hash_ctx[v][j]
                                   ELSE Len(hash_ctx[v]) + 1
      BY <3>2
    <3>4. ~Busy(v)'
      BY <2>0, <3>2 DEF RingThread, Busy, events
    <3>5. Len(hash_ctx[v]) \in Nat
      OBVIOUS
    <3>6. HashThreadInv(v)'
      BY <2>0, <3>2, <3>3, <3>4, <3>5 DEF HashThreadInv
    <3>7. CountInv(v)'
      BY <1>0, <1>2, <2>0, <3>1, <3>2, <3>3, <3>4
         DEF CountInv, RingThread, readerVars, events
    <3>8. QED
      BY <3>6, <3>7
  <2>6. CASE ThreadReady(v)
    BY <1>0, <1>2, <2>0, <2>6
       DEF ThreadReady, RingThread, HashThreadInv, CountInv, Busy, readerVars
  <2>7. CASE SetEventError(v)
    BY <1>0, <1>2, <2>0, <2>7
       DEF SetEventError, RingThread, HashThreadInv, CountInv, Busy, readerVars, events
  <2>8. CASE Finalize(v)
    <3>1. Len(hash_ctx[v]) = NumChunks
      BY <2>0, <2>8 DEF Finalize, HashThreadInv, Busy
    <3>2. hash_ctx[v] = WholeImage
      BY <2>0, <3>1, HashPipelineAssumption DEF HashThreadInv, WholeImage
    <3>3. QED
      BY <1>0, <1>2, <2>0, <2>8, <3>2
         DEF Finalize, RingThread, HashThreadInv, CountInv, Busy, readerVars, events
  <2>9. QED
    BY <2>1, <2>2, <2>3, <2>4, <2>5, <2>6, <2>7, <2>8 DEF Worker
<1>5. QED
  BY <1>1, <1>3, <1>4 DEF HashInv

LEMMA HashNext == TypeOK /\ RingInv /\ HashInv /\ [Next]_vars => HashInv'
<1> SUFFICES ASSUME TypeOK, RingInv, HashInv, [Next]_vars PROVE HashInv'
  OBVIOUS
<1>1. CASE Reader
  BY <1>1, ReadStep, HashReaderStep DEF HashInv
<1>2. CASE \E w \in HashIds : Worker(w)
  BY <1>2, HashWorkerStep
<1>3. CASE KernelRead
  <2>1. fd.target = read_bufnum /\ fd.target \in Buffers
    BY <1>3 DEF KernelRead, RingInv, RingReader, TypeOK
  <2>2. \A b \in Buffers : b # read_bufnum => buffer'[b] = buffer[b]
    BY <1>3, <2>1 DEF KernelRead, TypeOK
  <2>3. ReadInv'
    <3>1. BytesRead' = BytesRead
      BY <1>3 DEF KernelRead, BytesRead, TypeOK
    <3>2. BytesRead = 1 => buffer'[fd.target] = fd.Offset + 1
      BY <1>3, <2>1 DEF KernelRead, TypeOK
    <3>3. fd'.target = fd.target /\ fd'.Offset = fd.Offset
      BY <1>3 DEF KernelRead, TypeOK
    <3>4. buffer'[PreviousBuffer(read_bufnum)] = buffer[PreviousBuffer(read_bufnum)]
      BY <2>2, RingLemma DEF TypeOK
    <3>5. QED
      BY <1>3, <3>1, <3>2, <3>3, <3>4 DEF KernelRead, readerVars, HashInv, ReadInv
  <2>4. ASSUME NEW w \in HashIds PROVE HashThreadInv(w)' /\ CountInv(w)'
    <3>1. Busy(w) => buffer'[proc_bufnum] = buffer[proc_bufnum]
      BY <2>2 DEF RingInv, RingThread, TypeOK
    <3>2. QED
      BY <1>3, <3>1 DEF KernelRead, HashInv, HashThreadInv, CountInv, Handed, Busy,
                        readerVars, events, workerVars
  <2>5. QED
    BY <2>3, <2>4 DEF HashInv
<1>4. CASE KernelReadError
  BY <1>4 DEF KernelReadError, TypeOK, HashInv, ReadInv, HashThreadInv, CountInv,
              Handed, Busy, BytesRead, readerVars, events, workerVars
<1>5. CASE UserCancel \/ Terminated \/ UNCHANGED vars
  BY <1>5 DEF UserCancel, Terminated, HashInv, ReadInv, HashThreadInv, CountInv,
              Handed, Busy, BytesRead, vars, readerVars, events, workerVars
<1>6. QED
  BY <1>1, <1>2, <1>3, <1>4, <1>5 DEF Next

\* Whatever the interleaving of the threads, the disk and the timeouts, every
\* hash thread hashes the chunks of the image in order, each once, and the only
\* digest it can publish is that of the whole image.
THEOREM DigestsAreOfTheImage == Spec => []HashesAreOfTheImage
<1>1. Spec => [](TypeOK /\ RingInv /\ HashInv)
  BY TypeInit, TypeNext, RingInit, RingNext, HashInit, HashNext, PTL DEF Spec
<1>2. HashInv => HashesAreOfTheImage
  BY DEF HashInv, HashThreadInv, HashesAreOfTheImage
<1>3. QED
  BY <1>1, <1>2, PTL

-----------------------------------------------------------------------------
(* HashThread only succeeds after every hash thread was told that there is  *)
(* no more data, which it only is after it has hashed the image; a thread   *)
(* that was told so can only finalize its digest, unless it is gone.        *)

\* Hash thread w was signalled the end of the data, and has acted on it or is
\* about to.
Told(w) ==
    \/ worker[w] \in {"wait", "late"} /\ data_ready[w]
    \/ worker[w] \in {"woken", "finished"}

Gone(w) == worker[w] = "none" \/ Ended(w)

\* What SuccessMeansAllHashed says of one hash thread.
Completed(w) ==
    \/ worker[w] = "finished"
    \/ worker[w] = "late" /\ hash_ctx[w] = WholeImage

JoinThread(w) ==
    /\ reader = "create" /\ w >= i => worker[w] = "none"
    /\ thread_ready[w] \/ data_ready[w] => worker[w] \in {"wait", "late"}
    /\ reader = "signal" /\ w >= i => worker[w] \in {"wait", "late"}
    /\ /\ read_size[proc_bufnum] = 0
       /\ reader \in {"loop", "join"} \/ (reader = "signal" /\ w < i)
       => Told(w)
    /\ worker[w] = "finished" => hash_str[w] = WholeImage
    /\ worker[w] # "finished" => hash_str[w] = EarlierImage
    /\ r = 0 => Completed(w)
    /\ reader = "out" /\ w < i => Gone(w)
    /\ reader = "done" => Gone(w)

JoinInv ==
    /\ reader = "join" => read_size[proc_bufnum] = 0
    /\ r = 0 => reader \in {"out", "done"}
    /\ \A w \in HashIds : JoinThread(w)

\* The strengthening that is inductive.
IInv == TypeOK /\ RingInv /\ HashInv /\ JoinInv

LEMMA JoinInit == Init => JoinInv
BY HashPipelineAssumption DEF Init, JoinInv, JoinThread

\* A thread that was told the end of the data has hashed the image.
LEMMA ToldMeansHashed ==
    ASSUME IInv, NEW w \in HashIds, data_ready[w] \/ worker[w] = "woken",
           read_size[proc_bufnum] = 0
    PROVE  hash_ctx[w] = WholeImage
<1>0. TypeOK /\ HashThreadInv(w)
  BY DEF IInv, HashInv
<1>1. Len(hash_ctx[w]) = NumChunks
  BY <1>0 DEF HashThreadInv, Busy
<1> QED
  BY <1>0, <1>1, HashPipelineAssumption DEF HashThreadInv, WholeImage, TypeOK

LEMMA JoinReaderStep ==
    ASSUME IInv, Reader
    PROVE  JoinInv'
<1> USE DEF TypeOK, GotoOut
<1>0. TypeOK /\ RingInv /\ JoinInv
  BY DEF IInv
<1>1. /\ reader' = "join" => read_size'[proc_bufnum'] = 0
      /\ r' = 0 => reader' \in {"out", "done"}
  BY <1>0 DEF Reader, CreateHashThread, OpenImage, LoopTest, ReadComplete,
       ReadFault, AllThreadsReady, ThreadsTimeout, SignalData, Join, Out, JoinInv
<1>2. ASSUME NEW w \in HashIds PROVE JoinThread(w)'
  <2>0. JoinThread(w) /\ RingThread(w) /\ w \in Nat
    BY <1>0, HashPipelineAssumption DEF JoinInv, RingInv, HashIds
  <2>1. CASE CreateHashThread
    BY <1>0, <2>0, <2>1 DEF CreateHashThread, JoinInv, JoinThread, Completed, Gone, Ended
  <2>2. CASE OpenImage
    BY <1>0, <2>0, <2>2
       DEF OpenImage, JoinInv, JoinThread, RingThread, Completed, Gone, Ended, events, workerVars,
           Buffers, NUM_BUFFERS
  <2>3. CASE LoopTest
    BY <1>0, <2>0, <2>3
       DEF LoopTest, JoinInv, JoinThread, Completed, Told, Gone, Ended, events, workerVars
  <2>4. CASE ReadComplete
    BY <1>0, <2>0, <2>4
       DEF ReadComplete, JoinInv, JoinThread, Completed, Gone, Ended, events, workerVars
  <2>5. CASE ReadFault \/ ThreadsTimeout
    BY <1>0, <2>0, <2>5
       DEF ReadFault, ThreadsTimeout, JoinInv, JoinThread, Completed, Gone, Ended, events, workerVars
  <2>6. CASE AllThreadsReady
    BY <1>0, <2>0, <2>6
       DEF AllThreadsReady, JoinInv, JoinThread, Completed, Gone, Ended, workerVars
  <2>7. CASE SignalData
    <3>1. /\ reader = "signal" /\ r # 0 /\ r' = r
          /\ UNCHANGED <<proc_bufnum, read_size, thread_ready, worker, hash_str, hash_ctx>>
      BY <1>0, <2>7 DEF SignalData, JoinInv, workerVars
    <3>2. CASE /\ i < num_hashes
               /\ data_ready' = [data_ready EXCEPT ![i] = TRUE]
               /\ i' = i + 1
               /\ reader' = reader
      <4>1. CASE w = i
        <5>1. worker[w] \in {"wait", "late"} /\ data_ready'[w]
          BY <1>0, <2>0, <3>1, <3>2, <4>1 DEF JoinThread
        <5>2. QED
          BY <2>0, <3>1, <3>2, <4>1, <5>1 DEF JoinThread, Told
      <4>2. CASE w # i
        <5>1. data_ready'[w] = data_ready[w]
          BY <3>2, <4>2
        <5>2. /\ w >= i' => w >= i
              /\ w < i' => w < i
          BY <1>0, <2>0, <3>2, <4>2, HashPipelineAssumption
        <5>3. QED
          BY <2>0, <3>1, <3>2, <5>1, <5>2 DEF JoinThread, Told
      <4>3. QED
        BY <4>1, <4>2
    <3>3. CASE reader' = "out" /\ i' = 0 /\ data_ready' = data_ready
      BY <2>0, <3>1, <3>3 DEF JoinThread
    <3>4. CASE reader' = "loop" /\ i = num_hashes /\ data_ready' = data_ready
      <4>1. w < i
        BY <3>4, HashPipelineAssumption DEF HashIds
      <4>2. QED
        BY <2>0, <3>1, <3>4, <4>1 DEF JoinThread, Told
    <3>5. QED
      BY <2>7, <3>2, <3>3, <3>4 DEF SignalData
  <2>8. CASE Join
    <3>1. Told(w)
      BY <1>0, <2>0, <2>8 DEF Join, JoinInv, JoinThread
    <3>2. r' = 0 => Ended(w)
      BY <1>0, <2>8 DEF Join, JoinInv
    <3>3. r' = 0 => Completed(w)
      BY <1>0, <2>8, <3>1, <3>2, ToldMeansHashed DEF Join, JoinInv, Told, Ended, Completed
    <3>4. reader' = "out" /\ i' = 0 /\ UNCHANGED <<events, workerVars>>
      BY <2>8 DEF Join
    <3>5. QED
      BY <2>0, <3>3, <3>4 DEF JoinThread, Completed, events, workerVars
  <2>9. CASE Out
    <3>1. UNCHANGED <<r, hash_str, hash_ctx>> /\ reader = "out"
      BY <2>9 DEF Out
    <3>2. CASE i < num_hashes /\ reader' = "out" /\ i' = i + 1
      <4>1. worker' = IF Gone(i) THEN worker
                      ELSE [worker EXCEPT ![i] = "terminated"]
        BY <2>9, <3>2 DEF Out, Gone
      <4>2. /\ data_ready' = [data_ready EXCEPT ![i] = FALSE]
            /\ thread_ready' = [thread_ready EXCEPT ![i] = FALSE]
        BY <2>9, <3>2 DEF Out
      <4>3. CASE w = i
        BY <1>0, <2>0, <3>1, <3>2, <4>1, <4>2, <4>3
           DEF JoinThread, Completed, Gone, Ended
      <4>4. CASE w # i
        <5>1. w < i' => w < i
          BY <1>0, <2>0, <3>2, <4>4
        <5>2. QED
          BY <1>0, <2>0, <3>1, <3>2, <4>1, <4>2, <4>4, <5>1
             DEF JoinThread, Completed, Gone, Ended
      <4>5. QED
        BY <4>3, <4>4
    <3>3. CASE i = num_hashes /\ reader' = "done" /\ UNCHANGED <<worker, events>>
      <4>1. Gone(w)
        BY <2>0, <3>1, <3>3, HashPipelineAssumption DEF JoinThread, HashIds
      <4>2. QED
        BY <2>0, <3>1, <3>3, <4>1 DEF JoinThread, Completed, Gone, Ended, events
    <3>4. QED
      BY <2>9, <3>2, <3>3 DEF Out
  <2>10. QED
    BY <2>1, <2>2, <2>3, <2>4, <2>5, <2>6, <2>7, <2>8, <2>9 DEF Reader
<1>3. QED
  BY <1>1, <1>2 DEF JoinInv

LEMMA FinalizeDelivers ==
    ASSUME IInv, NEW v \in HashIds, Finalize(v)
    PROVE  hash_str' = [hash_str EXCEPT ![v] = WholeImage]
<1> USE DEF TypeOK
<1> QED
  BY ToldMeansHashed DEF Finalize

LEMMA JoinWorkerStep ==
    ASSUME IInv, NEW v \in HashIds, Worker(v)
    PROVE  JoinInv'
<1> USE DEF TypeOK
<1>0. TypeOK /\ RingInv /\ JoinInv
  BY DEF IInv
<1>1. UNCHANGED <<readerVars, fd, proc_bufnum, read_size, buffer>>
  BY DEF Worker, Start, Wake, WaitTimeout, BeginHash, EndHash, ThreadReady,
         SetEventError, Finalize
<1>2. ~Gone(v) /\ ~Completed(v)
  BY DEF Completed, Worker, Start, Wake, WaitTimeout, BeginHash, EndHash, ThreadReady,
         SetEventError, Finalize, Completed, Gone, Ended
<1>3. ASSUME NEW w \in HashIds PROVE JoinThread(w)'
  <2>0. JoinThread(w) /\ JoinThread(v) /\ RingThread(v)
    BY <1>0 DEF JoinInv, RingInv
  <2>1. CASE w # v
    <3>1. /\ worker'[w] = worker[w] /\ data_ready'[w] = data_ready[w]
          /\ thread_ready'[w] = thread_ready[w]
          /\ hash_str'[w] = hash_str[w] /\ hash_ctx'[w] = hash_ctx[w]
      BY <1>0, <2>1 DEF Worker, Start, Wake, WaitTimeout, BeginHash, EndHash,
                        ThreadReady, SetEventError, Finalize, events
    <3>2. QED
      BY <1>1, <2>0, <3>1 DEF JoinThread, Completed, Told, Gone, Ended, readerVars
  <2>2. CASE w = v
    <3>1. CASE Start(v) \/ Wake(v) \/ BeginHash(v) \/ EndHash(v) \/ ThreadReady(v)
      BY <1>0, <1>1, <1>2, <2>0, <2>2, <3>1
         DEF Start, Wake, BeginHash, EndHash, ThreadReady, JoinThread, RingThread,
             Told, readerVars, events
    <3>2. CASE WaitTimeout(v)
      BY <1>0, <1>1, <1>2, <2>0, <2>2, <3>2
         DEF WaitTimeout, JoinThread, Completed, Told, readerVars, events
    <3>3. CASE SetEventError(v)
      BY <1>0, <1>1, <1>2, <2>0, <2>2, <3>3
         DEF SetEventError, JoinThread, Told, readerVars, events
    <3>4. CASE Finalize(v)
      <4>1. hash_str'[v] = WholeImage
        BY <1>0, <3>4, FinalizeDelivers
      <4>2. QED
        BY <1>0, <1>1, <1>2, <2>0, <2>2, <3>4, <4>1
           DEF Finalize, JoinThread, RingThread, Told, readerVars, events
    <3>5. QED
      BY <3>1, <3>2, <3>3, <3>4 DEF Worker
  <2>3. QED
    BY <2>1, <2>2
<1>4. QED
  BY <1>0, <1>1, <1>3 DEF JoinInv, readerVars

LEMMA JoinNext == IInv /\ [Next]_vars => IInv'
<1> SUFFICES ASSUME IInv, [Next]_vars PROVE JoinInv'
  BY TypeNext, RingNext, HashNext DEF IInv
<1>1. CASE Reader
  BY <1>1, JoinReaderStep
<1>2. CASE \E w \in HashIds : Worker(w)
  BY <1>2, JoinWorkerStep
<1>3. CASE KernelRead \/ KernelReadError \/ UserCancel \/ Terminated \/ UNCHANGED vars
  BY <1>3 DEF KernelRead, KernelReadError, UserCancel, Terminated, IInv, JoinInv,
              JoinThread, Completed, Told, Gone, Ended, vars, readerVars, events, workerVars
<1>4. QED
  BY <1>1, <1>2, <1>3 DEF Next

LEMMA JoinInvariant == Spec => []IInv
<1>1. Init => IInv
  BY TypeInit, RingInit, HashInit, JoinInit DEF IInv
<1>2. IInv /\ [Next]_vars => IInv'
  BY JoinNext
<1>3. QED
  BY <1>1, <1>2, PTL DEF Spec

\* When HashThread succeeds every hash thread has hashed the whole of this image,
\* and has published its digest unless it gave up the wait for the last event.
THEOREM SuccessIsOfAll == Spec => []SuccessMeansAllHashed
<1>1. IInv => SuccessMeansAllHashed
  BY DEF IInv, JoinInv, JoinThread, Completed, SuccessMeansAllHashed
<1>2. QED
  BY <1>1, JoinInvariant, PTL

-----------------------------------------------------------------------------
(* The refinement: finalizing delivers a digest, a timeout gives it up,     *)
(* joining the hash threads is the success, and every other end a failure.  *)

Outcome == IF r = 0 THEN "ok" ELSE IF reader = "done" THEN "failed" ELSE "busy"
GivenUp == {w \in HashIds : worker[w] = "late"}

LEMMA ServiceInit == Init => Service!Init
BY DEF Init, Service!Init, Service!HashIds, HashIds, Service!EarlierImage,
       EarlierImage, GivenUp

\* A step that changes no other thread than w, which is not late before it, nor
\* after it, leaves the same threads late.
LEMMA SameGivenUp ==
    ASSUME TypeOK, NEW w \in HashIds, NEW s \in WorkerStates, s # "late",
           worker[w] # "late", worker' = [worker EXCEPT ![w] = s]
    PROVE  GivenUp' = GivenUp
<1>1. \A v \in HashIds : worker'[v] = IF v = w THEN s ELSE worker[v]
  BY DEF TypeOK
<1> QED
  BY <1>1 DEF GivenUp

LEMMA ServiceStep ==
    ASSUME IInv, [Next]_vars
    PROVE  [Service!Next]_<<Outcome, GivenUp, hash_str>>
<1> USE DEF TypeOK, GotoOut, Outcome
<1>0. TypeOK /\ JoinInv
  BY DEF IInv
<1>01. worker' = worker => GivenUp' = GivenUp
  BY DEF GivenUp
<1>1. CASE Join
  <2>1. /\ reader = "join" /\ r = -1 /\ reader' = "out"
        /\ UNCHANGED <<hash_str, worker, GivenUp>>
    BY <1>0, <1>01, <1>1 DEF Join, JoinInv, workerVars
  <2>2. CASE r' = 0
    <3>1. ASSUME NEW w \in HashIds PROVE hash_str[w] = WholeImage \/ w \in GivenUp
      <4>1. Told(w) /\ Ended(w) /\ JoinThread(w)
        BY <1>0, <1>1, <2>1, <2>2 DEF Join, JoinInv, JoinThread
      <4>2. QED
        BY <4>1 DEF Told, Ended, JoinThread, GivenUp
    <3>2. Service!Succeed
      BY <2>1, <2>2, <3>1
         DEF Service!Succeed, Service!HashIds, HashIds, Service!WholeImage, WholeImage,
             GivenUp
    <3>3. QED
      BY <3>2 DEF Service!Next
  <2>3. CASE r' = r
    BY <2>1, <2>3
  <2>4. QED
    BY <1>1, <2>2, <2>3 DEF Join
<1>2. CASE Out
  <2>1. UNCHANGED <<r, hash_str>> /\ reader = "out" /\ reader' \in {"out", "done"}
    BY <1>2 DEF Out
  <2>2. GivenUp' = GivenUp
    <3>1. CASE worker' = worker
      BY <1>01, <3>1
    <3>2. CASE i \in HashIds /\ ~Ended(i) /\ worker' = [worker EXCEPT ![i] = "terminated"]
      BY <1>0, <3>2, SameGivenUp DEF Ended, WorkerStates
    <3> QED
      BY <1>0, <1>2, <3>1, <3>2, HashPipelineAssumption DEF Out, HashIds
  <2>3. CASE r = 0 \/ reader' = "out"
    BY <2>1, <2>2, <2>3
  <2>4. CASE r = -1 /\ reader' = "done"
    BY <2>1, <2>2, <2>4 DEF Service!Next, Service!Fail, GivenUp
  <2>5. QED
    BY <1>0, <2>1, <2>3, <2>4
<1>3. ASSUME NEW w \in HashIds, Finalize(w)
      PROVE  [Service!Next]_<<Outcome, GivenUp, hash_str>>
  <2>1. r = -1 /\ reader # "done" /\ UNCHANGED <<r, reader>>
    BY <1>0, <1>3 DEF Finalize, JoinInv, JoinThread, Completed, Gone, Ended, readerVars
  <2>2. hash_str' = [hash_str EXCEPT ![w] = WholeImage]
    BY <1>3, FinalizeDelivers
  <2>3. w \notin GivenUp /\ GivenUp' = GivenUp
    BY <1>0, <1>3, SameGivenUp DEF Finalize, GivenUp, WorkerStates
  <2>4. Service!Deliver(w)
    BY <2>1, <2>2, <2>3 DEF Service!Deliver, Service!WholeImage, WholeImage, GivenUp
  <2>5. QED
    BY <2>4 DEF Service!Next, Service!HashIds, HashIds
<1>4. ASSUME NEW w \in HashIds, WaitTimeout(w)
      PROVE  [Service!Next]_<<Outcome, GivenUp, hash_str>>
  <2>1. r = -1 /\ reader # "done" /\ UNCHANGED <<r, reader, hash_str>>
    BY <1>0, <1>4
       DEF WaitTimeout, JoinInv, JoinThread, Completed, Gone, Ended, readerVars
  <2>2. hash_str[w] = EarlierImage
    BY <1>0, <1>4 DEF WaitTimeout, JoinInv, JoinThread
  <2>3. GivenUp' = GivenUp \union {w}
    <3>1. \A v \in HashIds : worker'[v] = IF v = w THEN "late" ELSE worker[v]
      BY <1>0, <1>4 DEF WaitTimeout
    <3> QED
      BY <3>1 DEF GivenUp
  <2>4. Service!GiveUp(w)
    BY <2>1, <2>2, <2>3 DEF Service!GiveUp, Service!EarlierImage, EarlierImage, GivenUp
  <2> QED
    BY <2>4 DEF Service!Next, Service!HashIds, HashIds
<1>5. CASE CreateHashThread
  <2>1. CASE worker' = worker
    BY <1>01, <1>5, <2>1 DEF CreateHashThread
  <2>2. CASE i \in HashIds /\ worker' = [worker EXCEPT ![i] = "init"] /\ reader' = reader
    <3>1. worker[i] = "none"
      BY <1>0, <1>5, <2>2, HashPipelineAssumption
         DEF CreateHashThread, JoinInv, JoinThread, HashIds
    <3>2. GivenUp' = GivenUp
      BY <1>0, <2>2, <3>1, SameGivenUp DEF WorkerStates
    <3> QED
      BY <1>5, <2>2, <3>2 DEF CreateHashThread
  <2> QED
    BY <1>0, <1>5, <2>1, <2>2, HashPipelineAssumption DEF CreateHashThread, HashIds
<1>6. CASE OpenImage \/ LoopTest \/ ReadComplete \/ ReadFault
           \/ AllThreadsReady \/ ThreadsTimeout \/ SignalData
  <2>1. UNCHANGED <<r, worker, hash_str>> /\ reader # "done" /\ reader' # "done"
    BY <1>0, <1>6 DEF OpenImage, LoopTest, ReadComplete, ReadFault,
       AllThreadsReady, ThreadsTimeout, SignalData, workerVars
  <2> QED
    BY <1>01, <2>1
<1>7. ASSUME NEW w \in HashIds,
             \/ Start(w) \/ Wake(w) \/ BeginHash(w)
             \/ EndHash(w) \/ ThreadReady(w) \/ SetEventError(w)
      PROVE  UNCHANGED <<r, reader, hash_str, GivenUp>>
  <2>1. UNCHANGED <<r, reader, hash_str>>
    BY <1>7 DEF Start, Wake, BeginHash, EndHash, ThreadReady, SetEventError, readerVars
  <2>2. PICK s \in WorkerStates : s # "late" /\ worker' = [worker EXCEPT ![w] = s]
    BY <1>7 DEF Start, Wake, BeginHash, EndHash, ThreadReady, SetEventError, WorkerStates
  <2>3. worker[w] # "late"
    BY <1>7 DEF Start, Wake, BeginHash, EndHash, ThreadReady, SetEventError
  <2> QED
    BY <1>0, <2>1, <2>2, <2>3, SameGivenUp
<1>8. CASE KernelRead \/ KernelReadError \/ UserCancel \/ Terminated \/ UNCHANGED vars
  BY <1>01, <1>8 DEF KernelRead, KernelReadError, UserCancel, Terminated, vars,
              readerVars, workerVars
<1>9. QED
  BY <1>1, <1>2, <1>3, <1>4, <1>5, <1>6, <1>7, <1>8 DEF Next, Reader, Worker

\* The checksum computation implements its abstract specification, for any
\* number of algorithms and any image, and however late the data is: when it
\* succeeds, what it shows are digests of the whole of this image, but for those
\* that were given up.
THEOREM PipelineImplementsService == Spec => ImplementsHashService
<1>1. IInv /\ [Next]_vars => [Service!Next]_<<Outcome, GivenUp, hash_str>>
  BY ServiceStep
<1>2. QED
  BY <1>1, ServiceInit, JoinInvariant, PTL
     DEF Spec, ImplementsHashService, Service!Spec, Outcome, GivenUp
=============================================================================
