--------------------------- MODULE WriteDriveProofs ---------------------------
(***************************************************************************)
(* Proofs about WriteDrive(), for any size of the sectors, the buffers,    *)
(* the drive and the image.  Each of the three ways has an inductive       *)
(* invariant of its own, which says where the file pointer of the drive is *)
(* and what is already in its place:                                       *)
(*                                                                         *)
(*  - an image (ImageInv): the request that the operating system works on  *)
(*    starts where the buffer that is written ends (Requested), and the    *)
(*    bytes before wb are those of the image (ImageWritten).  Only the     *)
(*    last block may not be a whole number of sectors, and after it the    *)
(*    subtraction of the next request may wrap around, which does no harm  *)
(*    as there is nothing left to read;                                    *)
(*                                                                         *)
(*  - zeroing (ZeroInv): the file pointer is at wb, before which no data   *)
(*    is left;                                                             *)
(*                                                                         *)
(*  - a compressed image (SectorInv): the drive and the partial sector are *)
(*    consecutive intervals of the bytes of the image.                     *)
(***************************************************************************)
EXTENDS WriteDrive, SequenceTheorems, TLAPS

\* Quotient and remainder.
LEMMA DivMod ==
    ASSUME NEW n \in Int
    PROVE  /\ n \div SectorSize \in Int
           /\ n % SectorSize \in 0 .. SectorSize - 1
           /\ n % SectorSize = n - SectorSize * (n \div SectorSize)
  BY WriteDriveAssumption

LEMMA ModOf ==
    ASSUME NEW q \in Int, NEW r \in 0 .. SectorSize - 1
    PROVE  (SectorSize * q + r) % SectorSize = r
<1> DEFINE n == SectorSize * q + r
<1>1. n \in Int
  BY WriteDriveAssumption
<1>2. /\ n \div SectorSize \in Int
      /\ n % SectorSize \in 0 .. SectorSize - 1
      /\ n % SectorSize = n - SectorSize * (n \div SectorSize)
  BY <1>1, DivMod
<1>3. SectorSize * (q - (n \div SectorSize)) = (n % SectorSize) - r
  BY <1>2, WriteDriveAssumption
<1> HIDE DEF n
<1>4. q = n \div SectorSize
  BY <1>1, <1>2, <1>3, WriteDriveAssumption
<1> QED
  BY <1>2, <1>3, <1>4, WriteDriveAssumption DEF n

LEMMA Aligned ==
    ASSUME NEW a \in Int, NEW b \in Int, a % SectorSize = 0, b % SectorSize = 0
    PROVE  (a + b) % SectorSize = 0 /\ (a - b) % SectorSize = 0
<1> DEFINE p == a \div SectorSize
           q == b \div SectorSize
<1>1. p \in Int /\ 0 = a - SectorSize * p
  BY DivMod
<1>2. q \in Int /\ 0 = b - SectorSize * q
  BY DivMod
<1> HIDE DEF p, q
<1>3. a + b = SectorSize * (p + q) + 0 /\ a - b = SectorSize * (p - q) + 0
  BY <1>1, <1>2, WriteDriveAssumption
<1>4. 0 \in 0 .. SectorSize - 1 /\ p + q \in Int /\ p - q \in Int
  BY <1>1, <1>2, WriteDriveAssumption
<1> QED
  BY <1>3, <1>4, ModOf

\* The smallest multiple of SectorSize that is not smaller.
LEMMA CeilingAlignLemma ==
    ASSUME NEW n \in Nat
    PROVE  /\ Image!CeilingAlign(n) \in Nat
           /\ Image!CeilingAlign(n) \in n .. n + SectorSize - 1
           /\ Image!CeilingAlign(n) % SectorSize = 0
<1> DEFINE m == n + SectorSize - 1
           q == m \div SectorSize
<1>1. m \in Nat
  BY WriteDriveAssumption
<1>2. /\ q \in Int
      /\ m % SectorSize \in 0 .. SectorSize - 1
      /\ m % SectorSize = m - SectorSize * q
  BY <1>1, DivMod
<1> HIDE DEF q
<1>3. Image!CeilingAlign(n) = SectorSize * q + 0
  BY <1>2, WriteDriveAssumption DEF Image!CeilingAlign, q
<1>4. (SectorSize * q + 0) % SectorSize = 0
  BY <1>2, ModOf, WriteDriveAssumption
<1> QED
  BY <1>1, <1>2, <1>3, <1>4, WriteDriveAssumption

\* An aligned size that is within a sector is the one that CeilingAlign gives.
LEMMA CeilingUnique ==
    ASSUME NEW n \in Nat, NEW c \in Int, c \in n .. n + SectorSize - 1, c % SectorSize = 0
    PROVE  Image!CeilingAlign(n) = c
<1> DEFINE e == Image!CeilingAlign(n)
<1>1. e \in Nat /\ e \in n .. n + SectorSize - 1 /\ e % SectorSize = 0
  BY CeilingAlignLemma
<1> HIDE DEF e
<1>2. (e - c) % SectorSize = 0
  BY <1>1, Aligned
<1> DEFINE k == (e - c) \div SectorSize
<1>3. e - c \in Int
  BY <1>1
<1>4. k \in Int /\ 0 = (e - c) - SectorSize * k
  BY <1>2, <1>3, DivMod
<1> HIDE DEF k
<1>5. k = 0
  BY <1>1, <1>4, WriteDriveAssumption
<1>6. e = c
  BY <1>1, <1>4, <1>5, WriteDriveAssumption
<1> QED
  BY <1>6 DEF e

\* Min and Max, as the three modules use them.
LEMMA MinTwo ==
    ASSUME NEW a \in Int, NEW b \in Int
    PROVE  /\ Image!Min({a, b}) = IF a <= b THEN a ELSE b
           /\ Zero!Min({a, b}) = IF a <= b THEN a ELSE b
           /\ Compressed!Min({a, b}) = IF a <= b THEN a ELSE b
  BY DEF Image!Min, Zero!Min, Compressed!Min

LEMMA MaxZero ==
    ASSUME NEW a \in Int
    PROVE  /\ Image!Max({a, 0}) = IF a >= 0 THEN a ELSE 0
           /\ Zero!Max({a, 0}) = IF a >= 0 THEN a ELSE 0
  BY DEF Image!Max, Zero!Max

LEMMA MinBound ==
    ASSUME NEW a \in Nat, NEW b \in Nat
    PROVE  Zero!Min({a, b}) \in 0 .. b
<1>1. Zero!Min({a, b}) = IF a <= b THEN a ELSE b
  BY MinTwo
<1> QED
  BY <1>1
-----------------------------------------------------------------------------
(* The image *)

Requests == [iStatus : {"closed", "pending", "complete", "error"}, target : 0 .. 1,
             Offset : Nat, size : Nat]

ImageFlags ==
    /\ ret \in BOOLEAN
    /\ vhd \in BOOLEAN
    /\ rewound \in BOOLEAN
    /\ torn \in BOOLEAN

ImageTyped ==
    /\ pc \in {"start", "loop", "wait_read", "write", "done"}
    /\ image_size \in ImageSizes
    /\ wb \in Nat
    /\ i \in 1 .. WRITE_RETRIES
    /\ read_bufnum \in 0 .. 1
    /\ proc_bufnum = 1 - read_bufnum
    /\ read_size \in [0 .. 1 -> Nat]
    /\ fd \in Requests
    /\ buffer \in [0 .. 1 -> [from : Int, count : Nat]]
    /\ pos \in Nat /\ wb <= pos /\ pos <= DiskSize
    /\ ErrorStatus \in Errors

\* A block of c bytes, at w, that ends where a sector or the image does.
Whole(w, c) == c > 0 /\ (c < Image!CeilingAlign(c) => w + c = Image!target_size)

\* The request that reads what is to be written next.  After a torn sector it is
\* behind.
Request(next) ==
    next < Image!target_size =>
        /\ next % SectorSize = 0
        /\ fd.Offset <= next
        /\ fd.size = Image!Min({buf_size, Image!target_size - next})
        /\ fd.iStatus = "complete" => /\ buffer[read_bufnum].from = fd.Offset
                                      /\ buffer[read_bufnum].count <= fd.size
        /\ ~torn => /\ fd.Offset = next
                    /\ fd.iStatus = "complete" => Whole(next, buffer[read_bufnum].count)

Requested ==
    /\ pc = "start" => fd.iStatus = "closed"
    /\ pc \in {"loop", "wait_read", "write"} =>
           /\ fd.iStatus # "closed"
           /\ fd.target = read_bufnum
           /\ ~torn => read_size[proc_bufnum] > 0
    /\ pc \in {"loop", "wait_read"} => Request(wb)
    /\ pc = "wait_read" => wb < Image!target_size
    /\ pc = "write" => Request(wb + read_size[proc_bufnum])

\* What is written: what was read, rounded up to sectors.
Processed ==
    pc = "write" =>
        /\ wb < Image!target_size
        /\ wb % SectorSize = 0
        /\ buffer[proc_bufnum].count <= Image!target_size - wb
        /\ read_size[proc_bufnum] = Image!CeilingAlign(buffer[proc_bufnum].count)
        /\ ~torn => /\ buffer[proc_bufnum].from = wb
                    /\ Whole(wb, buffer[proc_bufnum].count)

ImageWritten ==
    /\ DOMAIN disk = 0 .. DiskSize - 1
    /\ pc = "start" => wb = 0 /\ \A p \in DOMAIN disk : disk[p] = Image!Old
    /\ rewound /\ pc \in {"loop", "wait_read", "write"} => pos = wb
    /\ Image!DriveHoldsWhatWasWritten

Returned == ret => pc = "done" /\ (~torn => wb >= Image!target_size)

\* A buffer that has any bytes has those of the image.
Ranged ==
    /\ \A b \in 0 .. 1 : read_size[b] <= buf_size
    /\ \A b \in 0 .. 1 : buffer[b].count = 0 \/ buffer[b].from \in Nat
    /\ \A p \in DOMAIN disk : disk[p] \in {Image!Old, Image!Junk} \union Nat

ImageInv ==
    /\ ImageFlags
    /\ ImageTyped
    /\ Ranged
    /\ Requested
    /\ Processed
    /\ ImageWritten
    /\ Returned
    /\ Image!AlignedNotOverread

\* How much there is to write: the whole image, or a drive full of it.
LEMMA TargetLemma ==
    ASSUME image_size \in ImageSizes, vhd \in BOOLEAN
    PROVE  /\ Image!target_size \in Nat
           /\ Image!target_size < Modulus
           /\ Image!target_size <= image_size
           /\ image_size % SectorSize = 0 => Image!target_size % SectorSize = 0
           /\ \A p \in 0 .. DiskSize - 1 : p < image_size => p < Image!target_size
           /\ vhd => Image!target_size = image_size
  BY MinTwo, WriteDriveAssumption DEF Image!target_size

\* A block of c bytes that starts at w, and that is rounded up to sectors.
LEMMA BlockLemma ==
    ASSUME NEW target \in Nat, NEW w \in Nat, w % SectorSize = 0, w < target,
           NEW c \in Nat, c <= target - w
    PROVE  /\ Image!CeilingAlign(c) \in Nat
           /\ Image!CeilingAlign(c) >= c
           /\ (w + Image!CeilingAlign(c)) % SectorSize = 0
           /\ w + Image!CeilingAlign(c) <= Image!CeilingAlign(target)
           /\ target % SectorSize = 0 => w + Image!CeilingAlign(c) <= target
<1> DEFINE z == Image!CeilingAlign(c)
           t == Image!CeilingAlign(target)
<1>1. z \in Nat /\ z \in c .. c + SectorSize - 1 /\ z % SectorSize = 0
  BY CeilingAlignLemma
<1>2. t \in Nat /\ t \in target .. target + SectorSize - 1 /\ t % SectorSize = 0
  BY CeilingAlignLemma
<1>3. (w + z) % SectorSize = 0
  BY <1>1, Aligned
<1>4. target % SectorSize = 0 => t = target
  BY CeilingUnique, WriteDriveAssumption
<1> HIDE DEF z, t
<1>5. w + z <= t
  <2> SUFFICES ASSUME w + z > t PROVE FALSE
    BY <1>1, <1>2
  <2>1. w + z \in Int /\ w + z \in t .. t + SectorSize - 1
    BY <1>1, <1>2, WriteDriveAssumption
  <2>2. Image!CeilingAlign(t) = w + z
    BY <1>2, <1>3, <2>1, CeilingUnique
  <2>3. t \in Int /\ t \in t .. t + SectorSize - 1
    BY <1>2, WriteDriveAssumption
  <2>4. Image!CeilingAlign(t) = t
    BY <1>2, <2>3, CeilingUnique
  <2> QED
    BY <1>1, <1>2, <2>2, <2>4
<1> QED
  BY <1>1, <1>3, <1>4, <1>5 DEF z, t

\* What a read brings that is full, or short by whole sectors.
LEMMA WholeLemma ==
    ASSUME Image!target_size \in Nat, NEW w \in Nat, w < Image!target_size, NEW c \in Nat,
           \/ c = Image!Min({buf_size, Image!target_size - w})
           \/ c # 0 /\ c % SectorSize = 0
    PROVE  Whole(w, c)
<1>1. c % SectorSize = 0 => Image!CeilingAlign(c) = c
  BY CeilingUnique, WriteDriveAssumption
<1>2. Image!Min({buf_size, Image!target_size - w}) \in {buf_size, Image!target_size - w}
  BY MinTwo, WriteDriveAssumption
<1>3. buf_size \in Nat \ {0} /\ buf_size % SectorSize = 0
  BY WriteDriveAssumption
<1> QED
  BY <1>1, <1>2, <1>3 DEF Whole

LEMMA ImageInit == Image!Init => ImageInv
<1> SUFFICES ASSUME Image!Init PROVE ImageInv
  OBVIOUS
<1> USE WriteDriveAssumption DEF Image!Init, Image!Buffers, Image!NUM_BUFFERS, Image!Junk
<1>1. ImageFlags
  BY DEF ImageFlags
<1>2. ImageTyped
  BY DEF ImageTyped, Requests, Errors, WRITE_RETRIES
<1>3. Requested /\ Processed /\ Returned
  BY DEF Requested, Processed, Returned
<1>4. ImageWritten
  BY DEF ImageWritten, Image!DriveHoldsWhatWasWritten
<1>5. Image!AlignedNotOverread
  BY DEF Image!AlignedNotOverread, Image!NoReadPastTarget
<1>6. Ranged
  BY DEF Ranged
<1> QED
  BY <1>1, <1>2, <1>3, <1>4, <1>5, <1>6 DEF ImageInv

\* What every step leaves alone.
LEMMA TargetStep ==
    Image!Next => /\ image_size' = image_size
                  /\ vhd' = vhd
                  /\ Image!target_size' = Image!target_size
<1> SUFFICES ASSUME Image!Next PROVE image_size' = image_size /\ vhd' = vhd
  BY DEF Image!target_size
<1> QED
  BY DEF Image!Next, Image!WriteDrive, Image!Start, Image!SetupFailed, Image!LoopTest,
         Image!ReadComplete, Image!ReadFault, Image!Cancelled, Image!WriteOk,
         Image!WriteRetry, Image!SeekFailed, Image!WriteFault, Image!ShortWrite,
         Image!KernelRead, Image!KernelReadError, Image!UserCancel, Image!Terminated,
         Image!vars, Image!imageVars

\* Unsigned subtraction is exact as long as it does not wrap around.
LEMMA MinusLemma ==
    ASSUME NEW a \in Nat, NEW b \in Nat, a < Modulus
    PROVE  /\ Image!Minus(a, b) \in Nat
           /\ b <= a => Image!Minus(a, b) = a - b
<1>1. Modulus \in Nat \ {0}
  BY WriteDriveAssumption
<1>2. ASSUME NEW x \in Nat, x < Modulus PROVE x % Modulus = x
  BY <1>1, <1>2
<1>3. (a - b) % Modulus \in Nat
  BY <1>1
<1>4. b <= a => a - b \in Nat /\ a - b < Modulus
  BY <1>1
<1> QED
  BY <1>2, <1>3, <1>4 DEF Image!Minus

\* A request within the image may bring all that is asked for.
LEMMA BytesReadLemma ==
    ASSUME ImageFlags, ImageTyped, NEW next \in Nat, next < Image!target_size,
           fd.Offset <= next, fd.size = Image!Min({buf_size, Image!target_size - next})
    PROVE  Image!BytesRead = fd.size
<1>1. Image!target_size \in Nat /\ Image!target_size <= image_size
  BY TargetLemma DEF ImageTyped, ImageFlags
<1>2. image_size \in Nat /\ fd.Offset \in Nat
  BY WriteDriveAssumption DEF ImageTyped, Requests
<1> DEFINE left == image_size - fd.Offset
<1>3. left \in Int /\ left >= 0 /\ fd.size \in Int /\ fd.size <= left
  BY <1>1, <1>2, MinTwo, WriteDriveAssumption
<1> HIDE DEF left
<1>4. Image!Max({left, 0}) = IF left >= 0 THEN left ELSE 0
  BY <1>3, MaxZero
<1>5. Image!Min({fd.size, left}) = IF fd.size <= left THEN fd.size ELSE left
  BY <1>3, MinTwo
<1>6. Image!Max({left, 0}) = left /\ Image!Min({fd.size, left}) = fd.size
  BY <1>3, <1>4, <1>5
<1> QED
  BY <1>6 DEF Image!BytesRead, left

\* What is known of a read that is complete.
LEMMA ReadLemma ==
    ASSUME ImageInv, pc = "wait_read", fd.iStatus = "complete"
    PROVE  LET c == buffer[read_bufnum].count
           IN  /\ Image!SizeRead = c
               /\ c \in Nat /\ c <= buf_size /\ c <= Image!target_size - wb
               /\ fd.Offset \in Nat /\ fd.Offset <= wb
               /\ wb \in Nat
               /\ wb < Image!target_size
               /\ wb % SectorSize = 0
               /\ ~torn => /\ fd.Offset = wb
                           /\ buffer[read_bufnum].from = wb
                           /\ Whole(wb, c)
<1> DEFINE c == buffer[read_bufnum].count
           left == Image!target_size - wb
<1>1. /\ fd.target = read_bufnum
      /\ wb < Image!target_size
      /\ wb % SectorSize = 0
      /\ fd.Offset <= wb
      /\ fd.size = Image!Min({buf_size, left})
      /\ c <= fd.size
      /\ ~torn => /\ fd.Offset = wb
                  /\ buffer[read_bufnum].from = wb
                  /\ Whole(wb, c)
  BY DEF ImageInv, Requested, Request
<1>2. wb \in Nat /\ fd.Offset \in Nat /\ c \in Nat
  BY DEF ImageInv, ImageTyped, Requests
<1>3. Image!target_size \in Nat /\ buf_size \in Nat
  BY TargetLemma, WriteDriveAssumption DEF ImageInv, ImageFlags, ImageTyped
<1>4. left \in Nat
  BY <1>1, <1>2, <1>3
<1>5. Image!SizeRead = c
  BY <1>1 DEF Image!SizeRead
<1> HIDE DEF c, left
<1>6. Image!Min({buf_size, left}) = IF buf_size <= left THEN buf_size ELSE left
  BY <1>3, <1>4, MinTwo
<1>7. c <= buf_size /\ c <= left
  BY <1>1, <1>2, <1>3, <1>4, <1>6
<1> QED
  BY <1>1, <1>2, <1>5, <1>7 DEF c, left

\* What ReadComplete does: the block that was read is to be written, and what
\* follows it is asked for.
LEMMA ReadCompleteLemma ==
    ASSUME ImageInv, Image!ReadComplete
    PROVE  LET c == buffer[read_bufnum].count
               z == Image!CeilingAlign(c)
           IN  /\ pc = "wait_read" /\ fd.iStatus = "complete" /\ pc' = "write"
               /\ read_size' = [read_size EXCEPT ![read_bufnum] = z]
               /\ proc_bufnum' = read_bufnum
               /\ read_bufnum' = 1 - read_bufnum
               /\ fd' = [iStatus |-> "pending", target |-> 1 - read_bufnum,
                         Offset |-> fd.Offset + c,
                         size |-> Image!Min({buf_size,
                                             Image!Minus(Image!target_size, wb + z)})]
               /\ buffer' = [buffer EXCEPT ![1 - read_bufnum] =
                                               [from |-> Image!Junk, count |-> 0]]
<1>1. pc = "wait_read" /\ fd.iStatus = "complete"
  BY DEF Image!ReadComplete
<1>2. Image!SizeRead = buffer[read_bufnum].count
  BY <1>1, ReadLemma
<1>3. read_bufnum \in 0 .. 1
  BY DEF ImageInv, ImageTyped
<1>4. (read_bufnum + 1) % 2 = 1 - read_bufnum
  BY <1>3
<1> QED
  BY <1>1, <1>2, <1>4 DEF Image!ReadComplete, Image!ReadFileAsync, Image!NUM_BUFFERS

\* The three ways in which a write that fails may go on.
ShortWrites ==
    \E n \in Image!Sectors :
        Image!WriteRetry(n) \/ Image!SeekFailed(n) \/ Image!WriteFault(n)

\* Every step keeps the types of the flags.
LEMMA ImageFlagsStep == ImageInv /\ Image!Next => ImageFlags'
<1> SUFFICES ASSUME ImageInv, Image!Next PROVE ImageFlags'
  OBVIOUS
<1> USE DEF ImageInv, ImageFlags, Image!imageVars
<1>1. CASE Image!Start
  BY <1>1, Zenon DEF Image!Start, Image!Rewind, Image!ReadFileAsync,
     Image!Buffers, Image!NUM_BUFFERS, Image!Junk
<1>2. CASE Image!SetupFailed
  BY <1>2, Zenon DEF Image!SetupFailed, Image!Rewind, Image!GotoOut
<1>3. CASE Image!LoopTest
  BY <1>3, Zenon DEF Image!LoopTest, Image!GotoOut
<1>4. CASE Image!ReadComplete
  BY <1>4, Zenon DEF Image!ReadComplete
<1>5. CASE Image!WriteOk
  BY <1>5, Zenon DEF Image!WriteOk
<1>6. CASE ShortWrites
  BY <1>6, Zenon DEF ShortWrites, Image!WriteRetry, Image!SeekFailed,
     Image!WriteFault, Image!ShortWrite, Image!GotoOut, Image!Sectors
<1>7. CASE Image!KernelRead
  BY <1>7, Zenon DEF Image!KernelRead
<1>8. CASE Image!ReadFault \/ Image!Cancelled \/ Image!KernelReadError \/
          Image!UserCancel \/ Image!Terminated
  BY <1>8, Zenon DEF Image!ReadFault, Image!GotoOut, Image!Cancelled,
     Image!KernelReadError, Requests, Image!UserCancel, Image!Terminated,
     Image!vars
<1> QED
  BY <1>1, <1>2, <1>3, <1>4, <1>5, <1>6, <1>7, <1>8 DEF Image!Next,
     Image!WriteDrive, ShortWrites

\* Every step keeps the types of the state.
LEMMA ImageTypedStep == ImageInv /\ Image!Next => ImageTyped'
<1> SUFFICES ASSUME ImageInv, Image!Next PROVE ImageTyped'
  OBVIOUS
<1> USE TargetStep DEF ImageInv, ImageTyped, Image!imageVars, Errors, SetupErrors,
     Image!SetupErrors, WRITE_RETRIES, Image!WRITE_RETRIES
<1>1. CASE Image!Start
  <2>1. Image!target_size \in Nat
    BY TargetLemma DEF ImageFlags
  <2>2. Image!Min({buf_size, Image!target_size}) \in Nat
    BY <2>1, MinTwo, WriteDriveAssumption
  <2> QED
    BY <1>1, <2>2, WriteDriveAssumption DEF Image!Start, Image!Rewind, Image!ReadFileAsync, Image!Buffers,
                    Image!NUM_BUFFERS, Image!Junk, Requests
<1>2. CASE Image!SetupFailed
  <2>1. wb = 0
    BY <1>2 DEF Image!SetupFailed, ImageWritten
  <2>2. pos' \in Nat /\ pos' <= DiskSize
    BY <1>2, WriteDriveAssumption DEF Image!SetupFailed, Image!Rewind
  <2>3. ErrorStatus' \in Errors
    BY <1>2 DEF Image!SetupFailed
  <2> QED
    BY <1>2, <2>1, <2>2, <2>3 DEF Image!SetupFailed, Image!GotoOut
<1>3. CASE Image!LoopTest
  BY <1>3 DEF Image!LoopTest, Image!GotoOut
<1>4. CASE Image!ReadComplete
  <2> DEFINE z == Image!CeilingAlign(buffer[read_bufnum].count)
  <2>1. wb + z \in Nat /\ z \in Nat /\ fd.Offset + buffer[read_bufnum].count \in Nat
    BY CeilingAlignLemma DEF Requests
  <2>2. Image!target_size \in Nat /\ Image!target_size < Modulus
    BY TargetLemma DEF ImageFlags
  <2>3. Image!Minus(Image!target_size, wb + z) \in Nat
    BY <2>1, <2>2, MinusLemma
  <2>4. Image!Min({buf_size, Image!Minus(Image!target_size, wb + z)}) \in Nat
    BY <2>3, MinTwo, WriteDriveAssumption
  <2>5. fd' \in Requests
    BY <1>4, <2>1, <2>4, ReadCompleteLemma DEF Requests
  <2> QED
    BY <1>4, <2>1, <2>5, ReadCompleteLemma DEF Image!ReadComplete, Image!Junk
<1>5. CASE Image!WriteOk
  BY <1>5 DEF Image!WriteOk
<1>6. CASE ShortWrites
  <2>1. PICK n \in Image!Sectors :
            Image!WriteRetry(n) \/ Image!SeekFailed(n) \/ Image!WriteFault(n)
    BY <1>6 DEF ShortWrites
  <2>2. n \in Nat
    BY DEF Image!Sectors
  <2>3. CASE Image!WriteRetry(n)
    <3>1. i' \in 1 .. WRITE_RETRIES
      BY <2>3 DEF Image!WriteRetry
    <3>2. wb <= DiskSize
      BY WriteDriveAssumption
    <3> QED
      BY <2>3, <3>1, <3>2 DEF Image!WriteRetry, Image!ShortWrite
  <2>4. CASE Image!SeekFailed(n)
    BY <2>2, <2>4 DEF Image!SeekFailed, Image!ShortWrite, Image!GotoOut
  <2>5. CASE Image!WriteFault(n)
    BY <2>2, <2>5 DEF Image!WriteFault, Image!ShortWrite, Image!GotoOut
  <2> QED
    BY <2>1, <2>3, <2>4, <2>5
<1>7. CASE Image!KernelRead
  <2>1. Image!BytesRead \in Nat
    <3> DEFINE left == image_size - fd.Offset
    <3>1. left \in Int /\ fd.size \in Nat
      BY WriteDriveAssumption DEF Requests
    <3> DEFINE bytes == Image!Max({left, 0})
    <3> HIDE DEF left
    <3>2. bytes \in Nat
      BY <3>1, MaxZero
    <3> HIDE DEF bytes
    <3>3. Image!Min({fd.size, bytes}) \in Nat
      BY <3>1, <3>2, MinTwo
    <3> QED
      BY <3>3 DEF Image!BytesRead, left, bytes
  <2> QED
    BY <1>7, <2>1 DEF Image!KernelRead, Requests
<1>8. CASE Image!ReadFault
  BY <1>8 DEF Image!ReadFault, Image!GotoOut
<1>9. CASE Image!Cancelled \/ Image!UserCancel
  BY <1>9 DEF Image!Cancelled, Image!GotoOut, Image!UserCancel
<1>10. CASE Image!KernelReadError
  BY <1>10 DEF Image!KernelReadError, Requests
<1>11. CASE Image!Terminated
  BY <1>11 DEF Image!Terminated, Image!vars
<1> QED
  BY <1>1, <1>2, <1>3, <1>4, <1>5, <1>6, <1>7, <1>8, <1>9, <1>10, <1>11
     DEF Image!Next, Image!WriteDrive, ShortWrites

\* Every request starts where the buffer that is written ends.
LEMMA RequestedStep == ImageInv /\ Image!Next => Requested'
<1> SUFFICES ASSUME ImageInv, Image!Next PROVE Requested'
  OBVIOUS
<1>0. /\ Image!target_size \in Nat
      /\ Image!target_size' = Image!target_size
      /\ image_size' = image_size /\ vhd' = vhd
  BY TargetLemma, TargetStep DEF ImageInv, ImageFlags, ImageTyped
<1> USE <1>0 DEF ImageInv, Requested, Request, Image!imageVars
<1>1. CASE Image!Start
  <2>1. Image!target_size \in Nat
    BY TargetLemma DEF ImageFlags, ImageTyped
  <2>2. Image!target_size - 0 = Image!target_size /\ 0 % SectorSize = 0
    BY <2>1, WriteDriveAssumption
  <2>3. wb' = 0 /\ pc' = "loop" /\ read_size'[proc_bufnum'] = 1
    BY <1>1 DEF Image!Start, Image!Buffers, Image!NUM_BUFFERS
  <2>4. /\ fd'.iStatus = "pending" /\ fd'.target = read_bufnum' /\ fd'.Offset = 0
        /\ fd'.size = Image!Min({buf_size, Image!target_size})
    BY <1>1 DEF Image!Start, Image!ReadFileAsync
  <2>5. Image!target_size' - wb' = Image!target_size
    BY <2>2, <2>3
  <2>6. Request(wb)'
    BY <2>2, <2>3, <2>4, <2>5
  <2> QED
    BY <2>3, <2>4, <2>6
<1>2. CASE Image!SetupFailed
  BY <1>2 DEF Image!SetupFailed, Image!Rewind, Image!GotoOut
<1>3. CASE Image!LoopTest
  BY <1>3 DEF Image!LoopTest, Image!GotoOut, ImageTyped, Whole, Image!CeilingAlign
<1>4. CASE Image!ReadComplete
  <2> DEFINE c == buffer[read_bufnum].count
             z == Image!CeilingAlign(c)
             next == wb + z
  <2>1. /\ c \in Nat /\ c <= Image!target_size - wb
        /\ fd.Offset \in Nat /\ fd.Offset <= wb
        /\ wb \in Nat /\ wb < Image!target_size /\ wb % SectorSize = 0
        /\ ~torn => fd.Offset = wb /\ Whole(wb, c)
    BY <1>4, ReadLemma, ReadCompleteLemma
  <2>2. Image!target_size \in Nat /\ Image!target_size < Modulus
    BY TargetLemma DEF ImageFlags, ImageTyped
  <2>3. z \in Nat /\ z >= c /\ next % SectorSize = 0
    BY <2>1, <2>2, BlockLemma
  <2>4. next \in Nat
    BY <2>1, <2>3
  <2>5. next < Image!target_size =>
            Image!Minus(Image!target_size, next) = Image!target_size - next
    BY <2>2, <2>4, MinusLemma
  <2>6. /\ pc' = "write" /\ wb' = wb /\ torn' = torn /\ fd'.iStatus = "pending"
        /\ fd'.target = read_bufnum'
        /\ fd'.Offset = fd.Offset + c
        /\ fd'.size = Image!Min({buf_size, Image!Minus(Image!target_size, next)})
    BY <1>4, ReadCompleteLemma DEF Image!ReadComplete
  <2>7. read_size'[proc_bufnum'] = z
    BY <1>4, ReadCompleteLemma DEF ImageTyped
  <2>8. wb' + read_size'[proc_bufnum'] = next
    BY <2>6, <2>7
  <2>9. ~torn => c > 0 /\ (next < Image!target_size => c = z)
    BY <2>1, <2>2, <2>3 DEF Whole
  <2> HIDE DEF z, c
  <2>10. fd.Offset + c <= next
    BY <2>1, <2>3
  <2>11. next < Image!target_size =>
            /\ next % SectorSize = 0
            /\ fd'.Offset <= next
            /\ fd'.size = Image!Min({buf_size, Image!target_size - next})
            /\ ~torn => fd'.Offset = next
    BY <2>1, <2>3, <2>5, <2>6, <2>9, <2>10
  <2> HIDE DEF next
  <2>12. Request(wb + read_size[proc_bufnum])'
    BY <2>6, <2>8, <2>11
  <2>13. ~torn => read_size'[proc_bufnum'] > 0
    BY <2>1, <2>3, <2>7, <2>9
  <2> QED
    BY <2>6, <2>12, <2>13
<1>5. CASE Image!WriteOk
  BY <1>5 DEF Image!WriteOk, Whole, Image!CeilingAlign
<1>6. CASE ShortWrites
  <2>1. /\ wb' = wb /\ read_bufnum' = read_bufnum /\ proc_bufnum' = proc_bufnum
        /\ read_size' = read_size /\ fd' = fd /\ buffer' = buffer /\ torn' = torn
        /\ pc = "write" /\ (pc' = pc \/ pc' = "done")
    BY <1>6 DEF ShortWrites, Image!WriteRetry, Image!SeekFailed, Image!WriteFault,
       Image!ShortWrite, Image!GotoOut, Image!Sectors
  <2> QED
    BY <2>1 DEF Whole, Image!CeilingAlign
<1>7. CASE Image!KernelRead
  <2>1. PICK n \in 0 .. Image!BytesRead :
            /\ buffer' = [buffer EXCEPT ![fd.target] = [from |-> fd.Offset, count |-> n]]
            /\ torn' = (torn \/ (n < Image!BytesRead /\ (n = 0 \/ n % SectorSize # 0)))
    BY <1>7 DEF Image!KernelRead
  <2>2. ~torn' => ~torn /\ ~(n < Image!BytesRead /\ (n = 0 \/ n % SectorSize # 0))
    BY <2>1, Zenon
  <2> SUFFICES ASSUME NEW next \in Nat, next < Image!target_size, Request(next),
                      fd.target = read_bufnum
               PROVE  Request(next)'
    BY <1>7, <2>2 DEF Image!KernelRead, ImageTyped, Requests
  <2>3. Image!BytesRead = fd.size /\ fd.size \in Nat /\ n \in Nat
    BY BytesReadLemma DEF ImageTyped, Requests
  <2>4. ~torn' => Whole(next, n)
    <3> SUFFICES ASSUME ~torn' PROVE Whole(next, n)
      OBVIOUS
    <3>1. n = fd.size \/ (n # 0 /\ n % SectorSize = 0)
      BY <2>2, <2>3
    <3> QED
      BY <2>3, <3>1, WholeLemma
  <2>5. /\ buffer'[read_bufnum].from = fd.Offset /\ buffer'[read_bufnum].count = n
        /\ fd'.Offset = fd.Offset /\ fd'.size = fd.size /\ read_bufnum' = read_bufnum
    BY <1>7, <2>1 DEF Image!KernelRead, ImageTyped, Requests
  <2>6. Whole(next, n)' = Whole(next, n)
    BY DEF Whole, Image!CeilingAlign
  <2> QED
    BY <2>2, <2>3, <2>4, <2>5, <2>6 DEF Whole, Image!CeilingAlign
<1>8. CASE Image!ReadFault
  BY <1>8 DEF Image!ReadFault, Image!GotoOut
<1>9. CASE Image!Cancelled \/ Image!UserCancel
  BY <1>9 DEF Image!Cancelled, Image!GotoOut, Image!UserCancel, Whole, Image!CeilingAlign
<1>10. CASE Image!KernelReadError
  BY <1>10 DEF Image!KernelReadError, Requests
<1>11. CASE Image!Terminated
  BY <1>11 DEF Image!Terminated, Image!vars
<1> QED
  BY <1>1, <1>2, <1>3, <1>4, <1>5, <1>6, <1>7, <1>8, <1>9, <1>10, <1>11
     DEF Image!Next, Image!WriteDrive, ShortWrites

\* The buffer that is written is left alone until it is.
LEMMA ProcessedStep == ImageInv /\ Image!Next => Processed'
<1> SUFFICES ASSUME ImageInv, Image!Next PROVE Processed'
  OBVIOUS
<1>0. /\ Image!target_size \in Nat
      /\ Image!target_size' = Image!target_size
      /\ image_size' = image_size /\ vhd' = vhd
  BY TargetLemma, TargetStep DEF ImageInv, ImageFlags, ImageTyped
<1> USE <1>0 DEF ImageInv, Processed, Image!imageVars
<1>1. CASE Image!Start
  BY <1>1 DEF Image!Start, Image!Rewind, Image!ReadFileAsync, Image!Buffers,
     Image!NUM_BUFFERS, Image!Junk
<1>2. CASE Image!SetupFailed
  BY <1>2 DEF Image!SetupFailed, Image!Rewind, Image!GotoOut
<1>3. CASE Image!LoopTest
  BY <1>3 DEF Image!LoopTest, Image!GotoOut
<1>4. CASE Image!ReadComplete
  <2>1. /\ buffer'[proc_bufnum'] = buffer[read_bufnum]
        /\ read_size'[proc_bufnum'] = Image!CeilingAlign(buffer[read_bufnum].count)
        /\ wb' = wb /\ torn' = torn
    BY <1>4, ReadCompleteLemma DEF Image!ReadComplete, ImageTyped
  <2>2. /\ wb < Image!target_size /\ wb % SectorSize = 0
        /\ buffer[read_bufnum].count <= Image!target_size - wb
        /\ ~torn => /\ buffer[read_bufnum].from = wb
                    /\ Whole(wb, buffer[read_bufnum].count)
    BY <1>4, ReadLemma, ReadCompleteLemma
  <2> QED
    BY <2>1, <2>2 DEF Whole, Image!CeilingAlign
<1>5. CASE Image!WriteOk
  BY <1>5 DEF Image!WriteOk
<1>6. CASE ShortWrites
  BY <1>6 DEF ShortWrites, Image!WriteRetry, Image!SeekFailed, Image!WriteFault,
     Image!ShortWrite, Image!GotoOut, Image!Sectors, Whole, Image!CeilingAlign
<1>7. CASE Image!KernelRead
  <2>1. PICK n \in 0 .. Image!BytesRead :
            /\ buffer' = [buffer EXCEPT ![fd.target] = [from |-> fd.Offset, count |-> n]]
            /\ torn' = (torn \/ (n < Image!BytesRead /\ (n = 0 \/ n % SectorSize # 0)))
    BY <1>7 DEF Image!KernelRead
  <2>2. ~torn' => ~torn
    BY <2>1, Zenon
  <2>3. pc = "write" => buffer'[proc_bufnum] = buffer[proc_bufnum]
    BY <2>1 DEF Requested, ImageTyped
  <2> QED
    BY <1>7, <2>2, <2>3 DEF Image!KernelRead, Whole, Image!CeilingAlign
<1>8. CASE Image!ReadFault \/ Image!Cancelled \/ Image!KernelReadError \/
          Image!UserCancel \/ Image!Terminated
  BY <1>8 DEF Image!ReadFault, Image!GotoOut, Image!Cancelled,
     Image!KernelReadError, Requests, Image!UserCancel, Image!Terminated,
     Image!vars, Whole, Image!CeilingAlign
<1> QED
  BY <1>1, <1>2, <1>3, <1>4, <1>5, <1>6, <1>7, <1>8 DEF Image!Next,
     Image!WriteDrive, ShortWrites

\* Success is only returned when there is nothing left to write.
LEMMA ReturnedStep == ImageInv /\ Image!Next => Returned'
<1> SUFFICES ASSUME ImageInv, Image!Next PROVE Returned'
  OBVIOUS
<1>0. /\ Image!target_size \in Nat
      /\ Image!target_size' = Image!target_size
      /\ image_size' = image_size /\ vhd' = vhd
  BY TargetLemma, TargetStep DEF ImageInv, ImageFlags, ImageTyped
<1> USE <1>0 DEF ImageInv, ImageTyped, Requested, Returned, Image!imageVars
<1>1. CASE Image!Start
  BY <1>1 DEF Image!Start, Image!Rewind, Image!ReadFileAsync, Image!Buffers,
     Image!NUM_BUFFERS, Image!Junk
<1>2. CASE Image!SetupFailed
  BY <1>2 DEF Image!SetupFailed, Image!Rewind, Image!GotoOut
<1>3. CASE Image!LoopTest
  <2>1. ~torn => read_size[proc_bufnum] # 0
    BY <1>3 DEF Image!LoopTest
  <2>2. CASE wb >= Image!target_size
    BY <1>3, <2>2 DEF Image!LoopTest, Image!GotoOut
  <2>3. CASE ~torn /\ ~(wb >= Image!target_size)
    <3>1. ret' = ret /\ pc = "loop"
      BY <1>3, <2>1, <2>3, Zenon DEF Image!LoopTest
    <3> QED
      BY <3>1
  <2>4. CASE torn
    <3>1. pc = "loop" /\ torn' = torn /\ (ret' = ret \/ pc' = "done")
      BY <1>3 DEF Image!LoopTest, Image!GotoOut
    <3> QED
      BY <2>4, <3>1
  <2> QED
    BY <2>2, <2>3, <2>4
<1>4. CASE Image!ReadComplete
  BY <1>4 DEF Image!ReadComplete
<1>5. CASE Image!WriteOk
  BY <1>5 DEF Image!WriteOk
<1>6. CASE ShortWrites
  BY <1>6 DEF ShortWrites, Image!WriteRetry, Image!SeekFailed, Image!WriteFault,
     Image!ShortWrite, Image!GotoOut, Image!Sectors
<1>7. CASE Image!KernelRead
  <2>1. ret' = ret /\ pc' = pc /\ wb' = wb
    BY <1>7 DEF Image!KernelRead
  <2>2. ~torn' => ~torn
    BY <1>7, Zenon DEF Image!KernelRead
  <2> QED
    BY <2>1, <2>2
<1>8. CASE Image!ReadFault \/ Image!Cancelled \/ Image!KernelReadError \/
          Image!UserCancel \/ Image!Terminated
  BY <1>8 DEF Image!ReadFault, Image!GotoOut, Image!Cancelled,
     Image!KernelReadError, Requests, Image!UserCancel, Image!Terminated,
     Image!vars
<1> QED
  BY <1>1, <1>2, <1>3, <1>4, <1>5, <1>6, <1>7, <1>8 DEF Image!Next,
     Image!WriteDrive, ShortWrites

\* What a write of n bytes at wb leaves on the drive.
LEMMA WrittenLemma ==
    ASSUME ImageInv, pc = "write", rewound,
           NEW n \in Nat, n <= read_size[proc_bufnum], disk' = Image!Written(n)
    PROVE  /\ DOMAIN disk' = 0 .. DiskSize - 1
           /\ \A p \in 0 .. DiskSize - 1 :
                  ~torn /\ p < wb + n /\ p < image_size => disk'[p] = p
           /\ \A p \in 0 .. DiskSize - 1 :
                  p >= Image!CeilingAlign(Image!target_size) => disk'[p] = Image!Old
<1> DEFINE c == buffer[proc_bufnum].count
           z == read_size[proc_bufnum]
           t == Image!CeilingAlign(Image!target_size)
<1>1. pos = wb /\ wb \in Nat /\ DOMAIN disk = 0 .. DiskSize - 1
  BY DEF ImageInv, ImageWritten, ImageTyped
<1>2. /\ wb < Image!target_size /\ wb % SectorSize = 0
      /\ c \in Nat /\ c <= Image!target_size - wb
      /\ z = Image!CeilingAlign(c)
      /\ ~torn => /\ buffer[proc_bufnum].from = wb
                  /\ c < Image!CeilingAlign(c) => wb + c = Image!target_size
  BY DEF ImageInv, Processed, Whole, ImageTyped
<1>3. /\ Image!target_size \in Nat
      /\ \A p \in 0 .. DiskSize - 1 : p < image_size => p < Image!target_size
  BY TargetLemma DEF ImageInv, ImageFlags, ImageTyped
<1> HIDE DEF c, z, t
<1>4. /\ c \in Nat /\ z \in Nat
      /\ ~torn /\ c < z => wb + c = Image!target_size
      /\ wb + z <= t
  <2>1. /\ Image!CeilingAlign(c) \in Nat
        /\ wb + Image!CeilingAlign(c) <= Image!CeilingAlign(Image!target_size)
    BY <1>1, <1>2, <1>3, BlockLemma
  <2> QED
    BY <1>2, <2>1 DEF t
<1>5. t \in Nat
  BY <1>3, CeilingAlignLemma DEF t
<1>6. image_size \in Nat /\ DiskSize \in Nat
  BY WriteDriveAssumption DEF ImageInv, ImageTyped
<1>7. \A p \in 0 .. DiskSize - 1 :
          /\ ~torn /\ p < wb /\ p < image_size => disk[p] = p
          /\ p >= t => disk[p] = Image!Old
  BY <1>1 DEF ImageInv, ImageWritten, Image!DriveHoldsWhatWasWritten, t
<1>8. /\ DOMAIN disk' = 0 .. DiskSize - 1
      /\ \A p \in 0 .. DiskSize - 1 :
             disk'[p] = IF p \in wb .. wb + n - 1
                        THEN IF p - wb < c
                             THEN buffer[proc_bufnum].from + (p - wb) ELSE Image!Junk
                        ELSE disk[p]
  BY <1>1 DEF Image!Written, c
<1>9. ASSUME NEW p \in 0 .. DiskSize - 1, ~torn, p < wb + n, p < image_size
      PROVE  disk'[p] = p
  <2>1. p \in Nat /\ p < Image!target_size
    BY <1>3, <1>6, <1>9
  <2>2. CASE p < wb
    BY <1>1, <1>7, <1>8, <1>9, <2>1, <2>2
  <2>3. CASE p >= wb
    <3>1. p - wb < c
      BY <1>1, <1>3, <1>4, <1>9, <2>1, <2>3 DEF z
    <3>2. p \in wb .. wb + n - 1 /\ wb + (p - wb) = p
      BY <1>1, <1>9, <2>1, <2>3
    <3> QED
      BY <1>2, <1>8, <1>9, <3>1, <3>2
  <2> QED
    BY <1>1, <2>1, <2>2, <2>3
<1>10. ASSUME NEW p \in 0 .. DiskSize - 1, p >= t
       PROVE  disk'[p] = Image!Old
  <2>1. p \notin wb .. wb + n - 1
    BY <1>1, <1>4, <1>5, <1>6, <1>10 DEF z
  <2> QED
    BY <1>7, <1>8, <1>10, <2>1
<1> QED
  BY <1>8, <1>9, <1>10 DEF t


\* What is written is a leftover or bytes of the image.
LEMMA WrittenIsContent ==
    ASSUME ImageInv, NEW n \in Nat
    PROVE  \A p \in DOMAIN Image!Written(n) :
               Image!Written(n)[p] \in {Image!Old, Image!Junk} \union Nat
<1> SUFFICES ASSUME NEW p \in DOMAIN disk
             PROVE  Image!Written(n)[p] \in {Image!Old, Image!Junk} \union Nat
  BY DEF Image!Written
<1>1. disk[p] \in {Image!Old, Image!Junk} \union Nat /\ p \in Nat /\ pos \in Nat
  BY WriteDriveAssumption DEF ImageInv, Ranged, ImageWritten, ImageTyped
<1> DEFINE b == buffer[proc_bufnum]
<1>2. b.count \in Nat /\ (b.count = 0 \/ b.from \in Nat)
  BY DEF ImageInv, Ranged, ImageTyped
<1> HIDE DEF b
<1>3. Image!Written(n)[p] = IF p \in pos .. pos + n - 1
                            THEN IF p - pos < b.count THEN b.from + (p - pos) ELSE Image!Junk
                            ELSE disk[p]
  BY DEF Image!Written, b
<1>4. CASE p \in pos .. pos + n - 1 /\ p - pos < b.count
  <2>1. p - pos \in Nat /\ b.from \in Nat
    BY <1>1, <1>2, <1>4
  <2>2. b.from + (p - pos) \in Nat
    BY <2>1
  <2> QED
    BY <1>3, <1>4, <2>2
<1>5. CASE ~(p \in pos .. pos + n - 1 /\ p - pos < b.count)
  BY <1>1, <1>3, <1>5
<1> QED
  BY <1>4, <1>5

\* A block that was rounded up still fits its buffer.
LEMMA BlockFits ==
    ASSUME NEW c \in Nat, c <= buf_size
    PROVE  Image!CeilingAlign(c) <= buf_size
<1> DEFINE z == Image!CeilingAlign(c)
<1>1. z \in Nat /\ z \in c .. c + SectorSize - 1 /\ z % SectorSize = 0
  BY CeilingAlignLemma
<1>2. buf_size \in Nat /\ buf_size % SectorSize = 0 /\ SectorSize \in Nat \ {0}
  BY WriteDriveAssumption
<1> HIDE DEF z
<1>3. (z - buf_size) % SectorSize = 0
  <2>1. z \in Int /\ buf_size \in Int
    BY <1>1, <1>2
  <2> QED
    BY <1>1, <1>2, <2>1, Aligned, Zenon
<1> DEFINE k == (z - buf_size) \div SectorSize
<1>4. z - buf_size \in Int
  BY <1>1, <1>2
<1>5. k \in Int /\ 0 = (z - buf_size) - SectorSize * k
  BY <1>3, <1>4, DivMod
<1> HIDE DEF k
<1>6. z - buf_size < SectorSize
  BY <1>1, <1>2
<1>7. k <= 0
  BY <1>2, <1>4, <1>5, <1>6
<1>8. z <= buf_size
  BY <1>1, <1>2, <1>5, <1>7
<1> QED
  BY <1>8 DEF z

LEMMA RangedStep == ImageInv /\ Image!Next => Ranged'
<1> SUFFICES ASSUME ImageInv, Image!Next PROVE Ranged'
  OBVIOUS
<1>0. ImageTyped /\ Ranged
  BY DEF ImageInv
<1> USE DEF Ranged, Image!imageVars
<1>1. CASE Image!Start
  BY <1>0, <1>1, WriteDriveAssumption DEF ImageTyped, Image!Start, Image!ReadFileAsync,
     Image!Buffers, Image!NUM_BUFFERS
<1>2. CASE Image!ReadComplete
  <2> DEFINE c == buffer[read_bufnum].count
  <2>1. c \in Nat /\ c <= buf_size
    BY <1>2, ReadLemma, ReadCompleteLemma
  <2>2. Image!CeilingAlign(c) <= buf_size
    BY <2>1, BlockFits
  <2>3. /\ read_size' = [read_size EXCEPT ![read_bufnum] = Image!CeilingAlign(c)]
        /\ buffer' = [buffer EXCEPT ![1 - read_bufnum] = [from |-> Image!Junk, count |-> 0]]
    BY <1>2, ReadCompleteLemma
  <2>4. disk' = disk
    BY <1>2 DEF Image!ReadComplete
  <2> QED
    BY <1>0, <2>2, <2>3, <2>4 DEF ImageTyped
<1>3. CASE Image!WriteOk
  <2>1. /\ disk' = Image!Written(read_size[proc_bufnum])
        /\ read_size' = read_size /\ buffer' = buffer
    BY <1>3 DEF Image!WriteOk
  <2>2. read_size[proc_bufnum] \in Nat
    BY <1>0 DEF ImageTyped
  <2> QED
    BY <1>0, <2>1, <2>2, WrittenIsContent
<1>4. CASE ShortWrites
  <2>1. PICK n \in Image!Sectors :
            Image!WriteRetry(n) \/ Image!SeekFailed(n) \/ Image!WriteFault(n)
    BY <1>4 DEF ShortWrites
  <2>2. disk' = Image!Written(n) /\ read_size' = read_size /\ buffer' = buffer
    BY <2>1 DEF Image!WriteRetry, Image!SeekFailed, Image!WriteFault, Image!ShortWrite
  <2>3. n \in Nat
    BY DEF Image!Sectors
  <2> QED
    BY <1>0, <2>2, <2>3, WrittenIsContent
<1>5. CASE Image!KernelRead
  <2>1. fd.Offset \in Nat
    BY <1>0 DEF ImageTyped, Requests
  <2>2. /\ \E n \in 0 .. Image!BytesRead :
               buffer' = [buffer EXCEPT ![fd.target] = [from |-> fd.Offset, count |-> n]]
        /\ disk' = disk /\ read_size' = read_size
    BY <1>5 DEF Image!KernelRead
  <2> QED
    BY <1>0, <2>1, <2>2 DEF ImageTyped
<1>6. CASE Image!SetupFailed \/ Image!LoopTest \/ Image!ReadFault \/ Image!Cancelled \/
          Image!KernelReadError \/ Image!UserCancel \/ Image!Terminated
  <2>1. disk' = disk /\ read_size' = read_size /\ buffer' = buffer
    BY <1>6 DEF Image!SetupFailed, Image!LoopTest, Image!ReadFault, Image!Cancelled,
       Image!KernelReadError, Image!UserCancel, Image!Terminated, Image!vars
  <2> QED
    BY <1>0, <2>1
<1> QED
  BY <1>1, <1>2, <1>3, <1>4, <1>5, <1>6 DEF Image!Next, Image!WriteDrive, ShortWrites

\* What is before wb is the image, and what is past it is left alone.
LEMMA ImageWrittenStep == ImageInv /\ Image!Next => ImageWritten'
<1> SUFFICES ASSUME ImageInv, Image!Next PROVE ImageWritten'
  OBVIOUS
<1>0. /\ Image!target_size \in Nat
      /\ Image!target_size' = Image!target_size
      /\ image_size' = image_size /\ vhd' = vhd
  BY TargetLemma, TargetStep DEF ImageInv, ImageFlags, ImageTyped
<1> USE <1>0 DEF ImageInv, ImageWritten, Image!imageVars
<1>1. CASE Image!Start
  <2>1. wb' = 0
    BY <1>1 DEF Image!Start
  <2>2. pos' \in {0, pos} /\ rewound' = (pos' = 0) /\ disk' = disk /\ pc' = "loop"
    BY <1>1 DEF Image!Start, Image!Rewind
  <2>3. DOMAIN disk = 0 .. DiskSize - 1 /\ \A p \in DOMAIN disk : disk[p] = Image!Old
    BY <1>1 DEF Image!Start
  <2>4. Image!DriveHoldsWhatWasWritten'
    BY <2>1, <2>2, <2>3, WriteDriveAssumption DEF Image!DriveHoldsWhatWasWritten
  <2>5. rewound' => pos' = 0
    BY <2>2, Zenon
  <2> QED
    BY <2>1, <2>2, <2>3, <2>4, <2>5
<1>2. CASE Image!SetupFailed
  <2>1. wb' = wb /\ pos' \in {0, pos} /\ disk' = disk /\ pc' = "done" /\ wb = 0
    BY <1>2 DEF Image!SetupFailed, Image!Rewind, Image!GotoOut
  <2>2. DOMAIN disk = 0 .. DiskSize - 1 /\ \A p \in DOMAIN disk : disk[p] = Image!Old
    BY <1>2 DEF Image!SetupFailed
  <2>3. Image!DriveHoldsWhatWasWritten'
    BY <2>1, <2>2, WriteDriveAssumption DEF Image!DriveHoldsWhatWasWritten
  <2> QED
    BY <2>1, <2>2, <2>3
<1>3. CASE Image!WriteOk
  <2>1. /\ pc = "write" /\ pc' = "loop" /\ rewound' = rewound /\ torn' = torn
        /\ disk' = Image!Written(read_size[proc_bufnum])
        /\ pos' = pos + read_size[proc_bufnum]
        /\ wb' = wb + read_size[proc_bufnum]
    BY <1>3 DEF Image!WriteOk
  <2>2. read_size[proc_bufnum] \in Nat
    BY DEF ImageTyped
  <2>3. DOMAIN disk' = 0 .. DiskSize - 1
    BY <2>1 DEF Image!Written
  <2>4. rewound => \A p \in 0 .. DiskSize - 1 :
                       /\ ~torn /\ p < wb' /\ p < image_size => disk'[p] = p
                       /\ p >= Image!CeilingAlign(Image!target_size) => disk'[p] = Image!Old
    BY <2>1, <2>2, WrittenLemma
  <2>5. Image!DriveHoldsWhatWasWritten'
    BY <1>0, <2>1, <2>3, <2>4 DEF Image!DriveHoldsWhatWasWritten, Image!CeilingAlign
  <2> QED
    BY <2>1, <2>3, <2>5
<1>4. CASE ShortWrites
  <2>1. PICK n \in Image!Sectors :
            Image!WriteRetry(n) \/ Image!SeekFailed(n) \/ Image!WriteFault(n)
    BY <1>4 DEF ShortWrites
  <2>2. /\ pc = "write" /\ wb' = wb /\ disk' = Image!Written(n) /\ rewound' = rewound
        /\ torn' = torn
        /\ n = 0 \/ n < read_size[proc_bufnum]
        /\ pc' \in {"write", "done"} /\ (pc' = "write" => pos' = wb)
    BY <2>1 DEF Image!WriteRetry, Image!SeekFailed, Image!WriteFault, Image!ShortWrite,
                Image!GotoOut
  <2>3. /\ read_size[proc_bufnum] \in Nat
        /\ wb \in Nat /\ n \in Nat
    BY <2>2 DEF ImageTyped, Requested, Image!Sectors
  <2>4. n <= read_size[proc_bufnum]
    BY <2>2, <2>3
  <2>5. DOMAIN disk' = 0 .. DiskSize - 1
    BY <2>2 DEF Image!Written
  <2>6. rewound => \A p \in 0 .. DiskSize - 1 :
                       /\ ~torn /\ p < wb + n /\ p < image_size => disk'[p] = p
                       /\ p >= Image!CeilingAlign(Image!target_size) => disk'[p] = Image!Old
    BY <2>2, <2>3, <2>4, WrittenLemma
  <2>7. \A p \in 0 .. DiskSize - 1 : p < wb => p < wb + n
    BY <2>3, WriteDriveAssumption
  <2>8. Image!DriveHoldsWhatWasWritten'
    BY <1>0, <2>2, <2>5, <2>6, <2>7 DEF Image!DriveHoldsWhatWasWritten, Image!CeilingAlign
  <2> QED
    BY <2>2, <2>5, <2>8
<1>5. CASE Image!LoopTest \/ Image!ReadComplete \/ Image!ReadFault \/
          Image!Cancelled \/ Image!KernelRead \/ Image!KernelReadError \/
          Image!UserCancel \/ Image!Terminated
  <2>1. disk' = disk /\ wb' = wb /\ pos' = pos /\ rewound' = rewound
    BY <1>5 DEF Image!LoopTest, Image!GotoOut, Image!ReadComplete, Image!ReadFault,
       Image!Cancelled, Image!KernelRead, Image!KernelReadError, Requests,
       Image!UserCancel, Image!Terminated, Image!vars
  <2>2. pc' # "start" \/ pc' = pc
    BY <1>5 DEF Image!LoopTest, Image!GotoOut, Image!ReadComplete, Image!ReadFault,
       Image!Cancelled, Image!KernelRead, Image!KernelReadError, Requests,
       Image!UserCancel, Image!Terminated, Image!vars
  <2>3. pc' \in {"loop", "wait_read", "write"} => pc \in {"loop", "wait_read", "write"}
    BY <1>5 DEF Image!LoopTest, Image!GotoOut, Image!ReadComplete, Image!ReadFault,
       Image!Cancelled, Image!KernelRead, Image!KernelReadError, Requests,
       Image!UserCancel, Image!Terminated, Image!vars
  <2>4. ~torn' => ~torn
    BY <1>5, Zenon DEF Image!LoopTest, Image!ReadComplete, Image!ReadFault,
       Image!Cancelled, Image!KernelRead, Image!KernelReadError, Image!UserCancel,
       Image!Terminated, Image!vars
  <2> QED
    BY <2>1, <2>2, <2>3, <2>4 DEF Image!DriveHoldsWhatWasWritten, Image!CeilingAlign
<1> QED
  BY <1>1, <1>2, <1>3, <1>4, <1>5 DEF Image!Next, Image!WriteDrive, ShortWrites

\* No request goes past an image of whole sectors.
LEMMA AlignedStep == ImageInv /\ Image!Next => Image!AlignedNotOverread'
<1> SUFFICES ASSUME ImageInv, Image!Next PROVE Image!AlignedNotOverread'
  OBVIOUS
<1>0. /\ Image!target_size \in Nat
      /\ Image!target_size' = Image!target_size
      /\ image_size' = image_size /\ vhd' = vhd
  BY TargetLemma, TargetStep DEF ImageInv, ImageFlags, ImageTyped
<1> USE <1>0 DEF ImageInv, Image!AlignedNotOverread, Image!NoReadPastTarget,
     Image!imageVars
<1>1. CASE Image!Start
  <2>1. fd'.Offset = 0 /\ fd'.size = Image!Min({buf_size, Image!target_size})
    BY <1>1 DEF Image!Start, Image!ReadFileAsync
  <2> QED
    BY <2>1, MinTwo, WriteDriveAssumption
<1>2. CASE Image!ReadComplete
  <2> SUFFICES ASSUME image_size % SectorSize = 0
               PROVE  fd'.Offset + fd'.size <= Image!target_size
    OBVIOUS
  <2> DEFINE c == buffer[read_bufnum].count
             z == Image!CeilingAlign(c)
             next == wb + z
  <2>1. /\ c \in Nat /\ c <= Image!target_size - wb
        /\ fd.Offset \in Nat /\ fd.Offset <= wb
        /\ wb \in Nat /\ wb < Image!target_size /\ wb % SectorSize = 0
    BY <1>2, ReadLemma, ReadCompleteLemma
  <2>2. Image!target_size < Modulus /\ Image!target_size % SectorSize = 0
    BY TargetLemma DEF ImageFlags, ImageTyped
  <2>3. z \in Nat /\ z >= c /\ next <= Image!target_size
    BY <2>1, <2>2, BlockLemma
  <2>4. next \in Nat
    BY <2>1, <2>3
  <2>5. Image!Minus(Image!target_size, next) = Image!target_size - next
    BY <2>2, <2>3, <2>4, MinusLemma
  <2>6. /\ fd'.Offset = fd.Offset + c
        /\ fd'.size = Image!Min({buf_size, Image!Minus(Image!target_size, next)})
    BY <1>2, ReadCompleteLemma
  <2> HIDE DEF z, c
  <2>7. fd.Offset + c <= next
    BY <2>1, <2>3
  <2> HIDE DEF next
  <2>8. fd'.size <= Image!target_size - next /\ fd'.size \in Nat
    BY <2>3, <2>4, <2>5, <2>6, MinTwo, WriteDriveAssumption
  <2> QED
    BY <2>1, <2>4, <2>6, <2>7, <2>8
<1>3. CASE Image!KernelRead
  BY <1>3 DEF Image!KernelRead, ImageTyped, Requests
<1>4. CASE Image!KernelReadError
  BY <1>4 DEF Image!KernelReadError, ImageTyped, Requests
<1>5. CASE Image!SetupFailed \/ Image!LoopTest \/ Image!ReadFault \/
          Image!Cancelled \/ Image!WriteOk \/ ShortWrites \/ Image!UserCancel \/
          Image!Terminated
  BY <1>5 DEF Image!SetupFailed, Image!Rewind, Image!GotoOut, Image!LoopTest,
     Image!ReadFault, Image!Cancelled, Image!WriteOk, ShortWrites,
     Image!WriteRetry, Image!SeekFailed, Image!WriteFault, Image!ShortWrite,
     Image!Sectors, Image!UserCancel, Image!Terminated, Image!vars
<1> QED
  BY <1>1, <1>2, <1>3, <1>4, <1>5 DEF Image!Next, Image!WriteDrive, ShortWrites

\* A step of WriteDrive() keeps the invariant of the image.
LEMMA ImageStep == ImageInv /\ Image!Next => ImageInv'
  BY ImageFlagsStep, ImageTypedStep, RangedStep, RequestedStep, ProcessedStep, ReturnedStep,
     ImageWrittenStep, AlignedStep DEF ImageInv

-----------------------------------------------------------------------------
(* Zeroing *)

ZeroFlags == ret \in BOOLEAN /\ fast_zeroing \in BOOLEAN /\ rewound \in BOOLEAN

ZeroTyped ==
    /\ pc \in {"start", "loop", "write", "done"}
    /\ wb \in 0 .. Zero!DiskSectors
    /\ pc = "start" => wb = 0
    /\ i \in 1 .. WRITE_RETRIES
    /\ read_size \in 0 .. Zero!BlockSectors
    /\ pc = "write" => wb + read_size <= Zero!DiskSectors
    /\ throttle_fast_zeroing \in 0 .. Throttle
    /\ disk \in [0 .. Zero!DiskSectors - 1 -> Zero!Contents]
    /\ pos \in 0 .. Zero!DiskSectors
    /\ ErrorStatus \in Errors

Blanks == {"zeros"} \union IF fast_zeroing THEN {"erased"} ELSE {}

Blank == rewound => \A p \in 0 .. Zero!DiskSectors - 1 : p < wb => disk[p] \in Blanks

ZeroReturned == ret => pc = "done" /\ wb >= Zero!DiskSectors

ZeroInv ==
    /\ ZeroFlags
    /\ ZeroTyped
    /\ Zero!PointerFollowsProgress
    /\ Blank
    /\ ZeroReturned

\* The failed attempts to write a block.
FailedWrites == \E n \in 0 .. Zero!BlockSectors - 1 : Zero!WriteFails(n)

ZeroFacts == Zero!DiskSectors \in Nat /\ Zero!BlockSectors \in Nat /\ Throttle \in Nat

LEMMA ZeroLemma == ZeroFacts
<1>1. Zero!DiskSectors \in Nat
  BY WriteDriveAssumption DEF Zero!DiskSectors
<1>2. Zero!BlockSectors \in Nat
  BY WriteDriveAssumption DEF Zero!BlockSectors
<1> QED
  BY <1>1, <1>2, WriteDriveAssumption DEF ZeroFacts

LEMMA BlockSizeLemma ==
    ASSUME ZeroTyped
    PROVE  /\ Zero!BlockSize \in Nat
           /\ Zero!BlockSize <= read_size
           /\ wb + Zero!BlockSize <= Zero!DiskSectors
           /\ Zero!BlockSize \in 0 .. Zero!BlockSectors
<1>1. ZeroFacts
  BY ZeroLemma
<1> DEFINE left == Zero!DiskSectors - wb
<1>2. left \in Nat /\ wb \in Nat /\ read_size \in Nat /\ read_size <= Zero!BlockSectors
  BY <1>1 DEF ZeroTyped, ZeroFacts
<1>3. wb + left = Zero!DiskSectors
  BY <1>1, <1>2 DEF ZeroFacts
<1> HIDE DEF left
<1>4. Zero!Min({read_size, left}) = IF read_size <= left THEN read_size ELSE left
  BY <1>2, MinTwo
<1>5. Zero!BlockSize = IF read_size <= left THEN read_size ELSE left
  BY <1>4 DEF Zero!BlockSize, left
<1> QED
  BY <1>1, <1>2, <1>3, <1>5 DEF ZeroFacts

LEMMA WrittenIsTyped ==
    ASSUME ZeroTyped, NEW n
    PROVE  Zero!Written(n) \in [0 .. Zero!DiskSectors - 1 -> Zero!Contents]
  BY DEF ZeroTyped, Zero!Written, Zero!Fill, Zero!Contents

LEMMA ZeroInit == Zero!Init => ZeroInv
<1> SUFFICES ASSUME Zero!Init PROVE ZeroInv
  OBVIOUS
<1>0. ZeroFacts
  BY ZeroLemma
<1> USE DEF Zero!Init
<1>1. ZeroFlags
  BY DEF ZeroFlags
<1>2. pos \in 0 .. Zero!DiskSectors
  <2>1. Zero!Min({1, Zero!DiskSectors}) <= Zero!DiskSectors /\ Zero!Min({1, Zero!DiskSectors}) \in Nat
    BY <1>0 DEF Zero!Min, ZeroFacts
  <2> QED
    BY <1>0, <2>1 DEF ZeroFacts
<1>3. ZeroTyped
  BY <1>0, <1>2 DEF ZeroTyped, ZeroFacts, Errors, WRITE_RETRIES
<1>4. Zero!PointerFollowsProgress /\ Blank /\ ZeroReturned
  BY <1>0 DEF Zero!PointerFollowsProgress, Blank, ZeroReturned
<1> QED
  BY <1>1, <1>3, <1>4 DEF ZeroInv

\* Every step keeps the types of the flags.
LEMMA ZeroFlagsStep == ZeroInv /\ Zero!Next => ZeroFlags'
<1> SUFFICES ASSUME ZeroInv, Zero!Next PROVE ZeroFlags'
  OBVIOUS
<1> USE DEF ZeroInv, ZeroFlags, Zero!optVars
<1>1. CASE Zero!Start
  BY <1>1, Zenon DEF Zero!Start, Zero!GotoOut
<1>2. CASE Zero!Finish
  BY <1>2, Zenon DEF Zero!Finish, Zero!GotoOut
<1>3. CASE Zero!WriteUnread
  BY <1>3, Zenon DEF Zero!WriteUnread
<1>4. CASE Zero!CancelRead
  BY <1>4, Zenon DEF Zero!CancelRead, Zero!MustRead, Zero!GotoOut
<1>5. CASE Zero!SkipBlank
  BY <1>5, Zenon DEF Zero!SkipBlank, Zero!MustRead, Zero!Readable
<1>6. CASE Zero!WriteRead
  BY <1>6, Zenon DEF Zero!WriteRead, Zero!MustRead, Zero!Readable
<1>7. CASE Zero!ReadFailed
  BY <1>7, Zenon DEF Zero!ReadFailed, Zero!MustRead, Zero!GotoOut
<1>8. CASE Zero!CancelWrite
  BY <1>8, Zenon DEF Zero!CancelWrite, Zero!GotoOut
<1>9. CASE Zero!WriteOk
  BY <1>9, Zenon DEF Zero!WriteOk
<1>10. CASE FailedWrites
  BY <1>10, Zenon DEF FailedWrites, Zero!WriteFails, Zero!GotoOut
<1>11. CASE Zero!UserCancel
  BY <1>11, Zenon DEF Zero!UserCancel
<1>12. CASE Zero!Terminated
  BY <1>12, Zenon DEF Zero!Terminated, Zero!vars
<1> QED
  BY <1>1, <1>2, <1>3, <1>4, <1>5, <1>6, <1>7, <1>8, <1>9, <1>10, <1>11, <1>12
     DEF Zero!Next, Zero!WriteDrive, FailedWrites

\* Every step keeps the types of the state, and no block goes past the drive.
LEMMA ZeroTypedStep == ZeroInv /\ Zero!Next => ZeroTyped'
<1> SUFFICES ASSUME ZeroInv, Zero!Next PROVE ZeroTyped'
  OBVIOUS
<1>0. ZeroFacts
  BY ZeroLemma
<1> USE <1>0 DEF ZeroInv, ZeroTyped, Zero!optVars, Errors, SetupErrors,
     WRITE_RETRIES, Zero!WRITE_RETRIES
<1>1. CASE Zero!Start
  BY <1>1, <1>0 DEF Zero!Start, Zero!GotoOut, ZeroFacts
<1>2. CASE Zero!Finish
  BY <1>2 DEF Zero!Finish, Zero!GotoOut
<1>3. CASE Zero!WriteUnread
  <2> DEFINE less == throttle_fast_zeroing - 1
  <2>0. less \in Int /\ less <= Throttle
    BY <1>0 DEF ZeroFacts
  <2> HIDE DEF less
  <2>1. Zero!Max({less, 0}) = IF less >= 0 THEN less ELSE 0
    BY <2>0, MaxZero
  <2>2. Zero!Max({throttle_fast_zeroing - 1, 0}) \in 0 .. Throttle
    BY <1>0, <2>0, <2>1 DEF ZeroFacts, less
  <2> QED
    BY <1>3, <1>0, <2>2, BlockSizeLemma DEF Zero!WriteUnread, ZeroFacts
<1>4. CASE Zero!CancelRead
  BY <1>4, BlockSizeLemma DEF Zero!CancelRead, Zero!MustRead, Zero!GotoOut
<1>5. CASE Zero!SkipBlank
  BY <1>5, <1>0, BlockSizeLemma DEF Zero!SkipBlank, Zero!MustRead, Zero!Readable, ZeroFacts
<1>6. CASE Zero!WriteRead
  BY <1>6, <1>0, BlockSizeLemma DEF Zero!WriteRead, Zero!MustRead, ZeroFacts
<1>7. CASE Zero!ReadFailed
  <2> DEFINE next == pos + Zero!BlockSize
  <2>1. next \in Nat
    BY <1>0, BlockSizeLemma DEF ZeroFacts
  <2> HIDE DEF next
  <2>2. Zero!Min({next, Zero!DiskSectors}) \in 0 .. Zero!DiskSectors
    BY <1>0, <2>1, MinBound DEF ZeroFacts
  <2>3. Zero!Min({pos + Zero!BlockSize, Zero!DiskSectors}) \in 0 .. Zero!DiskSectors
    BY <2>2 DEF next
  <2> QED
    BY <1>7, <2>3, BlockSizeLemma DEF Zero!ReadFailed, Zero!MustRead, Zero!GotoOut
<1>8. CASE Zero!CancelWrite
  BY <1>8 DEF Zero!CancelWrite, Zero!GotoOut
<1>9. CASE Zero!WriteOk
  <2>1. disk' \in [0 .. Zero!DiskSectors - 1 -> Zero!Contents]
    BY <1>9, WrittenIsTyped DEF Zero!WriteOk
  <2> QED
    BY <1>9, <1>0, <2>1 DEF Zero!WriteOk, ZeroFacts
<1>10. CASE FailedWrites
  <2>1. PICK n \in 0 .. Zero!BlockSectors - 1 : Zero!WriteFails(n)
    BY <1>10 DEF FailedWrites
  <2>2. n \in Nat
    BY <1>0 DEF ZeroFacts
  <2>3. i' \in 1 .. WRITE_RETRIES
    <3>1. i' = i \/ (i < Zero!WRITE_RETRIES /\ i' = i + 1)
      BY <2>1, Zenon DEF Zero!WriteFails
    <3>2. i \in 1 .. WRITE_RETRIES
      OBVIOUS
    <3> QED
      BY <3>1, <3>2
  <2>5. pos + n \in 0 .. Zero!DiskSectors
    BY <1>0, <2>1, <2>2 DEF Zero!WriteFails, ZeroFacts
  <2>6. pos' \in 0 .. Zero!DiskSectors
    BY <2>1, <2>5 DEF Zero!WriteFails
  <2>4. disk' \in [0 .. Zero!DiskSectors - 1 -> Zero!Contents]
    BY <2>1, WrittenIsTyped DEF Zero!WriteFails
  <2> QED
    BY <2>1, <2>3, <2>4, <2>6 DEF Zero!WriteFails, Zero!GotoOut
<1>11. CASE Zero!UserCancel
  BY <1>11 DEF Zero!UserCancel
<1>12. CASE Zero!Terminated
  BY <1>12 DEF Zero!Terminated, Zero!vars
<1> QED
  BY <1>1, <1>2, <1>3, <1>4, <1>5, <1>6, <1>7, <1>8, <1>9, <1>10, <1>11, <1>12
     DEF Zero!Next, Zero!WriteDrive, FailedWrites

\* The file pointer stays with the number of sectors that were processed.
LEMMA PointerStep == ZeroInv /\ Zero!Next => Zero!PointerFollowsProgress'
<1> SUFFICES ASSUME ZeroInv, Zero!Next PROVE Zero!PointerFollowsProgress'
  OBVIOUS
<1> USE DEF ZeroInv, Zero!PointerFollowsProgress, Zero!optVars
<1>1. CASE Zero!Start
  <2>1. rewound' = (pos' = 0) /\ wb' = 0
    BY <1>1 DEF Zero!Start, ZeroTyped
  <2> QED
    BY <2>1, Zenon
<1>2. CASE Zero!Finish
  BY <1>2 DEF Zero!Finish, Zero!GotoOut
<1>3. CASE Zero!WriteUnread
  BY <1>3 DEF Zero!WriteUnread
<1>4. CASE Zero!SkipBlank
  BY <1>4 DEF Zero!SkipBlank, Zero!MustRead, Zero!Readable
<1>5. CASE Zero!WriteRead
  BY <1>5 DEF Zero!WriteRead, Zero!MustRead, Zero!Readable
<1>6. CASE Zero!WriteOk
  BY <1>6 DEF Zero!WriteOk
<1>7. CASE FailedWrites
  BY <1>7 DEF FailedWrites, Zero!WriteFails, Zero!GotoOut
<1>8. CASE Zero!CancelRead \/ Zero!ReadFailed \/ Zero!CancelWrite \/
          Zero!UserCancel \/ Zero!Terminated
  BY <1>8 DEF Zero!CancelRead, Zero!MustRead, Zero!GotoOut, Zero!ReadFailed,
     Zero!CancelWrite, Zero!UserCancel, Zero!Terminated, Zero!vars
<1> QED
  BY <1>1, <1>2, <1>3, <1>4, <1>5, <1>6, <1>7, <1>8 DEF Zero!Next,
     Zero!WriteDrive, FailedWrites

\* No data is left before wb.
LEMMA BlankStep == ZeroInv /\ Zero!Next => Blank'
<1> SUFFICES ASSUME ZeroInv, Zero!Next PROVE Blank'
  OBVIOUS
<1>0. ZeroFacts
  BY ZeroLemma
<1> USE <1>0 DEF ZeroInv, ZeroTyped, Blank, Blanks, Zero!optVars
<1>1. CASE Zero!Start
  <2>1. wb' = 0 /\ disk' = disk
    BY <1>1 DEF Zero!Start
  <2> QED
    BY <1>0, <2>1 DEF ZeroFacts
<1>2. CASE Zero!SkipBlank
  <2>1. fast_zeroing /\ fast_zeroing' = fast_zeroing /\ rewound' = rewound /\ disk' = disk
    BY <1>2, Zenon DEF Zero!SkipBlank, Zero!MustRead
  <2>2. wb' = wb + Zero!BlockSize /\ (rewound => pos = wb)
    BY <1>2 DEF Zero!SkipBlank, Zero!MustRead, Zero!PointerFollowsProgress
  <2>3. \A p \in pos .. pos + Zero!BlockSize - 1 : disk[p] \in {"zeros", "erased"}
    BY <1>2 DEF Zero!SkipBlank, Zero!IsBlank, Zero!Block
  <2>4. Zero!BlockSize \in Nat
    BY <1>2, BlockSizeLemma DEF Zero!SkipBlank, Zero!MustRead
  <2>5. ASSUME rewound, NEW p \in 0 .. Zero!DiskSectors - 1, p < wb'
        PROVE  disk[p] \in Blanks
    BY <1>0, <2>1, <2>2, <2>3, <2>4, <2>5 DEF ZeroFacts
  <2> QED
    BY <2>1, <2>5
<1>3. CASE Zero!WriteOk
  <2>1. /\ fast_zeroing' = fast_zeroing /\ rewound' = rewound
        /\ wb' = wb + read_size /\ disk' = Zero!Written(read_size)
        /\ pc = "write"
    BY <1>3 DEF Zero!WriteOk
  <2>2. rewound => pos = wb
    BY <2>1 DEF Zero!PointerFollowsProgress
  <2>3. read_size \in Nat
    BY <1>0 DEF ZeroFacts
  <2>4. ASSUME rewound, NEW p \in 0 .. Zero!DiskSectors - 1, p < wb'
        PROVE  disk'[p] \in Blanks
    BY <1>0, <2>1, <2>2, <2>3, <2>4 DEF Zero!Written, Zero!Block, Zero!Fill, ZeroFacts
  <2> QED
    BY <2>1, <2>4
<1>4. CASE FailedWrites
  <2>1. PICK n \in 0 .. Zero!BlockSectors - 1 : Zero!WriteFails(n)
    BY <1>4 DEF FailedWrites
  <2>2. /\ fast_zeroing' = fast_zeroing /\ rewound' = rewound
        /\ wb' = wb /\ disk' = Zero!Written(n)
    BY <2>1 DEF Zero!WriteFails
  <2>3. ASSUME rewound, NEW p \in 0 .. Zero!DiskSectors - 1, p < wb
        PROVE  disk'[p] \in Blanks
    BY <1>0, <2>2, <2>3 DEF Zero!Written, Zero!Fill
  <2> QED
    BY <2>2, <2>3
<1>5. CASE Zero!Finish \/ Zero!WriteUnread \/ Zero!CancelRead \/
          Zero!WriteRead \/ Zero!ReadFailed \/ Zero!CancelWrite \/
          Zero!UserCancel \/ Zero!Terminated
  <2>1. /\ disk' = disk /\ wb' = wb /\ rewound' = rewound
        /\ fast_zeroing' = fast_zeroing
    BY <1>5 DEF Zero!Finish, Zero!GotoOut, Zero!WriteUnread, Zero!CancelRead,
       Zero!MustRead, Zero!WriteRead, Zero!Readable, Zero!ReadFailed,
       Zero!CancelWrite, Zero!UserCancel, Zero!Terminated, Zero!vars
  <2> QED
    BY <2>1
<1> QED
  BY <1>1, <1>2, <1>3, <1>4, <1>5 DEF Zero!Next, Zero!WriteDrive, FailedWrites

\* Success is only returned at the end of the drive.
LEMMA ZeroReturnedStep == ZeroInv /\ Zero!Next => ZeroReturned'
<1> SUFFICES ASSUME ZeroInv, Zero!Next PROVE ZeroReturned'
  OBVIOUS
<1> USE DEF ZeroInv, ZeroReturned, Zero!optVars
<1>1. CASE Zero!Start
  BY <1>1 DEF Zero!Start, Zero!GotoOut
<1>2. CASE Zero!Finish
  BY <1>2 DEF Zero!Finish, Zero!GotoOut
<1>3. CASE Zero!WriteUnread
  BY <1>3 DEF Zero!WriteUnread
<1>4. CASE Zero!SkipBlank \/ Zero!WriteRead
  BY <1>4 DEF Zero!SkipBlank, Zero!MustRead, Zero!Readable, Zero!WriteRead
<1>5. CASE Zero!WriteOk
  BY <1>5 DEF Zero!WriteOk
<1>6. CASE FailedWrites
  BY <1>6 DEF FailedWrites, Zero!WriteFails, Zero!GotoOut
<1>7. CASE Zero!CancelRead \/ Zero!ReadFailed \/ Zero!CancelWrite \/
          Zero!UserCancel \/ Zero!Terminated
  BY <1>7 DEF Zero!CancelRead, Zero!MustRead, Zero!GotoOut, Zero!ReadFailed,
     Zero!CancelWrite, Zero!UserCancel, Zero!Terminated, Zero!vars
<1> QED
  BY <1>1, <1>2, <1>3, <1>4, <1>5, <1>6, <1>7 DEF Zero!Next, Zero!WriteDrive,
     FailedWrites

\* A step of WriteDrive() keeps the invariant of zeroing.
LEMMA ZeroStep == ZeroInv /\ Zero!Next => ZeroInv'
  BY ZeroFlagsStep, ZeroTypedStep, PointerStep, BlankStep, ZeroReturnedStep DEF ZeroInv

-----------------------------------------------------------------------------
(* A compressed image *)

\* Intervals of the bytes of the image.
LEMMA BytesLemma ==
    ASSUME NEW a \in Nat, NEW b \in Nat, a <= b
    PROVE  /\ Compressed!Bytes(a, b) \in Seq(Nat)
           /\ Len(Compressed!Bytes(a, b)) = b - a
           /\ \A k \in 1 .. b - a : Compressed!Bytes(a, b)[k] = a + k
<1>1. b - a \in Nat /\ \A k \in 1 .. b - a : a + k \in Nat
  OBVIOUS
<1>2. [k \in 1 .. b - a |-> a + k] \in Seq(Nat)
  BY <1>1
<1> QED
  BY <1>1, <1>2 DEF Compressed!Bytes

LEMMA BytesTyped ==
    ASSUME NEW a \in Nat, NEW b \in Nat, a <= b, NEW c \in Nat, b <= c
    PROVE  Compressed!Bytes(a, b) \in Seq(1 .. c)
<1>1. b - a \in Nat /\ \A k \in 1 .. b - a : a + k \in 1 .. c
  OBVIOUS
<1> QED
  BY <1>1 DEF Compressed!Bytes

LEMMA BytesEqual ==
    ASSUME NEW a \in Nat, NEW b \in Nat, a <= b, NEW s \in Seq(Nat), Len(s) = b - a,
           \A k \in 1 .. b - a : s[k] = a + k
    PROVE  s = Compressed!Bytes(a, b)
<1> DEFINE t == Compressed!Bytes(a, b)
<1>1. t \in Seq(Nat) /\ Len(t) = b - a /\ \A k \in 1 .. b - a : t[k] = a + k
  BY BytesLemma
<1> HIDE DEF t
<1>2. Len(s) = Len(t) /\ \A k \in 1 .. Len(s) : s[k] = t[k]
  BY <1>1
<1>3. s = t
  BY <1>1, <1>2, SeqEqual
<1> QED
  BY <1>3 DEF t

LEMMA BytesConcat ==
    ASSUME NEW a \in Nat, NEW b \in Nat, NEW c \in Nat, a <= b, b <= c
    PROVE  Compressed!Bytes(a, b) \o Compressed!Bytes(b, c) = Compressed!Bytes(a, c)
<1> DEFINE s == Compressed!Bytes(a, b)
           t == Compressed!Bytes(b, c)
<1>1. s \in Seq(Nat) /\ Len(s) = b - a /\ \A k \in 1 .. b - a : s[k] = a + k
  BY BytesLemma
<1>2. t \in Seq(Nat) /\ Len(t) = c - b /\ \A k \in 1 .. c - b : t[k] = b + k
  BY BytesLemma
<1> HIDE DEF s, t
<1>3. /\ s \o t \in Seq(Nat)
      /\ Len(s \o t) = Len(s) + Len(t)
      /\ \A k \in 1 .. Len(s) + Len(t) :
             (s \o t)[k] = IF k <= Len(s) THEN s[k] ELSE t[k - Len(s)]
  BY <1>1, <1>2, ConcatProperties
<1>4. Len(s \o t) = c - a
  BY <1>1, <1>2, <1>3
<1>5. ASSUME NEW k \in 1 .. c - a PROVE (s \o t)[k] = a + k
  <2>1. k \in 1 .. Len(s) + Len(t)
    BY <1>1, <1>2
  <2>2. (s \o t)[k] = IF k <= Len(s) THEN s[k] ELSE t[k - Len(s)]
    BY <1>3, <2>1
  <2>3. CASE k <= b - a
    BY <1>1, <2>2, <2>3
  <2>4. CASE ~(k <= b - a)
    <3>1. k - (b - a) \in 1 .. c - b
      BY <2>4
    <3>2. t[k - (b - a)] = b + (k - (b - a))
      BY <1>2, <3>1
    <3> QED
      BY <1>1, <2>2, <2>4, <3>2
  <2> QED
    BY <2>3, <2>4
<1>6. a <= c
  OBVIOUS
<1>7. s \o t = Compressed!Bytes(a, c)
  BY <1>3, <1>4, <1>5, <1>6, BytesEqual
<1> QED
  BY <1>7 DEF s, t

LEMMA BytesSubSeq ==
    ASSUME NEW a \in Nat, NEW b \in Nat, NEW y \in Nat, NEW z \in Nat,
           a <= y, y <= z, z <= b
    PROVE  SubSeq(Compressed!Bytes(a, b), (y - a) + 1, z - a) = Compressed!Bytes(y, z)
<1> DEFINE s == Compressed!Bytes(a, b)
           from == (y - a) + 1
           to == z - a
           u == SubSeq(s, from, to)
<1>1. s \in Seq(Nat) /\ Len(s) = b - a /\ \A k \in 1 .. b - a : s[k] = a + k
  BY BytesLemma
<1> HIDE DEF s
<1>2. from \in Int /\ to \in Int /\ from \in 1 .. to + 1 /\ to <= b - a /\ to - from + 1 = z - y
  OBVIOUS
<1>3. \A k \in 1 .. z - y : from + k - 1 \in from .. to /\ a + (from + k - 1) = y + k
  OBVIOUS
<1> HIDE DEF from, to
<1>4. \A k \in from .. to : s[k] \in Nat /\ s[k] = a + k
  BY <1>1, <1>2
<1>5. /\ SubSeq(s, from, to) \in Seq(Nat)
      /\ Len(SubSeq(s, from, to)) = IF from <= to THEN to - from + 1 ELSE 0
      /\ \A k \in 1 .. to - from + 1 : SubSeq(s, from, to)[k] = s[from + k - 1]
  <2>1. \A k \in from .. to : s[k] \in Nat
    BY <1>4
  <2> QED
    BY <1>2, <2>1, SubSeqProperties
<1>6. u \in Seq(Nat) /\ Len(u) = z - y
  BY <1>2, <1>5
<1>7. ASSUME NEW k \in 1 .. z - y PROVE u[k] = y + k
  BY <1>2, <1>3, <1>4, <1>5
<1> HIDE DEF u
<1>8. u = Compressed!Bytes(y, z)
  BY <1>6, <1>7, BytesEqual
<1> QED
  BY <1>8 DEF u, s, from, to

LEMMA BytesPrefix ==
    ASSUME NEW a \in Nat, NEW b \in Nat, NEW z \in Nat, a <= z, z <= b
    PROVE  SubSeq(Compressed!Bytes(a, b), 1, z - a) = Compressed!Bytes(a, z)
<1>1. a <= a /\ (a - a) + 1 = 1
  OBVIOUS
<1>2. SubSeq(Compressed!Bytes(a, b), (a - a) + 1, z - a) = Compressed!Bytes(a, z)
  BY <1>1, BytesSubSeq, Zenon
<1> QED
  BY <1>1, <1>2, Zenon

SectorFlags == ret \in BOOLEAN

SectorTyped ==
    /\ pc \in {"start", "uncompress", "done"}
    /\ ErrorStatus \in Errors
    /\ given \in 0 .. MaxImage
    /\ sec_buf \in Seq(1 .. MaxImage)
    /\ Len(sec_buf) < SectorSize

\* Before the end, the drive has whole sectors and sec_buf the bytes after them.
Split(d) ==
    /\ disk = Compressed!Bytes(0, d)
    /\ sec_buf = Compressed!Bytes(d, given)
    /\ d % SectorSize = 0
    /\ given - d < SectorSize

Consecutive == pc # "done" => ~ret /\ \E d \in 0 .. given : Split(d)

\* At the end, the last sector is missing, or more after a failure...
Stopped ==
    \E d \in 0 .. given : /\ disk = Compressed!Bytes(0, d)
                          /\ ret /\ ErrorStatus # "cancelled" => given - d < SectorSize

\* ...or it was padded.
PaddingOf(n) == [k \in 1 .. n |-> Compressed!Padding]

Padded ==
    \E n \in 0 .. SectorSize - 1 : disk = Compressed!Bytes(0, given) \o PaddingOf(n)

Left == pc = "done" => Stopped \/ Padded

SectorInv ==
    /\ SectorFlags
    /\ SectorTyped
    /\ Consecutive
    /\ Left

LEMMA SectorInit == Compressed!Init => SectorInv
<1> SUFFICES ASSUME Compressed!Init PROVE SectorInv
  OBVIOUS
<1> USE DEF Compressed!Init
<1>1. Compressed!Bytes(0, 0) = <<>>
  BY DEF Compressed!Bytes
<1>2. 0 % SectorSize = 0 /\ 0 < SectorSize /\ MaxImage \in Nat
  BY WriteDriveAssumption
<1>3. Consecutive
  <2>1. Split(0)
    BY <1>1, <1>2 DEF Split
  <2> QED
    BY <2>1 DEF Consecutive
<1>4. SectorTyped
  BY <1>2 DEF SectorTyped, Errors
<1> QED
  BY <1>3, <1>4 DEF SectorInv, SectorFlags, Left

\* What a write of whole sectors leaves: more of the image, all of which is
\* accounted for, or the end with a prefix of it.
Progress(g) ==
    \/ /\ UNCHANGED <<pc, ret, ErrorStatus>>
       /\ \E d \in 0 .. g : /\ disk' = Compressed!Bytes(0, d)
                            /\ sec_buf' = Compressed!Bytes(d, g)
                            /\ d % SectorSize = 0
                            /\ g - d < SectorSize
    \/ /\ pc' = "done"
       /\ ret' \in BOOLEAN /\ (ret' => ErrorStatus' = "cancelled")
       /\ ErrorStatus' \in {ErrorStatus, "write_fault"}
       /\ sec_buf' = <<>>
       /\ \E d \in 0 .. g : disk' = Compressed!Bytes(0, d)

LEMMA FailLemma ==
    ASSUME Compressed!Fail
    PROVE  /\ pc' = "done"
           /\ ret' \in BOOLEAN /\ (ret' => ErrorStatus' = "cancelled")
           /\ ErrorStatus' \in {ErrorStatus, "write_fault"}
<1>1. CASE ErrorStatus = "cancelled"
  BY <1>1 DEF Compressed!Fail
<1>2. CASE ErrorStatus # "cancelled"
  BY <1>2 DEF Compressed!Fail
<1> QED
  BY <1>1, <1>2

\* A write, whole or short, extends the prefix that is on the drive.
LEMMA ExtendLemma ==
    ASSUME NEW d \in Nat, NEW g \in Nat, d <= g, NEW m \in Nat, m <= g - d,
           NEW e, e = d + m
    PROVE  Compressed!Bytes(0, d) \o SubSeq(Compressed!Bytes(d, g), 1, m)
               = Compressed!Bytes(0, e)
<1>1. e \in Nat /\ 0 \in Nat /\ 0 <= d /\ d <= e /\ e <= g /\ m = e - d
  OBVIOUS
<1>2. SubSeq(Compressed!Bytes(d, g), 1, e - d) = Compressed!Bytes(d, e)
  BY <1>1, BytesPrefix, Zenon
<1>3. Compressed!Bytes(0, d) \o Compressed!Bytes(d, e) = Compressed!Bytes(0, e)
  BY <1>1, BytesConcat, Zenon
<1> QED
  BY <1>1, <1>2, <1>3, Zenon

LEMMA FloorLemma ==
    ASSUME NEW n \in Nat
    PROVE  /\ (n \div SectorSize) * SectorSize \in 0 .. n
           /\ n - (n \div SectorSize) * SectorSize < SectorSize
           /\ ((n \div SectorSize) * SectorSize) % SectorSize = 0
<1> DEFINE q == n \div SectorSize
<1>1. /\ q \in Int
      /\ n % SectorSize \in 0 .. SectorSize - 1
      /\ n % SectorSize = n - SectorSize * q
  BY DivMod
<1>2. q \in Nat
  BY WriteDriveAssumption
<1> HIDE DEF q
<1>3. q * SectorSize = SectorSize * q + 0 /\ 0 \in 0 .. SectorSize - 1
  BY <1>2, WriteDriveAssumption
<1>4. (q * SectorSize) % SectorSize = 0
  BY <1>1, <1>3, ModOf
<1>5. q * SectorSize \in Nat
  BY <1>2, WriteDriveAssumption
<1>6. q * SectorSize \in 0 .. n /\ n - q * SectorSize < SectorSize
  BY <1>1, <1>3, <1>5, WriteDriveAssumption
<1> QED
  BY <1>4, <1>6 DEF q

LEMMA WriteSectorsLemma ==
    ASSUME NEW d \in Nat, NEW g \in Nat, d <= g, d % SectorSize = 0,
           Compressed!WriteSectors(Compressed!Bytes(0, d), Compressed!Bytes(d, g))
    PROVE  Progress(g)
<1> DEFINE data == Compressed!Bytes(d, g)
           full == (Len(data) \div SectorSize) * SectorSize
           before == Compressed!Bytes(0, d)
<1>1. data \in Seq(Nat) /\ Len(data) = g - d /\ g - d \in Nat
  BY BytesLemma
<1>2. full \in 0 .. g - d /\ (g - d) - full < SectorSize /\ full % SectorSize = 0
  BY <1>1, FloorLemma
<1>3. PICK m \in Compressed!Outcomes(before, SubSeq(data, 1, full)) :
          /\ disk' = before \o SubSeq(data, 1, m)
          /\ IF m = full
             THEN sec_buf' = SubSeq(data, full + 1, Len(data)) /\ Compressed!Continue
             ELSE sec_buf' = <<>> /\ Compressed!Fail
  BY Zenon DEF Compressed!WriteSectors, Compressed!sec_size
<1> HIDE DEF full
<1>4. full \in Nat /\ full <= g - d
  BY <1>2
<1> DEFINE e == d + full
<1>45. e \in Nat /\ d <= e /\ e <= g /\ g <= g /\ full = e - d
  BY <1>4
<1> HIDE DEF e
<1>5. SubSeq(data, 1, full) = Compressed!Bytes(d, e)
  <2>1. SubSeq(Compressed!Bytes(d, g), 1, e - d) = Compressed!Bytes(d, e)
    BY <1>45, BytesPrefix, Zenon
  <2> QED
    BY <1>45, <2>1, Zenon
<1>6. Len(SubSeq(data, 1, full)) = full
  BY <1>45, <1>5, BytesLemma
<1>7. m \in Nat /\ m <= full /\ m <= g - d
  BY <1>3, <1>4, <1>6 DEF Compressed!Outcomes
<1>8. disk' = Compressed!Bytes(0, d + m)
  BY <1>3, <1>7, ExtendLemma
<1>9. d + m \in 0 .. g
  BY <1>7
<1>10. CASE m = full
  <2>1. sec_buf' = SubSeq(data, full + 1, g - d) /\ UNCHANGED <<pc, ret, ErrorStatus>>
    BY <1>1, <1>3, <1>10 DEF Compressed!Continue
  <2>2. SubSeq(Compressed!Bytes(d, g), (e - d) + 1, g - d) = Compressed!Bytes(e, g)
    BY <1>45, BytesSubSeq, Zenon
  <2>3. SubSeq(data, full + 1, g - d) = Compressed!Bytes(e, g)
    BY <1>45, <2>2, Zenon
  <2>6. sec_buf' = Compressed!Bytes(d + m, g)
    BY <2>1, <2>3, <1>10 DEF e
  <2>4. (d + m) % SectorSize = 0
    BY <1>2, <1>4, <1>10, Aligned
  <2>5. g - (d + m) < SectorSize
    BY <1>2, <1>4, <1>10, WriteDriveAssumption
  <2> QED
    BY <1>8, <1>9, <2>1, <2>4, <2>5, <2>6 DEF Progress
<1>11. CASE m # full
  <2>1. sec_buf' = <<>> /\ Compressed!Fail
    BY <1>3, <1>11
  <2> QED
    BY <1>8, <1>9, <2>1, FailLemma DEF Progress
<1> QED
  BY <1>10, <1>11

\* Whatever the size of a block, sector_write() accounts for all of its bytes.
LEMMA SectorWriteLemma ==
    ASSUME SectorInv, NEW count \in 0 .. MaxCount, Compressed!sector_write(count)
    PROVE  given' = given + count /\ given' \in 0 .. MaxImage /\ Progress(given')
<1> USE DEF Compressed!sec_size
<1>0. given \in Nat /\ count \in Nat /\ MaxImage \in Nat /\ MaxCount \in Nat
  BY WriteDriveAssumption DEF SectorInv, SectorTyped
<1>1. pc = "uncompress" /\ given + count <= MaxImage /\ given' = given + count
  BY Zenon DEF Compressed!sector_write
<1> DEFINE g == given + count
<1>2. g \in Nat /\ given <= g /\ g \in 0 .. MaxImage /\ given' = g
  BY <1>0, <1>1
<1>3. PICK d \in 0 .. given : Split(d)
  BY <1>1, Zenon DEF SectorInv, Consecutive
<1>4. d \in Nat /\ d <= given /\ d <= g /\ d % SectorSize = 0 /\ given - d < SectorSize
  BY <1>0, <1>3 DEF Split
<1>5. disk = Compressed!Bytes(0, d) /\ sec_buf = Compressed!Bytes(d, given)
  BY <1>3 DEF Split
<1>6. Len(sec_buf) = given - d
  BY <1>0, <1>4, <1>5, BytesLemma
<1>7. sec_buf = <<>> => d = given
  BY <1>0, <1>4, <1>6
<1>8. SectorSize \in Nat \ {0}
  BY WriteDriveAssumption
<1>9. CASE Compressed!RegularWrite(count)
  <2>1. d = given
    BY <1>7, <1>9 DEF Compressed!RegularWrite
  <2>2. PICK m \in Compressed!Outcomes(disk, Compressed!Bytes(given, g)) :
            /\ disk' = disk \o SubSeq(Compressed!Bytes(given, g), 1, m)
            /\ IF m = count THEN Compressed!Continue ELSE Compressed!Fail
    BY <1>9, Zenon DEF Compressed!RegularWrite
  <2>3. sec_buf' = <<>> /\ count % SectorSize = 0
    BY <1>9 DEF Compressed!RegularWrite
  <2>4. Len(Compressed!Bytes(given, g)) = g - given
    BY <1>0, <1>2, BytesLemma
  <2>5. m \in Nat /\ m <= g - given /\ g - given = count
    BY <1>0, <2>2, <2>4 DEF Compressed!Outcomes
  <2> DEFINE e == given + m
  <2>6. e \in Nat /\ e <= g /\ e \in 0 .. g /\ (m = count => e = g)
    BY <1>0, <2>5
  <2>7. disk' = Compressed!Bytes(0, e)
    <3>1. e = given + m
      OBVIOUS
    <3> HIDE DEF e, g
    <3>2. Compressed!Bytes(0, given) \o SubSeq(Compressed!Bytes(given, g), 1, m)
              = Compressed!Bytes(0, e)
      BY <1>0, <1>2, <2>5, <3>1, ExtendLemma, Zenon
    <3> QED
      BY <1>5, <2>1, <2>2, <3>2, Zenon
  <2>8. CASE m = count
    <3>1. UNCHANGED <<pc, ret, ErrorStatus>>
      BY <2>2, <2>8 DEF Compressed!Continue
    <3>2. g % SectorSize = 0
      BY <1>0, <1>4, <2>1, <2>3, Aligned
    <3>3. Compressed!Bytes(g, g) = <<>>
      BY <1>2 DEF Compressed!Bytes
    <3>4. g - g < SectorSize /\ g \in 0 .. g
      BY <1>1, <1>2, <1>8 DEF Progress
    <3>5. disk' = Compressed!Bytes(0, g) /\ sec_buf' = Compressed!Bytes(g, g)
      BY <2>3, <2>6, <2>7, <2>8, <3>3
    <3> HIDE DEF g
    <3>6. Progress(g)
      BY <3>1, <3>2, <3>4, <3>5 DEF Progress
    <3> QED
      BY <1>1, <1>2, <3>6 DEF Progress
  <2>9. CASE m # count
    <3>1. Compressed!Fail
      BY <2>2, <2>9
    <3> HIDE DEF g, e
    <3>2. Progress(g)
      BY <2>3, <2>6, <2>7, <3>1, FailLemma DEF Progress
    <3> QED
      BY <1>1, <1>2, <3>2 DEF Progress
  <2> QED
    BY <2>8, <2>9
<1>10. CASE Compressed!UnalignedWrite(count)
  <2>1. d = given
    BY <1>7, <1>10 DEF Compressed!UnalignedWrite
  <2>2. Compressed!WriteSectors(Compressed!Bytes(0, d), Compressed!Bytes(d, g))
    BY <1>5, <1>10, <2>1 DEF Compressed!UnalignedWrite
  <2> HIDE DEF g
  <2>3. Progress(g)
    BY <1>2, <1>4, <2>2, WriteSectorsLemma
  <2> QED
    BY <1>1, <1>2, <2>3 DEF Progress
<1>11. CASE Compressed!FillAndWrite(count)
  <2> DEFINE f == Compressed!FillSize(count)
             e == given + f
             filled == sec_buf \o Compressed!Bytes(given, given + f)
  <2>1. /\ f \in Nat /\ f <= count
        /\ f = IF SectorSize - (given - d) <= count THEN SectorSize - (given - d) ELSE count
    <3> DEFINE room == SectorSize - (given - d)
    <3>1. room \in Nat
      BY <1>0, <1>4, <1>8
    <3> HIDE DEF room
    <3>2. Compressed!Min({room, count}) = IF room <= count THEN room ELSE count
      BY <1>0, <3>1, MinTwo
    <3>3. f = Compressed!Min({room, count})
      BY <1>6 DEF Compressed!FillSize, room
    <3> QED
      BY <1>0, <3>1, <3>2, <3>3 DEF room
  <2> HIDE DEF f
  <2>2. e \in Nat /\ given <= e /\ e <= g /\ d <= e
    BY <1>0, <1>4, <2>1
  <2>3. filled = Compressed!Bytes(d, e)
    <3> HIDE DEF e
    <3>1. Compressed!Bytes(d, given) \o Compressed!Bytes(given, e) = Compressed!Bytes(d, e)
      BY <1>0, <1>4, <2>2, BytesConcat, Zenon
    <3> QED
      BY <1>5, <3>1 DEF e
  <2>4. Len(filled) = e - d
    BY <1>4, <2>2, <2>3, BytesLemma
  <2>5. \/ /\ Len(filled) < SectorSize
           /\ sec_buf' = filled
           /\ Compressed!Continue /\ UNCHANGED disk
        \/ /\ Len(filled) = SectorSize
           /\ sec_buf' = <<>>
           /\ Compressed!Fail
           /\ UNCHANGED disk
        \/ /\ Len(filled) = SectorSize
           /\ Compressed!WriteSectors(disk \o filled, Compressed!Bytes(e, g))
    BY <1>11, Zenon DEF Compressed!FillAndWrite, f
  <2> HIDE DEF filled
  <2>6. CASE /\ Len(filled) < SectorSize
             /\ sec_buf' = filled
             /\ Compressed!Continue /\ UNCHANGED disk
    <3>1. e = g /\ g - d < SectorSize
      BY <1>0, <1>4, <1>8, <2>1, <2>2, <2>4, <2>6
    <3>2. sec_buf' = Compressed!Bytes(d, g) /\ disk' = Compressed!Bytes(0, d)
      BY <1>5, <2>3, <2>6, <3>1
    <3>3. d \in 0 .. g /\ UNCHANGED <<pc, ret, ErrorStatus>>
      BY <1>2, <1>4, <2>6 DEF Compressed!Continue
    <3> HIDE DEF g, e
    <3>4. Progress(g)
      BY <1>4, <3>1, <3>2, <3>3 DEF Progress
    <3> QED
      BY <1>1, <1>2, <3>4 DEF Progress
  <2>7. CASE sec_buf' = <<>> /\ Compressed!Fail /\ UNCHANGED disk
    <3>1. d \in 0 .. g /\ disk' = Compressed!Bytes(0, d)
      BY <1>2, <1>4, <1>5, <2>7
    <3> HIDE DEF g, e
    <3>2. Progress(g)
      BY <2>7, <3>1, FailLemma DEF Progress
    <3> QED
      BY <1>1, <1>2, <3>2 DEF Progress
  <2>8. CASE /\ Len(filled) = SectorSize
             /\ Compressed!WriteSectors(disk \o filled, Compressed!Bytes(e, g))
    <3>1. e - d = SectorSize
      BY <2>4, <2>8
    <3>2. 0 \in Nat /\ 0 <= d
      BY <1>4
    <3> HIDE DEF e, g
    <3>3. Compressed!Bytes(0, d) \o Compressed!Bytes(d, e) = Compressed!Bytes(0, e)
      BY <1>4, <2>2, <3>2, BytesConcat, Zenon
    <3>4. Compressed!WriteSectors(Compressed!Bytes(0, e), Compressed!Bytes(e, g))
      BY <1>5, <2>3, <2>8, <3>3, Zenon
    <3>5. e % SectorSize = 0
      <4>1. SectorSize % SectorSize = 0
        BY <1>8
      <4>2. (d + SectorSize) % SectorSize = 0
        BY <1>4, <1>8, <4>1, Aligned
      <4>3. e = d + SectorSize
        BY <1>4, <1>8, <2>2, <3>1
      <4> QED
        BY <4>2, <4>3
    <3>6. Progress(g)
      BY <1>2, <2>2, <3>4, <3>5, WriteSectorsLemma
    <3> QED
      BY <1>1, <1>2, <3>6 DEF Progress
  <2> QED
    BY <2>5, <2>6, <2>7, <2>8
<1> QED
  BY <1>1, <1>2, <1>9, <1>10, <1>11 DEF Compressed!sector_write

LEMMA ProgressIsSound ==
    ASSUME SectorInv, given' \in 0 .. MaxImage, Progress(given'), pc = "uncompress"
    PROVE  SectorInv'
<1>0. MaxImage \in Nat /\ SectorSize \in Nat \ {0} /\ given' \in Nat /\ given' <= MaxImage
  BY WriteDriveAssumption
<1>1. CASE /\ UNCHANGED <<pc, ret, ErrorStatus>>
           /\ \E d \in 0 .. given' : /\ disk' = Compressed!Bytes(0, d)
                                     /\ sec_buf' = Compressed!Bytes(d, given')
                                     /\ d % SectorSize = 0
                                     /\ given' - d < SectorSize
  <2>1. PICK d \in 0 .. given' : /\ disk' = Compressed!Bytes(0, d)
                                 /\ sec_buf' = Compressed!Bytes(d, given')
                                 /\ d % SectorSize = 0
                                 /\ given' - d < SectorSize
    BY <1>1
  <2>2. d \in Nat /\ d <= given'
    BY <1>0
  <2>3. sec_buf' \in Seq(1 .. MaxImage)
    BY <1>0, <2>1, <2>2, BytesTyped
  <2>4. Len(sec_buf') < SectorSize
    BY <1>0, <2>1, <2>2, BytesLemma
  <2>5. SectorFlags'
    BY <1>1, Zenon DEF SectorInv, SectorFlags
  <2>6. SectorTyped'
    BY <1>1, <2>3, <2>4 DEF SectorInv, SectorTyped
  <2>7. pc' # "done" /\ ~ret'
    BY <1>1, Zenon DEF SectorInv, Consecutive
  <2>8. Split(d)'
    BY <2>1 DEF Split
  <2>9. Consecutive' /\ Left'
    BY <2>7, <2>8, Zenon DEF Consecutive, Left
  <2> QED
    BY <2>5, <2>6, <2>9 DEF SectorInv
<1>2. CASE /\ pc' = "done"
           /\ ret' \in BOOLEAN /\ (ret' => ErrorStatus' = "cancelled")
           /\ ErrorStatus' \in {ErrorStatus, "write_fault"}
           /\ sec_buf' = <<>>
           /\ \E d \in 0 .. given' : disk' = Compressed!Bytes(0, d)
  <2>1. SectorTyped'
    BY <1>0, <1>2 DEF SectorInv, SectorTyped, Errors
  <2>2. Stopped'
    BY <1>2, Zenon DEF Stopped
  <2>3. Consecutive' /\ Left'
    BY <1>2, <2>2 DEF Consecutive, Left
  <2> QED
    BY <1>2, <2>1, <2>3 DEF SectorInv, SectorFlags
<1> QED
  BY <1>1, <1>2, Zenon DEF Progress

\* What is left is written without a check.
LEMMA FlushLemma ==
    ASSUME SectorInv, Compressed!Flush
    PROVE  SectorInv'
<1> USE DEF Compressed!sec_size
<1>1. /\ pc = "uncompress" /\ pc' = "done" /\ ret' = TRUE
      /\ UNCHANGED <<given, sec_buf, ErrorStatus>>
  BY DEF Compressed!Flush
<1>2. PICK d \in 0 .. given : Split(d)
  BY <1>1, Zenon DEF SectorInv, Consecutive
<1>3. given \in Nat /\ SectorSize \in Nat \ {0}
  BY WriteDriveAssumption DEF SectorInv, SectorTyped
<1>4. d \in Nat /\ d <= given
  BY <1>3
<1>5. disk = Compressed!Bytes(0, d) /\ sec_buf = Compressed!Bytes(d, given) /\ given - d < SectorSize
  BY <1>2 DEF Split
<1>6. CASE disk' = disk
  <2>1. Stopped'
    BY <1>1, <1>5, <1>6 DEF Stopped
  <2> QED
    BY <1>1, <2>1 DEF SectorInv, SectorFlags, SectorTyped, Consecutive, Left
<1>7. CASE disk' = disk \o sec_buf \o [k \in 1 .. SectorSize - Len(sec_buf) |-> Compressed!Padding]
           /\ sec_buf # <<>>
  <2> DEFINE n == SectorSize - (given - d)
  <2>1. Len(sec_buf) = given - d
    BY <1>3, <1>4, <1>5, BytesLemma
  <2>2. given # d
    <3>1. Compressed!Bytes(d, d) = <<>>
      BY <1>4 DEF Compressed!Bytes
    <3> QED
      BY <1>5, <1>7, <3>1
  <2>3. n \in 0 .. SectorSize - 1
    BY <1>3, <1>4, <1>5, <2>2
  <2>4. disk' = disk \o sec_buf \o PaddingOf(n)
    BY <1>7, <2>1 DEF PaddingOf
  <2>5. Compressed!Bytes(0, d) \o Compressed!Bytes(d, given) = Compressed!Bytes(0, given)
    <3>1. 0 \in Nat /\ 0 <= d
      BY <1>4
    <3> QED
      BY <1>3, <1>4, <3>1, BytesConcat, Zenon
  <2>6. disk' = Compressed!Bytes(0, given') \o PaddingOf(n)
    BY <1>1, <1>5, <2>4, <2>5
  <2>7. Padded'
    BY <2>3, <2>6, Zenon DEF Padded, PaddingOf
  <2> QED
    BY <1>1, <2>7 DEF SectorInv, SectorFlags, SectorTyped, Consecutive, Left
<1> QED
  BY <1>6, <1>7 DEF Compressed!Flush

\* A step of WriteDrive() keeps the invariant of a compressed image.
LEMMA SectorStep == SectorInv /\ Compressed!Next => SectorInv'
<1> SUFFICES ASSUME SectorInv, Compressed!Next PROVE SectorInv'
  OBVIOUS
<1>1. CASE Compressed!Start
  <2>1. UNCHANGED <<ret, given, sec_buf, disk>> /\ pc = "start"
    BY <1>1 DEF Compressed!Start
  <2>2. SectorTyped'
    BY <1>1, <2>1 DEF SectorInv, SectorTyped, Compressed!Start, Errors,
       SetupErrors, Compressed!SetupErrors
  <2>3. PICK d \in 0 .. given : Split(d)
    BY <2>1, Zenon DEF SectorInv, Consecutive
  <2>4. Split(d)' /\ ~ret /\ disk = Compressed!Bytes(0, d)
    BY <2>1, <2>3 DEF Split, SectorInv, Consecutive
  <2>5. Consecutive' /\ Left'
    BY <2>1, <2>4 DEF Consecutive, Left, Stopped
  <2> QED
    BY <2>1, <2>2, <2>5 DEF SectorInv, SectorFlags
<1>2. CASE \E count \in 0 .. MaxCount : Compressed!sector_write(count)
  <2>1. PICK count \in 0 .. MaxCount : Compressed!sector_write(count)
    BY <1>2
  <2>2. pc = "uncompress"
    BY <2>1, Zenon DEF Compressed!sector_write
  <2>3. given' \in 0 .. MaxImage /\ Progress(given')
    BY <2>1, SectorWriteLemma
  <2> QED
    BY <2>2, <2>3, ProgressIsSound
<1>3. CASE Compressed!Flush
  BY <1>3, FlushLemma
<1>4. CASE Compressed!Abort
  <2>1. UNCHANGED <<given, sec_buf, disk>> /\ pc = "uncompress" /\ Compressed!Fail
    BY <1>4 DEF Compressed!Abort
  <2>2. PICK d \in 0 .. given : Split(d)
    BY <2>1, Zenon DEF SectorInv, Consecutive
  <2>3. disk' = Compressed!Bytes(0, d)
    BY <2>1, <2>2 DEF Split
  <2>4. /\ pc' = "done" /\ ret' \in BOOLEAN
        /\ ret' => ErrorStatus' = "cancelled"
        /\ ErrorStatus' \in {ErrorStatus, "write_fault"}
    BY <2>1, FailLemma
  <2>5. Stopped'
    BY <2>1, <2>3, <2>4 DEF Stopped
  <2>6. SectorTyped'
    BY <2>1, <2>4 DEF SectorInv, SectorTyped, Errors
  <2> QED
    BY <2>4, <2>5, <2>6 DEF SectorInv, SectorFlags, Consecutive, Left
<1>5. CASE Compressed!UserCancel
  <2>1. UNCHANGED <<pc, ret, given, sec_buf, disk>> /\ pc # "done" /\ ErrorStatus' = "cancelled"
    BY <1>5 DEF Compressed!UserCancel
  <2>2. PICK d \in 0 .. given : Split(d)
    BY <2>1, Zenon DEF SectorInv, Consecutive
  <2>3. Split(d)' /\ ~ret
    BY <2>1, <2>2 DEF Split, SectorInv, Consecutive
  <2> QED
    BY <2>1, <2>3 DEF SectorInv, SectorFlags, SectorTyped, Consecutive, Left, Errors
<1>6. CASE Compressed!Terminated
  BY <1>6 DEF Compressed!Terminated, Compressed!vars, SectorInv, SectorFlags, SectorTyped,
     Consecutive, Split, Left, Stopped, Padded, PaddingOf
<1> QED
  BY <1>1, <1>2, <1>3, <1>4, <1>5, <1>6 DEF Compressed!Next, Compressed!WriteDrive

-----------------------------------------------------------------------------
(* WriteDrive() *)

IInv ==
    /\ mode \in {"zero", "image", "compressed"}
    /\ mode = "zero" => ZeroInv
    /\ mode = "image" => ImageInv
    /\ mode = "compressed" => SectorInv

LEMMA InitLemma == Init => IInv
  BY ZeroInit, ImageInit, SectorInit DEF Init, IInv

LEMMA StutterLemma ==
    ASSUME UNCHANGED vars
    PROVE  /\ ZeroInv => ZeroInv'
           /\ ImageInv => ImageInv'
           /\ SectorInv => SectorInv'
<1> USE DEF vars, driveVars, imageVars, zeroVars, compressedVars
<1>1. ZeroInv => ZeroInv'
  BY DEF ZeroInv, ZeroFlags, ZeroTyped, Zero!PointerFollowsProgress, Blank, Blanks, ZeroReturned
<1>2. ImageInv => ImageInv'
  BY DEF ImageInv, ImageFlags, ImageTyped, Ranged, Requested, Request, Processed,
     ImageWritten, Returned, Image!AlignedNotOverread, Image!NoReadPastTarget,
     Image!DriveHoldsWhatWasWritten, Image!target_size, Whole, Image!CeilingAlign
<1>3. SectorInv => SectorInv'
  BY DEF SectorInv, SectorFlags, SectorTyped, Consecutive, Split, Left, Stopped, Padded,
     PaddingOf
<1> QED
  BY <1>1, <1>2, <1>3

LEMMA StepLemma == IInv /\ [Next]_vars => IInv'
<1> SUFFICES ASSUME IInv, [Next]_vars PROVE IInv'
  OBVIOUS
<1>1. CASE ZeroFrame /\ Zero!Next
  BY <1>1, ZeroStep DEF ZeroFrame, IInv
<1>2. CASE ImageFrame /\ Image!Next
  BY <1>2, ImageStep DEF ImageFrame, IInv
<1>3. CASE CompressedFrame /\ Compressed!Next
  BY <1>3, SectorStep DEF CompressedFrame, IInv
<1>4. CASE UNCHANGED vars
  <2>1. mode' = mode
    BY <1>4 DEF vars
  <2> QED
    BY <1>4, <2>1, StutterLemma DEF IInv
<1> QED
  BY <1>1, <1>2, <1>3, <1>4 DEF Next

LEMMA IInvLemma == Spec => []IInv
  BY InitLemma, StepLemma, PTL DEF Spec

\* The buffer that is written is never the one that is read into and, for an image of
\* whole sectors, no request of the double buffering goes past the image or the drive.
THEOREM ReadsStayInBounds == Spec => []ReadsAreSound
<1>1. IInv => ReadsAreSound
  <2>1. ImageInv => Image!NoReadIntoWrittenBuffer
    <3> SUFFICES ASSUME ImageInv, pc = "write" PROVE fd.target # proc_bufnum
      BY DEF Image!NoReadIntoWrittenBuffer
    <3>1. fd.target = read_bufnum
      BY DEF ImageInv, Requested
    <3>2. read_bufnum \in 0 .. 1 /\ proc_bufnum = 1 - read_bufnum
      BY DEF ImageInv, ImageTyped
    <3> QED
      BY <3>1, <3>2
  <2> QED
    BY <2>1 DEF IInv, ReadsAreSound, ImageInv
<1> QED
  BY <1>1, IInvLemma, PTL

\* Whatever was short, failed, skipped or retried, what WriteDrive() counts as written is
\* on the drive and at its place, in each of its three ways.
THEOREM WrittenIsOnTheDrive == Spec => []DriveHoldsWhatWasWritten
<1>1. SectorInv => Compressed!NothingLostOrRepeated
  <2> SUFFICES ASSUME SectorInv, pc = "uncompress"
               PROVE  /\ disk \o sec_buf = Compressed!Bytes(0, given)
                      /\ Len(disk) % SectorSize = 0
    BY DEF Compressed!NothingLostOrRepeated, Compressed!sec_size
  <2>1. PICK d \in 0 .. given : Split(d)
    BY DEF SectorInv, Consecutive
  <2>2. given \in Nat
    BY WriteDriveAssumption DEF SectorInv, SectorTyped
  <2>3. d \in Nat /\ d <= given /\ 0 \in Nat /\ 0 <= d
    BY <2>2
  <2>4. Compressed!Bytes(0, d) \o Compressed!Bytes(d, given) = Compressed!Bytes(0, given)
    BY <2>2, <2>3, BytesConcat, Zenon
  <2>5. Len(Compressed!Bytes(0, d)) = d
    BY <2>3, BytesLemma
  <2> QED
    BY <2>1, <2>4, <2>5 DEF Split
<1>2. IInv => DriveHoldsWhatWasWritten
  BY <1>1 DEF IInv, DriveHoldsWhatWasWritten, ImageInv, ImageWritten, ZeroInv
<1> QED
  BY <1>2, IInvLemma, PTL

LEMMA PrefixLemma ==
    ASSUME SectorInv
    PROVE  Compressed!DriveHoldsPrefix
<1> USE DEF Compressed!sec_size
<1> DEFINE image == Compressed!Bytes(0, given)
<1>1. given \in Nat /\ SectorSize \in Nat \ {0}
  BY WriteDriveAssumption DEF SectorInv, SectorTyped
<1>2. Len(image) = given /\ image \in Seq(Nat)
  BY <1>1, BytesLemma
<1>3. ASSUME NEW d \in 0 .. given, disk = Compressed!Bytes(0, d)
      PROVE  Len(disk) = d /\ Compressed!IsPrefix(disk, image)
  <2>1. d \in Nat /\ 0 \in Nat /\ 0 <= d /\ d <= given /\ d <= d /\ d - 0 = d
    BY <1>1
  <2>2. Len(disk) = d
    BY <1>3, <2>1, BytesLemma
  <2>3. SubSeq(Compressed!Bytes(0, d), 1, d - 0) = Compressed!Bytes(0, d)
    BY <2>1, BytesPrefix, Zenon
  <2>4. SubSeq(Compressed!Bytes(0, given), 1, d - 0) = Compressed!Bytes(0, d)
    BY <1>1, <2>1, BytesPrefix, Zenon
  <2>5. SubSeq(disk, 1, Len(disk)) = SubSeq(image, 1, Len(disk))
    BY <1>3, <2>1, <2>2, <2>3, <2>4
  <2> QED
    BY <1>2, <2>1, <2>2, <2>5 DEF Compressed!IsPrefix
<1>4. CASE pc # "done"
  <2>1. PICK d \in 0 .. given : Split(d)
    BY <1>4 DEF SectorInv, Consecutive
  <2>2. ~ret
    BY <1>4 DEF SectorInv, Consecutive
  <2> QED
    BY <1>3, <2>1, <2>2 DEF Compressed!DriveHoldsPrefix, Split
<1>5. CASE Stopped
  <2>1. PICK d \in 0 .. given :
            /\ disk = Compressed!Bytes(0, d)
            /\ ret /\ ErrorStatus # "cancelled" => given - d < SectorSize
    BY <1>5 DEF Stopped
  <2> QED
    BY <1>3, <2>1 DEF Compressed!DriveHoldsPrefix
<1>6. CASE pc = "done" /\ Padded
  <2>1. PICK n \in 0 .. SectorSize - 1 : disk = image \o PaddingOf(n)
    BY <1>6 DEF Padded
  <2>2. n \in Nat /\ n < SectorSize
    BY <1>1
  <2>3. PaddingOf(n) \in Seq(Nat) /\ Len(PaddingOf(n)) = n
    BY <2>2 DEF PaddingOf, Compressed!Padding
  <2> HIDE DEF image
  <2>4. /\ image \o PaddingOf(n) \in Seq(Nat)
        /\ Len(image \o PaddingOf(n)) = given + n
        /\ \A k \in 1 .. given : (image \o PaddingOf(n))[k] = image[k]
    <3>1. /\ image \o PaddingOf(n) \in Seq(Nat)
          /\ Len(image \o PaddingOf(n)) = Len(image) + Len(PaddingOf(n))
          /\ \A k \in 1 .. Len(image) + Len(PaddingOf(n)) : (image \o PaddingOf(n))[k] =
                 IF k <= Len(image) THEN image[k] ELSE PaddingOf(n)[k - Len(image)]
      BY <1>2, <2>3, ConcatProperties
    <3> QED
      BY <1>1, <1>2, <2>2, <2>3, <3>1
  <2>5. SubSeq(image, 1, given) = SubSeq(disk, 1, given)
    <3>1. SubSeq(image, 1, given) \in Seq(Nat) /\ Len(SubSeq(image, 1, given)) = given
          /\ \A k \in 1 .. given : SubSeq(image, 1, given)[k] = image[k]
      BY <1>1, <1>2
    <3>2. SubSeq(disk, 1, given) \in Seq(Nat) /\ Len(SubSeq(disk, 1, given)) = given
          /\ \A k \in 1 .. given : SubSeq(disk, 1, given)[k] = disk[k]
      BY <1>1, <2>1, <2>2, <2>4
    <3>3. \A k \in 1 .. given : disk[k] = image[k]
      BY <2>1, <2>4
    <3> QED
      BY <3>1, <3>2, <3>3, SeqEqual
  <2>6. Len(disk) = given + n
    BY <2>1, <2>4
  <2>7. Compressed!IsPrefix(image, disk) /\ Len(disk) - given < SectorSize
    BY <1>1, <1>2, <2>2, <2>5, <2>6 DEF Compressed!IsPrefix
  <2> QED
    BY <1>6, <2>7 DEF Compressed!DriveHoldsPrefix, image
<1> QED
  BY <1>4, <1>5, <1>6 DEF SectorInv, Left

\* WriteDrive() only returns TRUE when the drive holds what it should, if it could be
\* rewound: the image or as much of it as fits, unless a read has torn a sector of it,
\* the whole of a VHD, no data after zeroing, and a compressed image but for the sector
\* that is written without a check.
THEOREM SuccessMeansComplete == Spec => []SuccessIsComplete
<1>1. ImageInv => Image!SuccessIsComplete
  <2> SUFFICES ASSUME ImageInv, ret, rewound, ~torn
               PROVE  /\ \A p \in DOMAIN disk : p < image_size => disk[p] = p
                      /\ vhd => image_size <= DiskSize
    BY DEF Image!SuccessIsComplete, Image!HoldsTheImage
  <2>1. wb >= Image!target_size
    BY DEF ImageInv, Returned
  <2>2. image_size \in Nat /\ DiskSize \in Nat
    BY WriteDriveAssumption DEF ImageInv, ImageTyped
  <2>3. Image!Min({DiskSize, image_size}) = IF DiskSize <= image_size THEN DiskSize ELSE image_size
    BY <2>2, MinTwo
  <2>4. Image!target_size = IF vhd THEN image_size
                            ELSE IF DiskSize <= image_size THEN DiskSize ELSE image_size
    BY <2>3 DEF Image!target_size
  <2>5. wb \in Nat /\ pos \in Nat /\ wb <= pos /\ pos <= DiskSize
    BY DEF ImageInv, ImageTyped
  <2>6. DOMAIN disk = 0 .. DiskSize - 1
    BY DEF ImageInv, ImageWritten
  <2>7. \A p \in DOMAIN disk : p < wb /\ p < image_size => disk[p] = p
    BY DEF ImageInv, ImageWritten, Image!DriveHoldsWhatWasWritten
  <2>8. ASSUME NEW p \in DOMAIN disk, p < image_size PROVE p < wb
    BY <2>1, <2>2, <2>4, <2>5, <2>6, <2>8
  <2>9. vhd => image_size <= DiskSize
    BY <2>1, <2>2, <2>4, <2>5
  <2> QED
    BY <2>7, <2>8, <2>9
<1>2. ZeroInv => Zero!SuccessIsZeroed
  <2> SUFFICES ASSUME ZeroInv, ret, rewound, NEW p \in DOMAIN disk
               PROVE  disk[p] \in Blanks
    BY DEF Zero!SuccessIsZeroed, Blanks
  <2>1. p \in 0 .. Zero!DiskSectors - 1 /\ wb >= Zero!DiskSectors /\ wb \in 0 .. Zero!DiskSectors
    BY DEF ZeroInv, ZeroTyped, ZeroReturned
  <2>2. p < wb
    BY <2>1, ZeroLemma DEF ZeroFacts
  <2> QED
    BY <2>1, <2>2 DEF ZeroInv, Blank
<1>3. IInv => SuccessIsComplete
  BY <1>1, <1>2, PrefixLemma DEF IInv, SuccessIsComplete
<1> QED
  BY <1>3, IInvLemma, PTL

\* The types of the state of WriteDrive(), in each of its three ways.
THEOREM TypeCorrect == Spec => []TypeOK
<1>1. ImageInv => Image!TypeOK
  <2> SUFFICES ASSUME ImageInv PROVE Image!TypeOK
    OBVIOUS
  <2>1. ret \in BOOLEAN /\ vhd \in BOOLEAN /\ {rewound, torn} \subseteq BOOLEAN
    BY Zenon DEF ImageInv, ImageFlags
  <2>2. read_size \in [Image!Buffers -> 0 .. buf_size]
    BY DEF ImageInv, ImageTyped, Ranged, Image!Buffers, Image!NUM_BUFFERS
  <2>3. wb \in 0 .. DiskSize /\ pos \in 0 .. DiskSize
    BY WriteDriveAssumption DEF ImageInv, ImageTyped
  <2>4. read_bufnum \in Image!Buffers /\ proc_bufnum \in Image!Buffers
    BY DEF ImageInv, ImageTyped, Image!Buffers, Image!NUM_BUFFERS
  <2>5. /\ fd.iStatus \in {"closed", "pending", "complete", "error"}
        /\ fd.target \in Image!Buffers
    BY DEF ImageInv, ImageTyped, Requests, Image!Buffers, Image!NUM_BUFFERS
  <2>6. \A p \in DOMAIN disk : disk[p] \in {Image!Old, Image!Junk} \union Nat
    BY DEF ImageInv, Ranged
  <2>7. /\ pc \in {"start", "loop", "wait_read", "write", "done"}
        /\ image_size \in ImageSizes
        /\ i \in 1 .. Image!WRITE_RETRIES
        /\ ErrorStatus \in Image!Errors
    BY DEF ImageInv, ImageTyped, WRITE_RETRIES, Image!WRITE_RETRIES, Errors, SetupErrors,
       Image!Errors, Image!SetupErrors
  <2> QED
    BY <2>1, <2>2, <2>3, <2>4, <2>5, <2>6, <2>7, Zenon DEF Image!TypeOK
<1>2. ZeroInv => Zero!TypeOK
  <2> SUFFICES ASSUME ZeroInv PROVE Zero!TypeOK
    OBVIOUS
  <2>1. ErrorStatus \in Zero!Errors /\ i \in 1 .. Zero!WRITE_RETRIES
    BY DEF ZeroInv, ZeroTyped, WRITE_RETRIES, Zero!WRITE_RETRIES, Errors, SetupErrors,
       Zero!Errors, Zero!SetupErrors
  <2> QED
    BY <2>1, Zenon DEF ZeroInv, ZeroFlags, ZeroTyped, Zero!TypeOK
<1>3. SectorInv => Compressed!TypeOK
  <2> SUFFICES ASSUME SectorInv PROVE Compressed!TypeOK
    OBVIOUS
  <2>1. ErrorStatus \in Compressed!Errors
    BY DEF SectorInv, SectorTyped, Errors, SetupErrors, Compressed!Errors,
       Compressed!SetupErrors
  <2>2. given \in Nat /\ given <= MaxImage /\ MaxImage \in Nat
    BY WriteDriveAssumption DEF SectorInv, SectorTyped
  <2>3. ASSUME NEW d \in 0 .. given PROVE Compressed!Bytes(0, d) \in Seq(0 .. MaxImage)
    <3>1. d \in Nat /\ \A k \in 1 .. d - 0 : 0 + k \in 0 .. MaxImage
      BY <2>2
    <3> QED
      BY <3>1 DEF Compressed!Bytes
  <2>4. disk \in Seq(0 .. MaxImage)
    <3>1. CASE \E d \in 0 .. given : disk = Compressed!Bytes(0, d)
      BY <2>3, <3>1
    <3>2. CASE Padded
      <4>1. PICK n \in 0 .. SectorSize - 1 : disk = Compressed!Bytes(0, given) \o PaddingOf(n)
        BY <3>2 DEF Padded
      <4>2. PaddingOf(n) \in Seq(0 .. MaxImage)
        <5>1. n \in Nat /\ 0 \in 0 .. MaxImage
          BY <2>2, WriteDriveAssumption
        <5> QED
          BY <5>1 DEF PaddingOf, Compressed!Padding
      <4>3. Compressed!Bytes(0, given) \in Seq(0 .. MaxImage)
        BY <2>2, <2>3
      <4> QED
        BY <4>1, <4>2, <4>3, ConcatProperties
    <3> QED
      BY <3>1, <3>2 DEF SectorInv, Consecutive, Left, Split, Stopped
  <2> QED
    BY <2>1, <2>4, Zenon DEF SectorInv, SectorFlags, SectorTyped, Compressed!TypeOK,
       Compressed!sec_size
<1>4. IInv => TypeOK
  BY <1>1, <1>2, <1>3 DEF IInv, TypeOK
<1> QED
  BY <1>4, IInvLemma, PTL

=============================================================================
