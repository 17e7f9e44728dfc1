----------------------------- MODULE BadBlocks -----------------------------
(***************************************************************************)
(* BadBlocks() of badblocks.c: every pass writes a pattern to the whole    *)
(* drive, some blocks at once, then reads it and compares.  A transfer     *)
(* that fails is repeated block by block.  In the first pass every block   *)
(* also holds its own number, so that a fake drive, which stores its       *)
(* blocks modulo its real size, is found out.  The status timer of the     *)
(* main thread interrupts the check after a cancellation.                  *)
(*                                                                         *)
(* A block of the drive is good or has one defect.  The patterns of two    *)
(* passes are taken to be different, and the list of bad blocks can always  *)
(* grow.                                                                   *)
(***************************************************************************)
EXTENDS Naturals, Sequences

CONSTANTS
    last_block,         \* The number of blocks of the drive
    blocks_at_once,     \* BB_BLOCKS_AT_ONCE
    nb_passes,
    max_bb              \* BB_BAD_BLOCKS_THRESHOLD

BadBlocksAssumption ==
    /\ last_block \in Nat \ {0}
    /\ blocks_at_once \in Nat \ {0}
    /\ nb_passes \in Nat \ {0}
    /\ max_bb \in Nat \ {0}

VARIABLES
    media,              \* The defect of each block
    real_size,          \* How many blocks the drive really has
    stored,             \* What is in them
    detect_fakes,       \* (global)
    large_drive,        \* (global)
    pc,                 \* The loop of test_rw() that is running
    pat_idx,            \* The pass
    currently_testing,  \* (global)
    tryout,             \* How many blocks the next transfer has
    recover_block,      \* Where to go back to blocks_at_once, None for ~0
    bb_list,            \* (global) The bad blocks that were found, in order
    bb_count,
    errors,             \* (global) num_read_errors and so on
    cancel_ops,         \* (global)
    ErrorStatus,        \* (global)
    ret,                \* What BadBlocks() has returned
    unchecked,          \* (history) Blocks that were read but not compared
    refused             \* (history) Blocks that are taken for write errors and have none

drive == <<media, real_size, detect_fakes, large_drive>>
found == <<bb_list, bb_count, errors>>
history == <<unchecked, refused>>
vars == <<drive, stored, pc, pat_idx, currently_testing, tryout, recover_block, found,
          cancel_ops, ErrorStatus, ret, history>>

Blocks == 0 .. last_block - 1
Defects == {"good", "write", "read", "corruption"}
None == last_block + blocks_at_once + 1
Listed == {bb_list[k] : k \in 1 .. Len(bb_list)}

Init ==
    /\ media \in [Blocks -> Defects]
    /\ real_size \in 1 .. last_block
    /\ real_size < last_block => \A b \in Blocks : media[b] = "good"
    /\ stored = [b \in Blocks |-> <<0, None>>]
    /\ detect_fakes \in BOOLEAN
    /\ large_drive \in BOOLEAN
    /\ pc = "start"
    /\ pat_idx = 1
    /\ currently_testing = 0
    /\ tryout = blocks_at_once
    /\ recover_block = None
    /\ bb_list = <<>>
    /\ bb_count = 0
    /\ errors = [read |-> 0, write |-> 0, corruption |-> 0]
    /\ cancel_ops = FALSE
    /\ ErrorStatus \in {"none", "cancelled"}
    /\ ret = FALSE
    /\ unchecked = {}
    /\ refused = {}

-----------------------------------------------------------------------------
(* The list of bad blocks *)

\* The loop of bb_u64_list_find(), from a pair of low and high on
Search(list, blk) ==
    LET search[r \in (1 .. Len(list)) \X (1 .. Len(list))] ==
            LET mid == (r[1] + r[2]) \div 2
            IN  /\ mid \notin {r[1], r[2]}
                /\ \/ blk = list[mid]
                   \/ search[IF blk < list[mid] THEN <<r[1], mid>> ELSE <<mid, r[2]>>]
    IN  search

bb_u64_list_find(list, blk) ==
    Len(list) > 0 /\ (blk = list[1] \/ blk = list[Len(list)] \/ Search(list, blk)[<<1, Len(list)>>])

\* Mistake: the block is appended, wherever it belongs.
bb_list_append(list, blk) == Append(list, blk)

\* The block is put before the first larger one: the list stays in order.
bb_u64_list_add(list, blk) ==
    LET j == CHOOSE j \in 1 .. Len(list) + 1 :
                 /\ \A k \in 1 .. j - 1 : list[k] <= blk
                 /\ j <= Len(list) => list[j] > blk
    IN  [k \in 1 .. Len(list) + 1 |->
            IF k < j THEN list[k] ELSE IF k = j THEN blk ELSE list[k - 1]]

\* bb_output() for one block: one that is on the list is not counted again.
Output(f, blk, kind) ==
    IF bb_u64_list_find(f.list, blk)
    THEN f
    ELSE [list   |-> bb_u64_list_add(f.list, blk),
          count  |-> f.count + 1,
          errors |-> [f.errors EXCEPT ![kind] = @ + 1]]

Found == [list |-> bb_list, count |-> bb_count, errors |-> errors]

SetFound(f) == bb_list' = f.list /\ bb_count' = f.count /\ errors' = f.errors

-----------------------------------------------------------------------------
(* test_rw() *)

\* "if (currently_testing + tryout > last_block)"
Size == IF currently_testing + tryout > last_block THEN last_block - currently_testing ELSE tryout

Transfer == currently_testing .. currently_testing + Size - 1

Cell(b) == b % real_size

\* What a block is written with: the pattern of the pass, and its own number
\* in the first pass.
Pattern(b) == <<pat_idx, IF detect_fakes /\ pat_idx = 1 THEN b ELSE None>>

\* Mistake: a block that fails is tried again.
NextBlockStay(got, size) == currently_testing + got

\* Mistake: the rest of a transfer that fails is left out.
NextBlockSkip(got, size) == currently_testing + size

\* currently_testing after a transfer: past the blocks that were transferred,
\* or past the single one that was not.
NextBlock(got, size) ==
    IF got = 0 /\ size = 1 THEN currently_testing + 1 ELSE currently_testing + got

\* tryout and recover_block after a transfer
Recover(got, size) ==
    IF got # size
    THEN /\ tryout' = 1
         /\ recover_block' = IF recover_block = None
                             THEN NextBlock(got, size) - got + blocks_at_once
                             ELSE recover_block
    ELSE IF NextBlock(got, size) = recover_block
    THEN tryout' = blocks_at_once /\ recover_block' = None
    ELSE tryout' = size /\ UNCHANGED recover_block

\* Mistake: only the number of bad blocks is returned.
ReturnTrue(cancel) ==
    /\ cancel_ops' = cancel
    /\ ret' = TRUE
    /\ pc' = "done"

\* BadBlocks() after test_rw(): a check that was interrupted has failed, unless
\* it has found bad blocks.
Return(cancel) ==
    /\ cancel_ops' = cancel
    /\ ret' = ~(cancel /\ bb_count = 0)
    /\ pc' = "done"

\* There may be no memory for the list or for the buffers.
Start ==
    /\ pc = "start"
    /\ \/ pc' = "write" /\ UNCHANGED <<cancel_ops, ret>>
       \/ Return(TRUE)
    /\ UNCHANGED <<drive, stored, pat_idx, currently_testing, tryout, recover_block, found,
                   ErrorStatus, history>>

\* The tests at the top of either loop: a cancellation, "Too many bad blocks"
Interrupted ==
    /\ pc \in {"write", "read"}
    /\ currently_testing < last_block
    /\ cancel_ops \/ bb_count >= max_bb
    /\ Return(TRUE)
    /\ UNCHANGED <<drive, stored, pat_idx, currently_testing, tryout, recover_block, found,
                   ErrorStatus, history>>

Testing(phase) ==
    /\ pc = phase
    /\ currently_testing < last_block
    /\ ~cancel_ops
    /\ bb_count < max_bb

\* The block of the transfer that stays in a cell: the last one is stored over
\* the others.
LastIn(c) ==
    CHOOSE b \in Transfer : Cell(b) = c /\ \A d \in Transfer : Cell(d) = c => d <= b

\* WriteFileWithRetry() writes nothing once the operation is cancelled.
Written == ErrorStatus = "none" /\ \A b \in Transfer : media[b] # "write"

\* What do_write() returns: write_sectors() writes all of the blocks, or fails.
\* "Some large drives return 0, even though all the data was written".
Got == {IF Written THEN Size ELSE 0} \union (IF large_drive THEN {0} ELSE {})

Write ==
    /\ Testing("write")
    /\ stored' = [c \in Blocks |->
                     IF Written /\ \E b \in Transfer : Cell(b) = c
                     THEN Pattern(LastIn(c))
                     ELSE stored[c]]
    /\ \E got \in Got :
           LET failed == IF got = 0 /\ Size = 1 THEN {currently_testing} ELSE {}
           IN  /\ SetFound(IF failed # {} THEN Output(Found, currently_testing, "write") ELSE Found)
               /\ refused' = refused \union {b \in failed : media[b] # "write"}
               /\ currently_testing' = NextBlock(got, Size)
               /\ Recover(got, Size)
    /\ UNCHANGED <<drive, pc, pat_idx, cancel_ops, ErrorStatus, ret, unchecked>>

\* memcmp() of a block that was read with what was written
Differs(b) == media[b] = "corruption" \/ stored[Cell(b)] # Pattern(b)

\* Mistake: the blocks that were read are numbered from the end.
ComparedShifted(got) ==
    LET after[n \in 0 .. got] ==
            IF n = 0 THEN Found
            ELSE LET b == currently_testing + n - 1
                 IN  IF Differs(b) THEN Output(after[n - 1], b + 1, "corruption") ELSE after[n - 1]
    IN  after[got]

\* bb_output() for the blocks that are not what was written
Compared(got) ==
    LET after[n \in 0 .. got] ==
            IF n = 0 THEN Found
            ELSE LET b == currently_testing + n - 1
                 IN  IF Differs(b) THEN Output(after[n - 1], b, "corruption") ELSE after[n - 1]
    IN  after[got]

Read ==
    /\ Testing("read")
    /\ \A b \in Transfer : media[b] # "read"
    /\ SetFound(Compared(Size))
    /\ currently_testing' = NextBlock(Size, Size)
    /\ Recover(Size, Size)
    /\ UNCHANGED <<drive, stored, pc, pat_idx, cancel_ops, ErrorStatus, ret, history>>

\* read_sectors() may have read some of the blocks before the one that fails:
\* those are not compared.
ReadFails ==
    /\ Testing("read")
    /\ \E bad \in Transfer :
           /\ media[bad] = "read"
           /\ \A b \in Transfer : b < bad => media[b] # "read"
           /\ \E got \in 0 .. bad - currently_testing :
                  /\ SetFound(IF got = 0 /\ Size = 1
                              THEN Output(Found, currently_testing, "read") ELSE Found)
                  /\ unchecked' = unchecked \union (currently_testing .. currently_testing + got - 1)
                  /\ currently_testing' = NextBlock(got, Size)
                  /\ Recover(got, Size)
    /\ UNCHANGED <<drive, stored, pc, pat_idx, cancel_ops, ErrorStatus, ret, refused>>

\* "Reading and comparing"
StartReading ==
    /\ pc = "write"
    /\ currently_testing = last_block
    /\ pc' = "read"
    /\ currently_testing' = 0
    /\ tryout' = blocks_at_once
    /\ UNCHANGED <<drive, stored, pat_idx, recover_block, found, cancel_ops, ErrorStatus, ret,
                   history>>

\* A cancellation that comes too late to be seen by a loop is seen by the next pass.
NextPass ==
    /\ pc = "read"
    /\ currently_testing = last_block
    /\ IF pat_idx < nb_passes /\ ~cancel_ops
       THEN /\ pat_idx' = pat_idx + 1
            /\ pc' = "write"
            /\ currently_testing' = 0
            /\ tryout' = blocks_at_once
            /\ UNCHANGED <<cancel_ops, ret>>
       ELSE /\ Return(cancel_ops)
            /\ UNCHANGED <<pat_idx, currently_testing, tryout>>
    /\ UNCHANGED <<drive, stored, recover_block, found, ErrorStatus, history>>

test_rw == Start \/ Interrupted \/ Write \/ Read \/ ReadFails \/ StartReading \/ NextPass

-----------------------------------------------------------------------------
(* The main thread *)

UserCancel ==
    /\ pc # "done"
    /\ ErrorStatus = "none"
    /\ ErrorStatus' = "cancelled"
    /\ UNCHANGED <<drive, stored, pc, pat_idx, currently_testing, tryout, recover_block, found,
                   cancel_ops, ret, history>>

\* The timer, which is killed when test_rw() is over.  num_blocks is 0 for a
\* drive of one block that is being written.
alarm_intr ==
    /\ ErrorStatus = "cancelled"
    /\ pc = "read" \/ (pc = "write" /\ last_block > 1)
    /\ cancel_ops' = TRUE
    /\ UNCHANGED <<drive, stored, pc, pat_idx, currently_testing, tryout, recover_block, found,
                   ErrorStatus, ret, history>>

Terminated == pc = "done" /\ UNCHANGED vars

Next == test_rw \/ UserCancel \/ alarm_intr \/ Terminated

\* Every transfer ends: the driver has its own timeouts.
Spec == Init /\ [][Next]_vars /\ WF_vars(test_rw)

-----------------------------------------------------------------------------
(* The types; the properties are in BadBlocksStage. *)

TypeOK ==
    /\ media \in [Blocks -> Defects]
    /\ real_size \in 1 .. last_block
    /\ {detect_fakes, large_drive} \subseteq BOOLEAN
    /\ stored \in [Blocks -> (0 .. nb_passes) \X (Blocks \union {None})]
    /\ pc \in {"start", "write", "read", "done"}
    /\ pat_idx \in 1 .. nb_passes
    /\ currently_testing \in 0 .. last_block
    /\ tryout \in 1 .. blocks_at_once
    /\ recover_block \in 0 .. None
    /\ bb_list \in Seq(Blocks)
    /\ bb_count \in Nat
    /\ errors \in [{"read", "write", "corruption"} -> Nat]
    /\ {cancel_ops, ret} \subseteq BOOLEAN
    /\ ErrorStatus \in {"none", "cancelled"}
    /\ unchecked \subseteq Blocks
    /\ refused \subseteq Blocks

\* A block that a fake drive loses: a later one is stored over it...
Lost(b) == detect_fakes /\ \E d \in Blocks : d > b /\ Cell(d) = Cell(b)

\* ...and was not refused.
StoredOver(b) == detect_fakes /\ \E d \in Blocks \ refused : d > b /\ Cell(d) = Cell(b)

=============================================================================
