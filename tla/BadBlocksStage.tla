--------------------------- MODULE BadBlocksStage ---------------------------
(***************************************************************************)
(* The bad blocks check as a stage of the format thread: the state of      *)
(* BadBlocks, under names that FormatThread leaves free, and the           *)
(* properties of a check.                                                  *)
(***************************************************************************)
EXTENDS Naturals, Sequences

CONSTANTS last_block, blocks_at_once, nb_passes, max_bb

VARIABLES
    media, real_size, stored, detect_fakes, large_drive, check_pc, pat_idx, currently_testing,
    tryout, recover_block, bb_list, bb_count, errors, cancel_ops, CheckStatus, ret, unchecked,
    refused

Check == INSTANCE BadBlocks WITH pc <- check_pc, ErrorStatus <- CheckStatus

ASSUME CheckAssumption == Check!BadBlocksAssumption

CheckSpec == Check!Spec

-----------------------------------------------------------------------------
(* Properties *)

\* No good block is reported, though the numbers of a transfer that was cut
\* short or repeated differ from those of the one before: but for a block whose
\* write was refused after a cancellation, before the timer has stopped the
\* check, or that a large drive has written and reported as not written.  And no
\* block is counted twice, whatever passes and kinds of errors it fails: the list is
\* in order, and the number of bad blocks that the user is told, the numbers of
\* errors, and the list agree.
OnlyBadBlocksReported ==
    /\ \A b \in Check!Listed : media[b] # "good" \/ Check!Lost(b) \/ b \in refused
    /\ refused # {} => CheckStatus = "cancelled" \/ large_drive
    /\ \A j, k \in 1 .. Len(bb_list) : j < k => bb_list[j] < bb_list[k]
    /\ bb_count = Len(bb_list)
    /\ bb_count = errors.read + errors.write + errors.corruption

\* No good block is reported, in whatever state the operation is.
NoGoodBlockReported == \A b \in Check!Listed : media[b] # "good" \/ Check!Lost(b)

\* A check that was not interrupted has found every defect, and every block
\* that a fake drive has stored another one over, but for blocks that were read
\* and not compared because a block after them, in the same transfer, could not be
\* read.  One that was interrupted is never taken for one that has found no bad
\* blocks.
BadBlocksFound ==
    /\ check_pc = "done" /\ ~cancel_ops =>
           \A b \in Check!Blocks : media[b] # "good" \/ Check!StoredOver(b) =>
               b \in Check!Listed \union unchecked
    /\ ret /\ bb_count = 0 =>
           pat_idx = nb_passes /\ currently_testing = last_block /\ ~cancel_ops

\* A check that was not interrupted has found every defect, also of the blocks
\* that were read together with one that cannot be.
EveryBadBlockFound ==
    check_pc = "done" /\ ~cancel_ops =>
        \A b \in Check!Blocks : media[b] # "good" \/ Check!StoredOver(b) => b \in Check!Listed

\* The check ends, whatever fails.
BadBlocksEnds == <>(check_pc = "done")

=============================================================================
