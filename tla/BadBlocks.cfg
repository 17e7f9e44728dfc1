SPECIFICATION CheckSpec
CONSTANTS
    last_block = 4
    blocks_at_once = 3
    nb_passes = 2
    max_bb = 3
INVARIANTS OnlyBadBlocksReported BadBlocksFound
PROPERTY BadBlocksEnds
