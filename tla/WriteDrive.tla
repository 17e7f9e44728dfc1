----------------------------- MODULE WriteDrive -----------------------------
(***************************************************************************)
(* WriteDrive() of format.c, which zeroes a drive, or writes an image to   *)
(* it that is compressed or not.  The three ways share their state: one of *)
(* them is chosen at the beginning, from bZeroDrive and from the type of   *)
(* the image, and is modelled by a module of its own.                      *)
(***************************************************************************)
EXTENDS WriteDriveParameters, Sequences

VARIABLES
    mode,           \* "zero", "image" or "compressed"
    pc, ret, wb, i, read_size, disk, pos, rewound, ErrorStatus,
    image_size, vhd, torn, read_bufnum, proc_bufnum, fd, buffer, \* "image"
    fast_zeroing, throttle_fast_zeroing,                        \* "zero"
    given, sec_buf                                              \* "compressed"

driveVars == <<pc, ret, wb, i, read_size, disk, pos, rewound, ErrorStatus>>
imageVars == <<image_size, vhd, torn, read_bufnum, proc_bufnum, fd, buffer>>
zeroVars == <<fast_zeroing, throttle_fast_zeroing>>
compressedVars == <<given, sec_buf>>
vars == <<mode, driveVars, imageVars, zeroVars, compressedVars>>

Image == INSTANCE WriteImage
Zero == INSTANCE ZeroDrive
Compressed == INSTANCE SectorWrite

-----------------------------------------------------------------------------
NoImage ==
    /\ image_size = 0
    /\ vhd = FALSE
    /\ torn = FALSE
    /\ read_bufnum = 0
    /\ proc_bufnum = 1
    /\ fd = <<>>
    /\ buffer = <<>>

NoZeroing == fast_zeroing = FALSE /\ throttle_fast_zeroing = 0
NoDecompression == given = 0 /\ sec_buf = <<>>

Init ==
    \/ mode = "zero" /\ Zero!Init /\ NoImage /\ NoDecompression
    \/ mode = "image" /\ Image!Init /\ NoZeroing /\ NoDecompression
    \/ /\ mode = "compressed" /\ Compressed!Init /\ NoImage /\ NoZeroing
       /\ wb = 0 /\ i = 1 /\ read_size = 0 /\ pos = 0 /\ rewound = FALSE

\* What a step of each of the three leaves alone
ZeroFrame == mode = "zero" /\ UNCHANGED <<mode, imageVars, compressedVars>>
ImageFrame == mode = "image" /\ UNCHANGED <<mode, zeroVars, compressedVars>>
CompressedFrame ==
    /\ mode = "compressed"
    /\ UNCHANGED <<mode, imageVars, zeroVars, wb, i, read_size, pos, rewound>>

Next ==
    \/ ZeroFrame /\ Zero!Next
    \/ ImageFrame /\ Image!Next
    \/ CompressedFrame /\ Compressed!Next

\* The thread runs, whatever the reads and the user do; a compressed image is
\* finite.
Spec ==
    /\ Init /\ [][Next]_vars
    /\ WF_vars(ZeroFrame /\ Zero!WriteDrive)
    /\ WF_vars(ImageFrame /\ Image!WriteDrive)
    /\ WF_vars(CompressedFrame /\ Compressed!WriteDrive)

-----------------------------------------------------------------------------
(* Properties.                                                             *)

TypeOK ==
    /\ mode \in {"zero", "image", "compressed"}
    /\ mode = "zero" => Zero!TypeOK
    /\ mode = "image" => Image!TypeOK
    /\ mode = "compressed" => Compressed!TypeOK

\* The operating system never reads into the buffer that is being written to
\* the drive and, for an image of whole sectors, no request goes past the image
\* or the drive, whatever sizes the reads before it have returned.
ReadsAreSound ==
    mode = "image" => Image!NoReadIntoWrittenBuffer /\ Image!AlignedNotOverread

\* "It is VERY IMPORTANT here that we don't attempt to read past the source or
\* target sizes": for any image.
NoReadPastTarget == mode = "image" => Image!NoReadPastTarget

\* Whatever was short, failed, skipped or retried on the way, what WriteDrive()
\* counts as written is on the drive and at its place.  The image is, up to wb,
\* unless a read has ended within a sector, and in any case nothing past it but
\* the rounding to sectors; zeroing keeps the file
\* pointer, which comparing, seeking and writing share, at wb; and with the
\* partial sector that is kept between two calls of sector_write() the drive has
\* exactly what the decompressor has handed over, whatever the sizes of its blocks.
DriveHoldsWhatWasWritten ==
    /\ mode = "image" => Image!DriveHoldsWhatWasWritten
    /\ mode = "zero" => Zero!PointerFollowsProgress
    /\ mode = "compressed" => Compressed!NothingLostOrRepeated

\* WriteDrive() only returns TRUE when the drive holds the image, or as much of
\* it as fits, and the whole of it for a VHD, unless a read has ended within a
\* sector or before the end of the image with nothing; when no data is left on a drive that
\* is zeroed.  What a compressed image leaves on the drive is a prefix of it, but
\* for the padding of its last sector, and with TRUE, unless the user has cancelled,
\* only that sector, which is written without a check, may be missing.
SuccessIsComplete ==
    /\ mode = "image" => Image!SuccessIsComplete
    /\ mode = "zero" => Zero!SuccessIsZeroed
    /\ mode = "compressed" => Compressed!DriveHoldsPrefix

\* "as much of it as fits" without that exemption.
ImageIsComplete == mode = "image" => Image!AlwaysComplete

\* WriteDrive() ends, also when every write is short and no read completes.
WriteDriveEnds == <>(pc = "done")
=============================================================================
