SPECIFICATION Spec
CONSTANTS
    SectorSize = 3
    buf_size = 6
    DiskSize = 9
    ImageSizes = {1, 3, 5, 6, 7, 8, 9, 11}
    Throttle = 1
    MaxCount = 8
    Modulus = 1048576
    MaxImage = 11
INVARIANTS ReadsAreSound DriveHoldsWhatWasWritten SuccessIsComplete
PROPERTY WriteDriveEnds
