SPECIFICATION Spec
CONSTANTS
    Images = {i1, i2}
    Devices = {d1, d2}
    NULL = NULL
INVARIANTS OneOperationAtATime HotplugKeepsTheDrive  CancelIsAvailable
CONSTRAINT Untroubled
