SPECIFICATION Spec
CONSTANTS
    Images = {i1}
    Devices = {d1, d2}
    NULL = NULL
INVARIANT FormatsTheConfirmedDrive
