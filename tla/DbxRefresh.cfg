SPECIFICATION Spec
CONSTANTS
    NumArchs = 2
    Embedded <- MCEmbedded
    MaxVersion = 2
INVARIANTS TypeOK CacheBacksMarker RefreshedMeansCurrent AcknowledgedStaysInUse
