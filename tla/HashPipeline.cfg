SPECIFICATION Spec
CONSTANTS
    num_hashes = 3
    NumChunks = 4
INVARIANTS TypeOK NoReadIntoHashedBuffer HashesAreOfTheImage SuccessMeansAllHashed
PROPERTIES HashThreadEnds ImplementsHashService
