SPECIFICATION Spec
CONSTANTS
    w1 = w1
    w2 = w2
    Worker = {w1, w2}
    InCap = 1
    OutCap = 1
    ChanICap = 1
    ClaimChunk = 2
    SaveChunk = 2
    DropFailures = TRUE
    MaxJobs = 6
INVARIANTS TypeOK OnePlace PickedUpInOrder
PROPERTIES ServiceSpec
SYMMETRY WorkerSymmetry
