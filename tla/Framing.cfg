SPECIFICATION Spec
CONSTANTS
    MaxLine = 2
    ChunkSize = 4
    MaxMessage = 1
    MaxBytes = 7
INVARIANTS ChunksInvisible BufferBounded PatientLosesNothing
PROPERTIES LinesAreRead
CHECK_DEADLOCK FALSE
