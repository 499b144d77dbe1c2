CONSTANTS
    Readings <- MCReadings
    CutReadings <- MCCutReadings
    CutLengths <- MCCutLengths
    Noises <- MCNoises
    Flood <- MCFlood
    ChunkSizes = {1, 64}
    MaxBuffer = 130
    MaxSegments = 2
SPECIFICATION Spec
CHECK_DEADLOCK FALSE
INVARIANTS
    WholeFramesArrive
    ChunkingInvisible
    BufferBounded
