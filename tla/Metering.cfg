\* Path 1 can never be recorded; late reports, a reset or a crash, perhaps after a failed write.
CONSTANTS
    Paths = {1, 2}
    None = None
    Unreadable = {1}
    MaxBuffered = 3
    BatchSize = 2
    MaxSequenceJump = 8
    MaxBytes <- MCBytes
    MaxFrames = 2
    MaxFaults = 1
    MaxWriteFails = 1
SPECIFICATION MeteringSpec
INVARIANT EveryByteOnce
PROPERTIES ImplementsLedger NoneStarved
