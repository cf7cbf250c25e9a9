SPECIFICATION Spec
CONSTANTS
    Buffers = {b1, b2, b3, b4, b5}
    NoBuffer = NoBuffer
    QueueSize = 2
    Ranges = {8, 12, 16, 32, 64}
    MaxCounter = 2
    MaxDepth = 2
SYMMETRY Symmetry
INVARIANTS TypeOK RefsExact NeverExhausted CounterCountsFrames LockFreeForPlugins
PROPERTY HeldImagesUntouched
