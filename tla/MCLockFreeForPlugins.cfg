SPECIFICATION Spec
CONSTANTS
    Buffers = {b1, b2, b3, b4}
    NoBuffer = NoBuffer
    QueueSize = 1
    Ranges = {4, 16}
    MaxCounter = 1
    MaxDepth = 3
INVARIANT LockFreeForPlugins
CHECK_DEADLOCK FALSE
