SPECIFICATION Spec
CONSTANTS
    Buffers = {b1, b2, b3, b4}
    NoBuffer = NoBuffer
    QueueSize = 1
    Ranges = {16}
    MaxCounter = 1
    MaxDepth = 2
PROPERTY CallbackReturns
