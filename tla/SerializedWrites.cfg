SPECIFICATION Spec
CONSTANTS
    SendQueueSize = 1
    MaxFrames = 1
INVARIANT SerializedWrites
CHECK_DEADLOCK FALSE
