CONSTANTS
    RingSize = 1
    MaxFile = 2
    MaxBlock = 3
SPECIFICATION Spec
INVARIANTS OpenWhileRecording Seamless
PROPERTY WithheldEnds
CHECK_DEADLOCK FALSE
