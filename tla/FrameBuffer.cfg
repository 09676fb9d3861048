CONSTANTS
    RingSize = 2
    MaxFrame = 4
SPECIFICATION Spec
INVARIANTS BacklogIsNew
PROPERTIES InOrder MovesAndStops
