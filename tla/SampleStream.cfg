CONSTANTS
    Frame = {f1, f2}
    None = None
SPECIFICATION Spec
INVARIANTS BuffersExclusive OneStageAtATime
PROPERTIES ChannelSafety StopReturns HandOver
