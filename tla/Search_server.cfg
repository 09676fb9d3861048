CONSTANT
    Caller = {ui, info}
SPECIFICATION Spec
INVARIANT NeverTerminates
CHECK_DEADLOCK FALSE
